----------------------------- MODULE Idp_proofs -----------------------------
(***************************************************************************)
(* The identity provider, its endpoint and its file.  First the token      *)
(* endpoint: no token to a second identity, and the promise of a code      *)
(* kept, for any sets of codes and requests and whatever the requests      *)
(* carry.                                                                  *)
(*                                                                         *)
(* Then idp.db: one registration of every client key, for any file a build *)
(* may have left, any configuration and any number of shells and crashes.  *)
(* Every step moves one process and does to the client rows one of three   *)
(* things; Grows says what all three have in common, and that is all the   *)
(* other processes need.                                                   *)
(***************************************************************************)
EXTENDS TokenEndpoint, IdentityStore, FiniteSetTheorems, TLAPS

-----------------------------------------------------------------------------
(* What a request carries.                                                 *)

\* The pair the endpoint strips repeats the header's, so what authenticates
\* stripped carried one identity as it was sent.
LEMMA OneIdentity ==
  ASSUME NEW sent \in Sent, Authenticates(Forwarded(sent))
  PROVE  /\ sent.pair = Client /\ ~sent.assertion
         /\ \A i \in DOMAIN sent.ids : sent.ids[i] = Client.id
         /\ \A i \in DOMAIN sent.secrets : sent.secrets[i] = Client.secret
<1>1. CASE Duplicated(sent)
  <2>1. Forwarded(sent) = [sent EXCEPT !.secrets = <<>>]
    BY <1>1 DEF Forwarded
  <2>2. sent.pair = Client
    BY <2>1 DEF Authenticates, Sent
  <2>3. /\ ~sent.assertion /\ sent.ids = <<sent.pair.id>>
        /\ sent.secrets = <<sent.pair.secret>>
    BY <1>1 DEF Duplicated
  <2>. QED
    BY <2>2, <2>3
<1>2. CASE ~Duplicated(sent)
  <2>1. Forwarded(sent) = sent
    BY <1>2 DEF Forwarded
  <2>2. /\ sent.pair = Client /\ sent.ids \in {<<>>, <<sent.pair.id>>}
        /\ sent.secrets = <<>> /\ ~sent.assertion
    BY <2>1 DEF Authenticates, Dual
  <2>. QED
    BY <2>2
<1>. QED
  BY <1>1, <1>2

-----------------------------------------------------------------------------
(* What the type invariant says, fact by fact.                             *)

LEMMA Typed ==
  ASSUME IInv
  PROVE  /\ requests \in [Requests -> Request]
         /\ resetCount \in 0..MaxResets /\ resetCount \in Int /\ resetCount # Null
         /\ issued \in [Codes -> {Null} \cup 0..MaxResets]
         /\ rows \in [Tables -> SUBSET Codes]
         /\ verification \subseteq Codes /\ revoked \subseteq Codes
BY TokenEndpointAssumption DEF IInv, TypeOK

LEMMA RequestTyped ==
  ASSUME NEW n \in Request
  PROVE  /\ n.stage \in Stages /\ n.sent \in {Null} \cup Sent /\ n.code \in Presented
         /\ n.consumed \in BOOLEAN /\ n.table \in Tables
         /\ n.epoch \in 0..MaxResets /\ n.epoch \in Int /\ n.epoch # Null
BY TokenEndpointAssumption DEF Request

-----------------------------------------------------------------------------
(* One request changes at a time.                                          *)

\* A step that gives one request another value keeps what is said of each
\* request, if it holds of the new value.
LEMMA UpdateKeeps ==
  ASSUME IInv, NEW r \in Requests, NEW n \in Request, Update(r, n),
         VouchedFor(n),
         UNCHANGED <<issued, verification>>,
         ConsumptionOf(n), n.consumed => requests[r].consumed /\ n.code = requests[r].code
  PROVE  requests' \in [Requests -> Request] /\ Vouched' /\ ConsumedOnce'
<1>1. /\ requests' = [requests EXCEPT ![r] = n]
      /\ requests \in [Requests -> Request]
  BY DEF Update, IInv, TypeOK
<1>2. /\ requests' \in [Requests -> Request]
      /\ requests'[r] = n
      /\ \A q \in Requests : q # r => requests'[q] = requests[q]
  BY <1>1
<1>3. \A q \in Requests : VouchedFor(requests'[q])
  BY <1>2 DEF IInv, Vouched
<1>4. \A q \in Requests : ConsumptionOf(requests'[q])
  BY <1>2 DEF IInv, ConsumedOnce
<1>5. \A q \in Requests : ConsumptionOf(requests[q])'
  BY <1>4 DEF ConsumptionOf
<1>6. ASSUME NEW p \in Requests, NEW q \in Requests, requests'[p].consumed,
             requests'[q].consumed, requests'[p].code = requests'[q].code
      PROVE  p = q
  <2>1. /\ requests[p].consumed /\ requests'[p].code = requests[p].code
        /\ requests[q].consumed /\ requests'[q].code = requests[q].code
    BY <1>2, <1>6
  <2>. QED
    BY <1>6, <2>1 DEF IInv, ConsumedOnce
<1>7. \A q \in Requests : VouchedFor(requests[q])'
  BY <1>3 DEF VouchedFor, Authenticates, Forwarded
<1>. QED
  BY <1>2, <1>5, <1>6, <1>7 DEF Vouched, ConsumedOnce

LEMMA CensusTyped ==
  ASSUME NEW n \in Request, NEW error
  PROVE  (IF error = InvalidCode THEN n.presented ELSE Null) \in CodeStates
<1>1. Null \in CodeStates
  BY Zenon DEF CodeStates
<1>. QED
  BY <1>1 DEF Request

\* What Update needs of the request that answers: the code, its consumption
\* and, if it is served, what was sent are those of the request before.
LEMMA AnswerKeeps ==
  ASSUME IInv, NEW r \in Requests, NEW status \in Statuses, NEW error \in Errors,
         Answer(r, status, error), requests[r].stage \notin {"idle", "read", "answered"},
         status = 200 => Authenticates(Forwarded(requests[r].sent)),
         UNCHANGED <<issued, verification>>
  PROVE  /\ requests' \in [Requests -> Request] /\ Vouched' /\ ConsumedOnce'
         /\ requests'[r].stage = "answered"
<1>. DEFINE n == [requests[r] EXCEPT !.stage = "answered", !.status = status, !.error = error,
                    !.sent = IF status = 200 THEN @ ELSE Null,
                    !.census = IF error = InvalidCode THEN requests[r].presented ELSE Null]
<1>1. requests[r] \in Request
  BY Typed
<1>2. /\ n \in Request /\ n.stage = "answered" /\ n.status = status
      /\ n.consumed = requests[r].consumed /\ n.code = requests[r].code
      /\ n.epoch = requests[r].epoch
      /\ n.sent = IF status = 200 THEN requests[r].sent ELSE Null
  BY <1>1, CensusTyped DEF Request, Stages
<1>3. requests[r].sent \in Sent
  BY DEF IInv, Vouched, VouchedFor
<1>4. VouchedFor(n)
  BY <1>2, <1>3 DEF VouchedFor
<1>5. ConsumptionOf(n)
  BY <1>2 DEF IInv, ConsumedOnce, ConsumptionOf
<1>6. Update(r, n)
  BY DEF Answer
<1>7. requests'[r] = n
  BY <1>6 DEF Update, IInv, TypeOK
<1>. HIDE DEF n
<1>. QED
  BY <1>2, <1>4, <1>5, <1>6, <1>7, UpdateKeeps

\* The refusals the endpoint and the library give.
LEMMA RefusalsTyped ==
  /\ 400 \in Statuses \ {200} /\ 401 \in Statuses \ {200}
  /\ InvalidClient \in Errors /\ InvalidGrant \in Errors /\ InvalidCode \in Errors
<1>1. 400 # 200 /\ 401 # 200
  OBVIOUS
<1>. QED
  BY <1>1, Zenon DEF Statuses, Errors

\* A refusal keeps what is said of the requests.
Refused(r) == \E status \in Statuses \ {200}, error \in Errors : Answer(r, status, error)

LEMMA Refusals ==
  ASSUME NEW r \in Requests
  PROVE  /\ Answer(r, 401, InvalidClient) => Refused(r)
         /\ Answer(r, 400, InvalidGrant) => Refused(r)
         /\ Answer(r, 400, InvalidCode) => Refused(r)
<1>. USE RefusalsTyped DEF Refused
<1>1. ASSUME Answer(r, 401, InvalidClient) PROVE Refused(r)
  <2>. WITNESS 401 \in Statuses \ {200}, InvalidClient \in Errors
  <2>. QED
    BY <1>1, Zenon
<1>2. ASSUME Answer(r, 400, InvalidGrant) PROVE Refused(r)
  <2>. WITNESS 400 \in Statuses \ {200}, InvalidGrant \in Errors
  <2>. QED
    BY <1>2, Zenon
<1>3. ASSUME Answer(r, 400, InvalidCode) PROVE Refused(r)
  <2>. WITNESS 400 \in Statuses \ {200}, InvalidCode \in Errors
  <2>. QED
    BY <1>3, Zenon
<1>. HIDE DEF Refused
<1>. QED
  BY <1>1, <1>2, <1>3, Zenon

LEMMA RefusalKeeps ==
  ASSUME IInv, NEW r \in Requests, Refused(r),
         requests[r].stage \notin {"idle", "read", "answered"},
         UNCHANGED <<issued, verification>>
  PROVE  requests' \in [Requests -> Request] /\ Vouched' /\ ConsumedOnce'
BY AnswerKeeps DEF Refused

LEMMA UnsentTyped == Unsent \in Request
<1>1. Null \in CodeStates /\ Null \in Errors /\ Null \in Presented /\ 0 \in Statuses
  BY Zenon DEF CodeStates, Errors, Presented, Statuses
<1>. QED
  BY <1>1, TokenEndpointAssumption DEF Unsent, Request, Stages, Tables

LEMMA RefusalTyped ==
  ASSUME NEW n \in Request, NEW stage \in Stages, NEW status \in Statuses, NEW error \in Errors
  PROVE  [n EXCEPT !.stage = stage, !.status = status, !.error = error] \in Request
BY DEF Request

LEMMA InitIInv == Init => IInv
<1>. SUFFICES ASSUME Init PROVE IInv
  OBVIOUS
<1>1. Unsent \in Request
  BY UnsentTyped
<1>2. \A r \in Requests : requests[r] = Unsent
  BY DEF Init
<1>3. TypeOK
  <2>1. requests \in [Requests -> Request]
    BY <1>1 DEF Init
  <2>2. /\ rows \in [Tables -> SUBSET Codes]
        /\ issued \in [Codes -> {Null} \cup 0..MaxResets]
    BY DEF Init
  <2>3. session \in BOOLEAN
    BY DEF Init
  <2>4. resetCount \in 0..MaxResets
    <3>1. MaxResets \in Nat
      BY TokenEndpointAssumption
    <3>. QED
      BY <3>1 DEF Init
  <2>. QED
    BY <2>1, <2>2, <2>3, <2>4 DEF Init, TypeOK
<1>4. Vouched
  BY <1>2 DEF Vouched, VouchedFor, Unsent
<1>5. ConsumedOnce
  BY <1>2 DEF ConsumedOnce, ConsumptionOf, Unsent
<1>6. CodeBooks
  BY TokenEndpointAssumption DEF Init, CodeBooks, Tables
<1>. QED
  BY <1>3, <1>4, <1>5, <1>6 DEF IInv

\* The pages: a code is issued, or nothing about codes and requests changes.
LEMMA PagesIInv ==
  ASSUME IInv, \/ \E answer \in DOMAIN LoginPageFor : HandleLogin(answer)
               \/ ConsentPage
               \/ \E accept \in BOOLEAN : HandleConsent(accept)
               \/ UNCHANGED vars
  PROVE  IInv'
<1>1. UNCHANGED <<rows, revoked, requests, resetCount>>
  BY DEF HandleLogin, ConsentPage, HandleConsent, vars
<1>2. session' \in BOOLEAN
  <2>1. session \in BOOLEAN
    BY DEF IInv, TypeOK
  <2>2. ASSUME NEW answer, HandleLogin(answer) PROVE session' \in BOOLEAN
    BY <2>2 DEF HandleLogin
  <2>. QED
    BY <2>1, <2>2 DEF ConsentPage, HandleConsent, vars
<1>3. CASE UNCHANGED <<issued, verification>>
  <2>1. TypeOK' /\ CodeBooks'
    BY <1>1, <1>2, <1>3 DEF IInv, TypeOK, CodeBooks
  <2>2. Vouched' /\ ConsumedOnce'
    BY <1>1, <1>3 DEF IInv, Vouched, VouchedFor, ConsumedOnce, ConsumptionOf,
       Authenticates, Forwarded
  <2>. QED
    BY <2>1, <2>2 DEF IInv
<1>4. ASSUME NEW c \in Codes, issued[c] = Null, issued' = [issued EXCEPT ![c] = resetCount],
             verification' = verification \cup {c}
      PROVE  IInv'
  <2>1. TypeOK'
    BY <1>1, <1>2, <1>4 DEF IInv, TypeOK
  <2>2. Vouched'
    BY <1>1 DEF IInv, Vouched, VouchedFor, Authenticates, Forwarded
  <2>3. issued'[c] = resetCount /\ \A d \in Codes : d # c => issued'[d] = issued[d]
    BY <1>4 DEF IInv, TypeOK
  <2>4. resetCount # Null /\ resetCount <= resetCount
    BY TokenEndpointAssumption DEF IInv, TypeOK
  <2>5. CodeBooks'
    BY <1>1, <1>4, <2>3, <2>4 DEF IInv, CodeBooks
  <2>6. \A r \in Requests : requests[r].consumed => requests[r].code # c
    <3>. SUFFICES ASSUME NEW r \in Requests, requests[r].consumed, requests[r].code = c
                  PROVE  FALSE
      OBVIOUS
    <3>1. requests[r].epoch = Null
      BY <1>4 DEF IInv, ConsumedOnce, ConsumptionOf
    <3>2. requests[r].epoch # Null
      BY Typed, RequestTyped
    <3>. QED
      BY <3>1, <3>2
  <2>7. ConsumedOnce'
    BY <1>1, <1>4, <2>3, <2>6 DEF IInv, ConsumedOnce, ConsumptionOf
  <2>. QED
    BY <2>1, <2>2, <2>5, <2>7 DEF IInv
<1>. QED
  BY <1>3, <1>4 DEF HandleLogin, ConsentPage, HandleConsent, vars

\* The body is read: the request carries what it was sent with.
LEMMA ArriveIInv ==
  ASSUME IInv, NEW r \in Requests, NEW sent \in Sends[r], Arrive(r, sent)
  PROVE  IInv'
<1>1. sent \in Sent
  BY TokenEndpointAssumption
<1>2. Unsent \in Request
  BY UnsentTyped
<1>. DEFINE refused == [Unsent EXCEPT !.stage = "answered", !.status = 400, !.error = "mixed"]
<1>. DEFINE read == [Unsent EXCEPT !.stage = "read", !.sent = sent, !.code = sent.code]
<1>3. refused \in Request /\ VouchedFor(refused) /\ ConsumptionOf(refused) /\ ~refused.consumed
  <2>1. "mixed" \in Errors /\ 400 \in Statuses /\ "answered" \in Stages
    BY DEF Errors, Statuses, Stages
  <2>2. \A stage \in Stages, status \in Statuses, error \in Errors :
          [Unsent EXCEPT !.stage = stage, !.status = status, !.error = error] \in Request
    BY <1>2, RefusalTyped
  <2>3. refused \in Request
    BY <2>1, <2>2, Zenon
  <2>. QED
    BY <2>3 DEF Unsent, VouchedFor, ConsumptionOf
<1>4. read \in Request /\ VouchedFor(read) /\ ConsumptionOf(read) /\ ~read.consumed
  <2>1. sent.code \in Presented /\ "read" \in Stages
    BY <1>1 DEF Sent, Stages
  <2>2. read \in Request
    BY <1>1, <1>2, <2>1 DEF Request
  <2>. QED
    BY <1>1, <2>2 DEF Unsent, VouchedFor, ConsumptionOf
<1>5. Update(r, refused) \/ Update(r, read)
  BY DEF Arrive
<1>6. UNCHANGED <<session, verification, rows, issued, resetCount, revoked>>
  BY DEF Arrive
<1>. HIDE DEF refused, read
<1>7. requests' \in [Requests -> Request] /\ Vouched' /\ ConsumedOnce'
  <2>1. CASE Update(r, refused)
    BY <1>3, <1>6, <2>1, UpdateKeeps
  <2>2. CASE Update(r, read)
    BY <1>4, <1>6, <2>2, UpdateKeeps
  <2>. QED
    BY <1>5, <2>1, <2>2
<1>. QED
  BY <1>6, <1>7 DEF IInv, TypeOK, CodeBooks

\* A request goes on to its next stage with what it carries.
LEMMA GoesOn ==
  ASSUME IInv, NEW r \in Requests, NEW n \in Request, Update(r, n),
         requests[r].stage \notin {"idle", "answered"},
         n.stage \in {"forwarded", "revoking", "deleting"},
         n.sent = requests[r].sent, n.status = requests[r].status,
         n.code = requests[r].code, n.consumed = requests[r].consumed,
         n.epoch = requests[r].epoch, UNCHANGED <<issued, verification>>
  PROVE  requests' \in [Requests -> Request] /\ Vouched' /\ ConsumedOnce'
<1>1. VouchedFor(requests[r]) /\ ConsumptionOf(requests[r])
  BY DEF IInv, Vouched, ConsumedOnce
<1>2. VouchedFor(n)
  BY <1>1 DEF VouchedFor
<1>3. ConsumptionOf(n)
  BY <1>1 DEF ConsumptionOf
<1>. QED
  BY <1>2, <1>3, UpdateKeeps

\* The code's state is read.
LEMMA ForwardIInv ==
  ASSUME IInv, NEW r \in Requests, Forward(r)
  PROVE  IInv'
<1>. DEFINE presented == IF requests[r].presented = Null /\ requests[r].code # Null
                         THEN CodeState(requests[r].code) ELSE Null
<1>. DEFINE n == [requests[r] EXCEPT !.stage = "forwarded", !.presented = presented]
<1>1. presented \in CodeStates
  BY Zenon DEF CodeStates, CodeState
<1>2. requests[r] \in Request /\ "forwarded" \in Stages
  BY Typed DEF Stages
<1>3. Update(r, n) /\ requests[r].stage = "read"
  BY DEF Forward
<1>. HIDE DEF presented
<1>4. /\ n \in Request /\ n.stage = "forwarded" /\ n.sent = requests[r].sent
      /\ n.status = requests[r].status /\ n.code = requests[r].code
      /\ n.consumed = requests[r].consumed /\ n.epoch = requests[r].epoch
  BY <1>1, <1>2 DEF Request
<1>5. UNCHANGED <<session, verification, rows, issued, resetCount, revoked>>
  BY DEF Forward
<1>. HIDE DEF n
<1>6. requests' \in [Requests -> Request] /\ Vouched' /\ ConsumedOnce'
  BY <1>3, <1>4, <1>5, GoesOn
<1>. QED
  BY <1>5, <1>6 DEF IInv, TypeOK, CodeBooks

\* What is said of the codes is kept while rows of theirs go and none come.
LEMMA BooksKept ==
  ASSUME IInv, UNCHANGED <<session, issued, resetCount, revoked>>,
         verification' \subseteq verification,
         rows' \in [Tables -> SUBSET Codes], \A t \in Tables : rows'[t] \subseteq rows[t],
         requests' \in [Requests -> Request] /\ Vouched' /\ ConsumedOnce'
  PROVE  IInv'
<1>1. TypeOK'
  BY DEF IInv, TypeOK
<1>2. CodeBooks'
  BY DEF IInv, CodeBooks
<1>. QED
  BY <1>1, <1>2 DEF IInv

\* The code is consumed: by this request, and by no other before or after.
LEMMA ConsumeIInv ==
  ASSUME IInv, NEW r \in Requests, requests[r].stage = "forwarded",
         Authenticates(Forwarded(requests[r].sent)), requests[r].code \in verification,
         verification' = verification \ {requests[r].code},
         Update(r, [requests[r] EXCEPT !.stage = "minting", !.consumed = TRUE,
                      !.epoch = resetCount]),
         UNCHANGED <<session, page, rows, issued, resetCount, revoked>>
  PROVE  IInv'
<1>. DEFINE n == [requests[r] EXCEPT !.stage = "minting", !.consumed = TRUE,
                    !.epoch = resetCount]
<1>. DEFINE c == requests[r].code
<1>1. requests[r] \in Request /\ "minting" \in Stages /\ resetCount \in 0..MaxResets
  BY Typed DEF Stages
<1>2. /\ n \in Request /\ n.stage = "minting" /\ n.sent = requests[r].sent
      /\ n.consumed /\ n.code = c /\ n.epoch = resetCount
  BY <1>1 DEF Request
<1>3. requests' = [requests EXCEPT ![r] = n]
  BY DEF Update
<1>. HIDE DEF n
<1>4. /\ requests' \in [Requests -> Request] /\ requests'[r] = n
      /\ \A q \in Requests : q # r => requests'[q] = requests[q]
  BY <1>2, <1>3, Typed
<1>5. VouchedFor(n)
  BY <1>2 DEF IInv, Vouched, VouchedFor
<1>6. \A q \in Requests : VouchedFor(requests[q])'
  <2>1. \A q \in Requests : VouchedFor(requests'[q])
    BY <1>4, <1>5 DEF IInv, Vouched
  <2>. QED
    BY <2>1 DEF VouchedFor, Authenticates, Forwarded
<1>7. c \in Codes /\ issued[c] = resetCount
  BY Typed DEF IInv, CodeBooks
<1>8. \A q \in Requests : requests[q].consumed => requests[q].code # c
  BY DEF IInv, ConsumedOnce, ConsumptionOf
<1>9. \A q \in Requests : ConsumptionOf(requests[q])'
  <2>1. ConsumptionOf(requests[r])'
    BY <1>2, <1>4, <1>7 DEF ConsumptionOf
  <2>2. ASSUME NEW q \in Requests, q # r PROVE ConsumptionOf(requests[q])'
    <3>1. ConsumptionOf(requests[q]) /\ requests'[q] = requests[q]
      BY <1>4, <2>2 DEF IInv, ConsumedOnce
    <3>. QED
      BY <3>1 DEF ConsumptionOf
  <2>. QED
    BY <2>1, <2>2
<1>10. ASSUME NEW p \in Requests, NEW q \in Requests, requests'[p].consumed,
              requests'[q].consumed, requests'[p].code = requests'[q].code
       PROVE  p = q
  BY <1>2, <1>4, <1>8, <1>10 DEF IInv, ConsumedOnce
<1>11. Vouched' /\ ConsumedOnce'
  BY <1>6, <1>9, <1>10 DEF Vouched, ConsumedOnce
<1>12. rows' \in [Tables -> SUBSET Codes] /\ \A t \in Tables : rows'[t] \subseteq rows[t]
  BY Typed
<1>. QED
  BY <1>4, <1>11, <1>12, BooksKept

LEMMA AnswersTyped == 200 \in Statuses /\ Null \in Errors
BY Zenon DEF Statuses, Errors

\* The library takes the request: refused, served, consuming or revoking.
LEMMA ExchangeIInv ==
  ASSUME IInv, NEW r \in Requests, Exchange(r)
  PROVE  IInv'
<1>1. /\ requests[r].stage = "forwarded"
      /\ UNCHANGED <<session, page, rows, issued, resetCount, revoked>>
  BY DEF Exchange
<1>2. rows' \in [Tables -> SUBSET Codes] /\ \A t \in Tables : rows'[t] \subseteq rows[t]
  BY <1>1, Typed
<1>3. CASE Answer(r, 401, InvalidClient) /\ UNCHANGED verification
  <2>1. Refused(r)
    BY <1>3, Refusals, Zenon
  <2>2. UNCHANGED verification
    BY <1>3, Zenon
  <2>3. requests' \in [Requests -> Request] /\ Vouched' /\ ConsumedOnce'
    BY <1>1, <2>1, <2>2, RefusalKeeps
  <2>. QED
    BY <1>1, <1>2, <2>2, <2>3, BooksKept
<1>4. CASE /\ Authenticates(Forwarded(requests[r].sent))
           /\ Answer(r, 200, Null) /\ UNCHANGED verification
  <2>1. requests' \in [Requests -> Request] /\ Vouched' /\ ConsumedOnce'
    BY <1>1, <1>4, AnswersTyped, AnswerKeeps
  <2>. QED
    BY <1>1, <1>2, <1>4, <2>1, BooksKept
<1>5. CASE Update(r, [requests[r] EXCEPT !.stage = "revoking"]) /\ UNCHANGED verification
  <2>. DEFINE n == [requests[r] EXCEPT !.stage = "revoking"]
  <2>1. requests[r] \in Request /\ "revoking" \in Stages
    BY Typed DEF Stages
  <2>2. /\ n \in Request /\ n.stage = "revoking" /\ n.sent = requests[r].sent
        /\ n.status = requests[r].status /\ n.code = requests[r].code
        /\ n.consumed = requests[r].consumed /\ n.epoch = requests[r].epoch
    BY <2>1 DEF Request
  <2>3. Update(r, n)
    BY <1>5
  <2>. HIDE DEF n
  <2>4. requests' \in [Requests -> Request] /\ Vouched' /\ ConsumedOnce'
    BY <1>1, <1>5, <2>2, <2>3, GoesOn
  <2>. QED
    BY <1>1, <1>2, <1>5, <2>4, BooksKept
<1>6. CASE /\ Authenticates(Forwarded(requests[r].sent)) /\ requests[r].code \in verification
           /\ verification' = verification \ {requests[r].code}
           /\ Update(r, [requests[r] EXCEPT !.stage = "minting", !.consumed = TRUE,
                           !.epoch = resetCount])
  BY <1>1, <1>6, ConsumeIInv
<1>. QED
  BY <1>3, <1>4, <1>5, <1>6 DEF Exchange

\* A token row of a code comes only while its people live and its request mints.
LEMMA MintIInv ==
  ASSUME IInv, NEW r \in Requests, NEW t \in Tables, Mint(r, t)
  PROVE  IInv'
<1>. DEFINE c == requests[r].code
<1>1. /\ requests[r].stage = "minting" /\ requests[r].epoch = resetCount
      /\ rows' = [rows EXCEPT ![t] = @ \cup {c}]
      /\ UNCHANGED <<session, page, verification, issued, resetCount, revoked>>
      /\ Answer(r, 200, Null) \/ UNCHANGED requests
  BY DEF Mint
<1>2. c \in Codes \ verification /\ issued[c] = resetCount
  BY <1>1 DEF IInv, ConsumedOnce, ConsumptionOf
<1>3. rows' \in [Tables -> SUBSET Codes]
      /\ \A u \in Tables : rows'[u] \subseteq rows[u] \cup {c}
  BY <1>1, <1>2, Typed
<1>4. requests' \in [Requests -> Request] /\ Vouched' /\ ConsumedOnce'
  <2>1. CASE Answer(r, 200, Null)
    <3>1. Authenticates(Forwarded(requests[r].sent))
      BY <1>1 DEF IInv, Vouched, VouchedFor
    <3>. QED
      BY <1>1, <2>1, <3>1, AnswersTyped, AnswerKeeps
  <2>2. CASE UNCHANGED requests
    BY <1>1, <2>2, Typed DEF IInv, Vouched, VouchedFor, ConsumedOnce, ConsumptionOf,
       Authenticates, Forwarded
  <2>. QED
    BY <1>1, <2>1, <2>2
<1>5. TypeOK'
  BY <1>1, <1>3, <1>4 DEF IInv, TypeOK
<1>6. CodeBooks'
  BY <1>1, <1>2, <1>3, Typed DEF IInv, CodeBooks
<1>. QED
  BY <1>4, <1>5, <1>6 DEF IInv

LEMMA MintFailsIInv ==
  ASSUME IInv, NEW r \in Requests, MintFails(r)
  PROVE  IInv'
<1>1. /\ requests[r].stage = "minting" /\ Answer(r, 400, InvalidGrant)
      /\ UNCHANGED <<session, page, verification, rows, issued, resetCount, revoked>>
  BY DEF MintFails
<1>2. Refused(r)
  BY <1>1, Refusals, Zenon
<1>3. requests' \in [Requests -> Request] /\ Vouched' /\ ConsumedOnce'
  BY <1>1, <1>2, RefusalKeeps
<1>. QED
  BY <1>1, <1>3, Typed, BooksKept

\* From one table to the next, and then to the refusal.
LEMMA NextTableKeeps ==
  ASSUME IInv, NEW r \in Requests, NextTable(r), requests[r].stage \in {"revoking", "deleting"},
         UNCHANGED <<issued, verification>>
  PROVE  requests' \in [Requests -> Request] /\ Vouched' /\ ConsumedOnce'
<1>1. CASE Answer(r, 400, InvalidCode)
  <2>1. Refused(r)
    BY <1>1, Refusals, Zenon
  <2>. QED
    BY <2>1, RefusalKeeps
<1>2. CASE Update(r, [requests[r] EXCEPT !.stage = "revoking", !.table = "refresh"])
  <2>. DEFINE n == [requests[r] EXCEPT !.stage = "revoking", !.table = "refresh"]
  <2>1. requests[r] \in Request /\ "revoking" \in Stages /\ "refresh" \in Tables
    BY Typed DEF Stages, Tables
  <2>2. /\ n \in Request /\ n.stage = "revoking" /\ n.sent = requests[r].sent
        /\ n.status = requests[r].status /\ n.code = requests[r].code
        /\ n.consumed = requests[r].consumed /\ n.epoch = requests[r].epoch
    BY <2>1 DEF Request
  <2>3. Update(r, n)
    BY <1>2
  <2>. HIDE DEF n
  <2>. QED
    BY <2>2, <2>3, GoesOn
<1>. QED
  BY <1>1, <1>2 DEF NextTable

LEMMA CountRowsIInv ==
  ASSUME IInv, NEW r \in Requests, CountRows(r)
  PROVE  IInv'
<1>1. /\ requests[r].stage = "revoking"
      /\ NextTable(r) \/ Update(r, [requests[r] EXCEPT !.stage = "deleting"])
      /\ UNCHANGED <<session, page, verification, rows, issued, resetCount, revoked>>
  BY DEF CountRows
<1>2. requests' \in [Requests -> Request] /\ Vouched' /\ ConsumedOnce'
  <2>1. CASE NextTable(r)
    BY <1>1, <2>1, NextTableKeeps
  <2>2. CASE Update(r, [requests[r] EXCEPT !.stage = "deleting"])
    <3>. DEFINE n == [requests[r] EXCEPT !.stage = "deleting"]
    <3>1. requests[r] \in Request /\ "deleting" \in Stages
      BY Typed DEF Stages
    <3>2. /\ n \in Request /\ n.stage = "deleting" /\ n.sent = requests[r].sent
          /\ n.status = requests[r].status /\ n.code = requests[r].code
          /\ n.consumed = requests[r].consumed /\ n.epoch = requests[r].epoch
      BY <3>1 DEF Request
    <3>3. Update(r, n)
      BY <2>2
    <3>. HIDE DEF n
    <3>. QED
      BY <1>1, <3>2, <3>3, GoesOn
  <2>. QED
    BY <1>1, <2>1, <2>2
<1>. QED
  BY <1>1, <1>2, Typed, BooksKept

LEMMA DeleteRowsIInv ==
  ASSUME IInv, NEW r \in Requests, DeleteRows(r)
  PROVE  IInv'
<1>1. /\ requests[r].stage = "deleting" /\ NextTable(r)
      /\ rows' = [rows EXCEPT ![requests[r].table] = @ \ {requests[r].code}]
      /\ UNCHANGED <<session, page, verification, issued, resetCount, revoked>>
  BY DEF DeleteRows
<1>2. requests' \in [Requests -> Request] /\ Vouched' /\ ConsumedOnce'
  BY <1>1, NextTableKeeps
<1>3. rows' \in [Tables -> SUBSET Codes] /\ \A t \in Tables : rows'[t] \subseteq rows[t]
  BY <1>1, Typed
<1>. QED
  BY <1>1, <1>2, <1>3, BooksKept

\* A revocation is asked of tokens that are there, so of a code consumed.
LEMMA RevokeTokensIInv ==
  ASSUME IInv, NEW c \in Codes, RevokeTokens(c)
  PROVE  IInv'
<1>1. /\ \E t \in Tables : c \in rows[t]
      /\ revoked' = revoked \cup {c}
      /\ UNCHANGED <<session, page, verification, issued, requests, resetCount>>
  BY DEF RevokeTokens, CodeState
<1>2. rows' \in [Tables -> SUBSET Codes] /\ \A t \in Tables : rows'[t] \subseteq rows[t]
  <2>1. rows' = [t \in Tables |->
          IF IsReplayRevocation(t, {"clientId", "userId"}) THEN rows[t] ELSE rows[t] \ {c}]
    BY DEF RevokeTokens
  <2>. QED
    BY <2>1, Typed
<1>3. issued[c] = resetCount /\ c \notin verification
  BY <1>1 DEF IInv, CodeBooks
<1>4. TypeOK'
  BY <1>1, <1>2 DEF IInv, TypeOK
<1>5. CodeBooks'
  BY <1>1, <1>2, <1>3, Typed DEF IInv, CodeBooks
<1>6. Vouched' /\ ConsumedOnce'
  BY <1>1 DEF IInv, Vouched, VouchedFor, ConsumedOnce, ConsumptionOf, Authenticates, Forwarded
<1>. QED
  BY <1>4, <1>5, <1>6 DEF IInv

LEMMA ResetIInv ==
  ASSUME IInv, Reset
  PROVE  IInv'
<1>1. /\ resetCount' = resetCount + 1 /\ session' = FALSE
      /\ verification' = {} /\ rows' = [t \in Tables |-> {}]
      /\ UNCHANGED <<page, issued, requests, revoked>>
  BY DEF Reset
<1>2. resetCount' \in 0..MaxResets
  <2>1. MaxResets \in Nat /\ resetCount < MaxResets
    BY TokenEndpointAssumption DEF Reset
  <2>. QED
    BY <1>1, <2>1, Typed
<1>3. TypeOK'
  BY <1>1, <1>2 DEF IInv, TypeOK
<1>4. CodeBooks'
  <2>1. \A c \in Codes : issued[c] # Null => issued[c] \in Int /\ issued[c] <= resetCount
    BY Typed DEF IInv, CodeBooks
  <2>2. \A c \in Codes : issued[c] # Null => issued[c] <= resetCount'
    BY <1>1, <2>1, Typed
  <2>. QED
    BY <1>1, <2>2 DEF IInv, CodeBooks
<1>5. Vouched' /\ ConsumedOnce'
  BY <1>1 DEF IInv, Vouched, VouchedFor, ConsumedOnce, ConsumptionOf, Authenticates, Forwarded
<1>. QED
  BY <1>3, <1>4, <1>5 DEF IInv

\* Every step of the pages, the endpoint and the reset keeps the invariant.
LEMMA Inductive == Spec => []IInv
<1>1. IInv /\ [Next]_vars => IInv'
  <2>. SUFFICES ASSUME IInv, [Next]_vars PROVE IInv'
    OBVIOUS
  <2>1. CASE \/ \E answer \in DOMAIN LoginPageFor : HandleLogin(answer)
             \/ ConsentPage
             \/ \E accept \in BOOLEAN : HandleConsent(accept)
             \/ UNCHANGED vars
    BY <2>1, PagesIInv
  <2>2. ASSUME NEW r \in Requests,
               \/ \E sent \in Sends[r] : Arrive(r, sent)
               \/ Forward(r) \/ Exchange(r)
               \/ \E t \in Tables : Mint(r, t)
               \/ MintFails(r) \/ CountRows(r) \/ DeleteRows(r)
        PROVE  IInv'
    BY <2>2, ArriveIInv, ForwardIInv, ExchangeIInv, MintIInv, MintFailsIInv, CountRowsIInv,
       DeleteRowsIInv
  <2>3. CASE \E c \in Codes : RevokeTokens(c)
    BY <2>3, RevokeTokensIInv
  <2>4. CASE Reset
    BY <2>4, ResetIInv
  <2>. QED
    BY <2>1, <2>2, <2>3, <2>4 DEF Next
<1>. QED
  BY InitIInv, <1>1, PTL DEF Spec

\* Every reachable state of the identity provider has the types declared: the
\* codes, the token rows and what each request carries.
THEOREM TypeCorrect == Spec => []TypeOK
<1>1. IInv => TypeOK
  BY DEF IInv
<1>. QED
  BY Inductive, <1>1, PTL

\* Whoever is given a token named the registered client in the header and in
\* every credential of the body: stripping a repeated pair before the library
\* authenticates hides no second identity, whatever a request carries.
THEOREM OneIdentityOnly == Spec => []NoSecondIdentity
<1>1. IInv => NoSecondIdentity
  <2>. SUFFICES ASSUME IInv, NEW r \in Requests, requests[r].status = 200
                PROVE  LET sent == requests[r].sent IN
                       /\ sent.pair = Client /\ ~sent.assertion
                       /\ \A i \in DOMAIN sent.ids : sent.ids[i] = Client.id
                       /\ \A i \in DOMAIN sent.secrets : sent.secrets[i] = Client.secret
    BY DEF NoSecondIdentity
  <2>1. requests[r].sent \in Sent /\ Authenticates(Forwarded(requests[r].sent))
    BY DEF IInv, Vouched, VouchedFor
  <2>. QED
    BY <2>1, OneIdentity
<1>. QED
  BY Inductive, <1>1, PTL

-----------------------------------------------------------------------------
(* The promise of a code.                                                  *)

\* One request consumed the code, so that request is its redeemer.
LEMMA ChosenIs ==
  ASSUME NEW R, NEW q, NEW c, NEW r \in R, q[r].consumed, q[r].code = c,
         \A s \in R : q[s].consumed /\ q[s].code = c => s = r
  PROVE  (CHOOSE s \in R : q[s].consumed /\ q[s].code = c) = r
OBVIOUS

\* The redeemer is the same while no request comes to have consumed a code.
LEMMA RedeemerKept ==
  ASSUME IInv, IInv',
         \A r \in Requests : /\ requests'[r].consumed = requests[r].consumed
                             /\ requests[r].consumed => requests'[r].code = requests[r].code,
         NEW c
  PROVE  Redeemer(c)' = Redeemer(c)
<1>1. CASE \E r \in Requests : requests[r].consumed /\ requests[r].code = c
  <2>1. PICK r \in Requests : requests[r].consumed /\ requests[r].code = c
    BY <1>1
  <2>2. requests'[r].consumed /\ requests'[r].code = c
    BY <2>1
  <2>3. \A s \in Requests : requests[s].consumed /\ requests[s].code = c => s = r
    BY <2>1 DEF IInv, ConsumedOnce
  <2>4. \A s \in Requests : requests'[s].consumed /\ requests'[s].code = c => s = r
    BY <2>2 DEF IInv, ConsumedOnce
  <2>5. Redeemer(c) = r
    BY <1>1, <2>1, <2>3, ChosenIs DEF Redeemer
  <2>6. Redeemer(c)' = r
    BY <2>2, <2>4, ChosenIs DEF Redeemer
  <2>. QED
    BY <2>5, <2>6
<1>2. CASE ~\E r \in Requests : requests[r].consumed /\ requests[r].code = c
  <2>1. ~\E r \in Requests : requests'[r].consumed /\ requests'[r].code = c
    BY <1>2
  <2>. QED
    BY <1>2, <2>1 DEF Redeemer
<1>. QED
  BY <1>1, <1>2

\* A code stands as it did while nothing it is told by changes.
LEMMA StandingKept ==
  ASSUME NEW c, UNCHANGED resetCount, issued'[c] = issued[c],
         c \in revoked' <=> c \in revoked,
         c \in verification' <=> c \in verification,
         \A t \in Tables : c \in rows'[t] <=> c \in rows[t],
         Poised(c)' <=> Poised(c)
  PROVE  Standing(c)' = Standing(c)
BY DEF Standing

\* Only a request on its way to delete is a danger to rows.
LEMMA PoisedKept ==
  ASSUME NEW r \in Requests, NEW c,
         requests \in [Requests -> Request],
         \A q \in Requests : q # r => requests'[q] = requests[q],
         requests[r].stage = "deleting" => requests[r].code # c,
         requests'[r].stage = "deleting" => requests'[r].code # c
  PROVE  Poised(c)' <=> Poised(c)
BY DEF Poised

LEMMA Stutters ==
  ASSUME \A c \in Codes : Standing(c)' = Standing(c) /\ Redeemer(c)' = Redeemer(c)
  PROVE  UNCHANGED Promise!vars
BY DEF Promise!vars

LEMMA BecomesStep ==
  ASSUME NEW c \in Codes, NEW from, NEW to, Standing(c) \in from, Standing(c)' = to,
         \A d \in Codes : d # c => Standing(d)' = Standing(d)
  PROVE  Promise!Becomes(c, from, to)
BY DEF Promise!Becomes

\* A request that answers, or goes on, without having consumed or deleted.
LEMMA RequestStutters ==
  ASSUME IInv, IInv', NEW r \in Requests, NEW n, Update(r, n),
         n.consumed = requests[r].consumed,
         n.consumed => n.code = requests[r].code,
         requests[r].stage # "deleting", n.stage # "deleting",
         UNCHANGED <<verification, rows, issued, resetCount, revoked>>
  PROVE  UNCHANGED Promise!vars
<1>1. /\ requests'[r] = n
      /\ \A q \in Requests : q # r => requests'[q] = requests[q]
  BY Typed DEF Update
<1>2. \A c \in Codes : Poised(c)' <=> Poised(c)
  BY <1>1, Typed, PoisedKept
<1>3. \A c \in Codes : Standing(c)' = Standing(c)
  BY <1>2, StandingKept
<1>4. \A q \in Requests : /\ requests'[q].consumed = requests[q].consumed
                          /\ requests[q].consumed => requests'[q].code = requests[q].code
  BY <1>1
<1>5. \A c \in Codes : Redeemer(c)' = Redeemer(c)
  BY <1>4, RedeemerKept
<1>. QED
  BY <1>3, <1>5, Stutters

\* A code is issued, or nothing changes that a code stands by.
LEMMA PagesRefine ==
  ASSUME IInv, IInv', \/ \E answer \in DOMAIN LoginPageFor : HandleLogin(answer)
                      \/ ConsentPage
                      \/ \E accept \in BOOLEAN : HandleConsent(accept)
                      \/ UNCHANGED vars
  PROVE  Promise!Next \/ UNCHANGED Promise!vars
<1>1. UNCHANGED <<rows, revoked, requests, resetCount>>
  BY DEF HandleLogin, ConsentPage, HandleConsent, vars
<1>2. \A c \in Codes : Redeemer(c)' = Redeemer(c)
  BY <1>1, RedeemerKept
<1>3. \A c \in Codes : Poised(c)' <=> Poised(c)
  BY <1>1 DEF Poised
<1>4. CASE UNCHANGED <<issued, verification>>
  BY <1>1, <1>2, <1>3, <1>4, StandingKept, Stutters
<1>5. ASSUME NEW c \in Codes, issued[c] = Null, issued' = [issued EXCEPT ![c] = resetCount],
             verification' = verification \cup {c}
      PROVE  Promise!Issue(c)
  <2>1. issued'[c] = resetCount /\ \A d \in Codes : d # c => issued'[d] = issued[d]
    BY <1>5, Typed
  <2>2. \A d \in Codes : d # c => Standing(d)' = Standing(d)
    BY <1>1, <1>3, <1>5, <2>1, StandingKept
  <2>3. Standing(c) = "unissued"
    BY <1>5 DEF Standing
  <2>4. c \notin revoked /\ resetCount # Null
    BY <1>5, Typed DEF IInv, CodeBooks
  <2>5. Standing(c)' = "issued"
    BY <1>1, <1>5, <2>1, <2>4 DEF Standing
  <2>6. Promise!Becomes(c, {"unissued"}, "issued")
    BY <2>2, <2>3, <2>5, BecomesStep
  <2>. QED
    BY <1>2, <2>6 DEF Promise!Issue
<1>. QED
  BY <1>4, <1>5 DEF HandleLogin, ConsentPage, HandleConsent, vars, Promise!Next

LEMMA ArriveStutters ==
  ASSUME IInv, IInv', NEW r \in Requests, NEW sent, Arrive(r, sent)
  PROVE  UNCHANGED Promise!vars
<1>. DEFINE refused == [Unsent EXCEPT !.stage = "answered", !.status = 400, !.error = "mixed"]
<1>. DEFINE read == [Unsent EXCEPT !.stage = "read", !.sent = sent, !.code = sent.code]
<1>1. /\ requests[r].stage = "idle"
      /\ UNCHANGED <<verification, rows, issued, resetCount, revoked>>
      /\ Update(r, refused) \/ Update(r, read)
  BY DEF Arrive
<1>2. requests[r].consumed = FALSE
  BY <1>1, Typed, RequestTyped DEF IInv, ConsumedOnce, ConsumptionOf
<1>3. /\ refused.consumed = FALSE /\ refused.stage # "deleting"
      /\ read.consumed = FALSE /\ read.stage # "deleting"
  BY DEF Unsent
<1>. HIDE DEF refused, read
<1>. QED
  BY <1>1, <1>2, <1>3, RequestStutters

LEMMA ForwardStutters ==
  ASSUME IInv, IInv', NEW r \in Requests, Forward(r)
  PROVE  UNCHANGED Promise!vars
<1>. DEFINE presented == IF requests[r].presented = Null /\ requests[r].code # Null
                         THEN CodeState(requests[r].code) ELSE Null
<1>. DEFINE n == [requests[r] EXCEPT !.stage = "forwarded", !.presented = presented]
<1>1. /\ requests[r].stage = "read" /\ Update(r, n)
      /\ UNCHANGED <<verification, rows, issued, resetCount, revoked>>
  BY DEF Forward
<1>. HIDE DEF presented
<1>2. /\ n.stage = "forwarded" /\ n.consumed = requests[r].consumed
      /\ n.code = requests[r].code
  BY Typed DEF Request
<1>. HIDE DEF n
<1>. QED
  BY <1>1, <1>2, RequestStutters

\* An answer changes nothing a code stands by.
LEMMA AnswerStutters ==
  ASSUME IInv, IInv', NEW r \in Requests, NEW status, NEW error, Answer(r, status, error),
         requests[r].stage # "deleting",
         UNCHANGED <<verification, rows, issued, resetCount, revoked>>
  PROVE  UNCHANGED Promise!vars
<1>. DEFINE n == [requests[r] EXCEPT !.stage = "answered", !.status = status, !.error = error,
                    !.sent = IF status = 200 THEN @ ELSE Null,
                    !.census = IF error = InvalidCode THEN requests[r].presented ELSE Null]
<1>1. Update(r, n)
  BY DEF Answer
<1>2. /\ n.stage = "answered" /\ n.consumed = requests[r].consumed
      /\ n.code = requests[r].code
  BY Typed DEF Request
<1>. HIDE DEF n
<1>. QED
  BY <1>1, <1>2, RequestStutters

\* The request that consumes the code redeems it.
LEMMA ConsumeRedeems ==
  ASSUME IInv, IInv', NEW r \in Requests, NEW c, c = requests[r].code,
         requests[r].stage = "forwarded",
         c \in verification, verification' = verification \ {c},
         Update(r, [requests[r] EXCEPT !.stage = "minting", !.consumed = TRUE,
                      !.epoch = resetCount]),
         UNCHANGED <<rows, issued, resetCount, revoked>>
  PROVE  c \in Codes /\ Promise!Redeem(c, r)
<1>1. /\ requests'[r].stage = "minting" /\ requests'[r].consumed /\ requests'[r].code = c
      /\ \A q \in Requests : q # r => requests'[q] = requests[q]
  BY Typed DEF Update, Request
<1>2. \A d \in Codes : Poised(d)' <=> Poised(d)
  BY <1>1, Typed, PoisedKept
<1>3. /\ c \in Codes /\ issued[c] = resetCount /\ c \notin revoked
      /\ \A t \in Tables : c \notin rows[t]
  BY Typed DEF IInv, CodeBooks
<1>4. Standing(c) = "issued"
  BY <1>3, Typed DEF Standing
<1>5. Standing(c)' = "redeemed"
  BY <1>3, Typed DEF Standing, Tables
<1>6. \A d \in Codes : d # c => Standing(d)' = Standing(d)
  BY <1>2, StandingKept
<1>7. Promise!Becomes(c, {"issued"}, "redeemed")
  BY <1>3, <1>4, <1>5, <1>6, BecomesStep
<1>8. Redeemer(c)' = r
  <2>1. \A s \in Requests : requests'[s].consumed /\ requests'[s].code = c => s = r
    BY <1>1 DEF IInv, ConsumedOnce
  <2>. QED
    BY <1>1, <2>1, ChosenIs DEF Redeemer
<1>9. ASSUME NEW d \in Codes, d # c PROVE Redeemer(d)' = Redeemer(d)
  <2>1. \A q \in Requests :
          requests'[q].consumed /\ requests'[q].code = d
            <=> requests[q].consumed /\ requests[q].code = d
    BY <1>1, <1>9
  <2>2. CASE \E q \in Requests : requests[q].consumed /\ requests[q].code = d
    <3>1. PICK q \in Requests : requests[q].consumed /\ requests[q].code = d
      BY <2>2
    <3>2. \A s \in Requests : requests[s].consumed /\ requests[s].code = d => s = q
      BY <3>1 DEF IInv, ConsumedOnce
    <3>3. Redeemer(d) = q
      BY <2>2, <3>1, <3>2, ChosenIs DEF Redeemer
    <3>4. Redeemer(d)' = q
      BY <2>1, <3>1, <3>2, ChosenIs DEF Redeemer
    <3>. QED
      BY <3>3, <3>4
  <2>3. CASE ~\E q \in Requests : requests[q].consumed /\ requests[q].code = d
    BY <2>1, <2>3 DEF Redeemer
  <2>. QED
    BY <2>2, <2>3
<1>10. Promise!Redeem(c, r)
  BY <1>3, <1>7, <1>8, <1>9 DEF Promise!Redeem
<1>. QED
  BY <1>3, <1>10

LEMMA ExchangeRefines ==
  ASSUME IInv, IInv', NEW r \in Requests, Exchange(r)
  PROVE  Promise!Next \/ UNCHANGED Promise!vars
<1>1. /\ requests[r].stage = "forwarded"
      /\ UNCHANGED <<rows, issued, resetCount, revoked>>
  BY DEF Exchange
<1>2. CASE /\ UNCHANGED verification
           /\ Answer(r, 401, InvalidClient) \/ Answer(r, 200, Null)
  <2>1. \E status, error : Answer(r, status, error)
    BY <1>2
  <2>. QED
    BY <1>1, <1>2, <2>1, AnswerStutters
<1>3. CASE Update(r, [requests[r] EXCEPT !.stage = "revoking"]) /\ UNCHANGED verification
  <2>. DEFINE n == [requests[r] EXCEPT !.stage = "revoking"]
  <2>1. Update(r, n) /\ n.stage = "revoking"
        /\ n.consumed = requests[r].consumed /\ n.code = requests[r].code
    BY <1>3, Typed DEF Request
  <2>. HIDE DEF n
  <2>. QED
    BY <1>1, <1>3, <2>1, RequestStutters
<1>4. CASE /\ requests[r].code \in verification
           /\ verification' = verification \ {requests[r].code}
           /\ Update(r, [requests[r] EXCEPT !.stage = "minting", !.consumed = TRUE,
                           !.epoch = resetCount])
  BY <1>1, <1>4, ConsumeRedeems DEF Promise!Next
<1>. QED
  BY <1>2, <1>3, <1>4 DEF Exchange

\* The second token settles the code; the first, or one minted against a code
\* already revoked, changes nothing it stands by.
LEMMA MintRefines ==
  ASSUME IInv, IInv', NEW r \in Requests, NEW t \in Tables, Mint(r, t),
         NEW c, c = requests[r].code
  PROVE  Promise!Next \/ UNCHANGED Promise!vars
<1>1. /\ requests[r].stage = "minting" /\ requests[r].epoch = resetCount
      /\ c \notin rows[t]
      /\ rows' = [rows EXCEPT ![t] = @ \cup {c}]
      /\ UNCHANGED <<session, page, verification, issued, resetCount, revoked>>
      /\ Answer(r, 200, Null) \/ UNCHANGED requests
  BY DEF Mint
<1>2. /\ c \in Codes \ verification /\ issued[c] = resetCount /\ issued[c] # Null
  BY <1>1, Typed DEF IInv, ConsumedOnce, ConsumptionOf
<1>3. /\ requests'[r].stage # "deleting"
      /\ requests'[r].consumed = requests[r].consumed
      /\ requests'[r].code = requests[r].code
      /\ \A q \in Requests : q # r => requests'[q] = requests[q]
  <2>1. CASE Answer(r, 200, Null)
    BY <2>1, Typed DEF Answer, Update, Request
  <2>2. CASE UNCHANGED requests
    BY <1>1, <2>2
  <2>. QED
    BY <1>1, <2>1, <2>2
<1>4. \A d \in Codes : Redeemer(d)' = Redeemer(d)
  BY <1>3, RedeemerKept
<1>5. \A d \in Codes : Poised(d)' <=> Poised(d)
  BY <1>1, <1>3, Typed, PoisedKept
<1>6. \A u \in Tables : \A d \in Codes : d # c => (d \in rows'[u] <=> d \in rows[u])
  BY <1>1, Typed
<1>7. \A d \in Codes : d # c => Standing(d)' = Standing(d)
  BY <1>1, <1>5, <1>6, StandingKept
<1>8. CASE c \in revoked
  <2>1. Standing(c)' = Standing(c)
    BY <1>1, <1>2, <1>8 DEF Standing
  <2>. QED
    BY <1>4, <1>7, <2>1, Stutters
<1>9. CASE c \notin revoked
  <2>1. Standing(c) = "redeemed"
    BY <1>1, <1>2, <1>9 DEF Standing
  <2>2. Standing(c)' \in {"redeemed", "settled"}
    BY <1>1, <1>2, <1>9 DEF Standing
  <2>3. CASE Standing(c)' = "redeemed"
    BY <1>4, <1>7, <2>1, <2>3, Stutters
  <2>4. CASE Standing(c)' = "settled"
    <3>1. Promise!Becomes(c, {"redeemed"}, "settled")
      BY <1>2, <1>7, <2>1, <2>4, BecomesStep
    <3>2. Promise!Settle(c)
      BY <1>4, <3>1 DEF Promise!Settle
    <3>. QED
      BY <1>2, <3>2 DEF Promise!Next
  <2>. QED
    BY <2>2, <2>3, <2>4
<1>. QED
  BY <1>8, <1>9

LEMMA MintFailsStutters ==
  ASSUME IInv, IInv', NEW r \in Requests, MintFails(r)
  PROVE  UNCHANGED Promise!vars
<1>1. \E status, error : Answer(r, status, error)
  BY DEF MintFails
<1>2. /\ requests[r].stage = "minting"
      /\ UNCHANGED <<verification, rows, issued, resetCount, revoked>>
  BY DEF MintFails
<1>. QED
  BY <1>1, <1>2, AnswerStutters

\* What a revocation leaves of a request as it goes from table to table.
LEMMA NextTableShape ==
  ASSUME IInv, NEW r \in Requests, NextTable(r)
  PROVE  /\ requests'[r].stage \in {"revoking", "answered"}
         /\ requests'[r].consumed = requests[r].consumed
         /\ requests'[r].code = requests[r].code
         /\ \A q \in Requests : q # r => requests'[q] = requests[q]
<1>1. CASE Answer(r, 400, InvalidCode)
  BY <1>1, Typed DEF Answer, Update, Request
<1>2. CASE Update(r, [requests[r] EXCEPT !.stage = "revoking", !.table = "refresh"])
  BY <1>2, Typed DEF Update, Request
<1>. QED
  BY <1>1, <1>2 DEF NextTable

\* The count is a danger to the rows of a code only where it found none.
LEMMA CountRowsStutters ==
  ASSUME IInv, IInv', NEW r \in Requests, CountRows(r), NEW c, c = requests[r].code
  PROVE  UNCHANGED Promise!vars
<1>1. /\ requests[r].stage = "revoking"
      /\ UNCHANGED <<session, page, verification, rows, issued, resetCount, revoked>>
  BY DEF CountRows
<1>2. \/ NextTable(r)
      \/ /\ c \notin rows[requests[r].table]
         /\ Update(r, [requests[r] EXCEPT !.stage = "deleting"])
  BY Typed, RequestTyped DEF CountRows, IsReplayRevocation
<1>3. /\ requests'[r].consumed = requests[r].consumed
      /\ requests'[r].code = c
      /\ \A q \in Requests : q # r => requests'[q] = requests[q]
      /\ requests'[r].stage = "deleting" => c \notin rows[requests[r].table]
  <2>1. CASE NextTable(r)
    BY <2>1, NextTableShape
  <2>2. CASE /\ c \notin rows[requests[r].table]
             /\ Update(r, [requests[r] EXCEPT !.stage = "deleting"])
    BY <2>2, Typed DEF Update, Request
  <2>. QED
    BY <1>2, <2>1, <2>2
<1>4. \A d \in Codes : Redeemer(d)' = Redeemer(d)
  BY <1>3, RedeemerKept
<1>5. \A d \in Codes : d # c => (Poised(d)' <=> Poised(d))
  BY <1>1, <1>3, Typed, PoisedKept
<1>6. \A d \in Codes : d # c => Standing(d)' = Standing(d)
  BY <1>1, <1>5, StandingKept
<1>7. Standing(c)' = Standing(c)
  <2>1. CASE requests'[r].stage = "deleting"
    <3>1. requests[r].table \in Tables /\ c \notin rows[requests[r].table]
      BY <1>3, <2>1, Typed, RequestTyped
    <3>. QED
      BY <1>1, <3>1 DEF Standing
  <2>2. CASE requests'[r].stage # "deleting"
    <3>1. Poised(c)' <=> Poised(c)
      BY <1>1, <1>3, <2>2, Typed, PoisedKept
    <3>. QED
      BY <1>1, <3>1, StandingKept
  <2>. QED
    BY <2>1, <2>2
<1>. QED
  BY <1>4, <1>6, <1>7, Stutters

\* The deletion takes rows that had not settled: the request was poised.
LEMMA DeleteRowsStutters ==
  ASSUME IInv, IInv', NEW r \in Requests, DeleteRows(r), NEW c, c = requests[r].code
  PROVE  UNCHANGED Promise!vars
<1>1. /\ requests[r].stage = "deleting" /\ NextTable(r)
      /\ rows' = [rows EXCEPT ![requests[r].table] = @ \ {c}]
      /\ UNCHANGED <<session, page, verification, issued, resetCount, revoked>>
  BY DEF DeleteRows
<1>2. /\ requests'[r].stage \in {"revoking", "answered"}
      /\ requests'[r].consumed = requests[r].consumed /\ requests'[r].code = c
      /\ \A q \in Requests : q # r => requests'[q] = requests[q]
  BY <1>1, NextTableShape
<1>3. \A d \in Codes : Redeemer(d)' = Redeemer(d)
  BY <1>2, RedeemerKept
<1>4. \A d \in Codes : d # c => (Poised(d)' <=> Poised(d))
  BY <1>1, <1>2, Typed, PoisedKept
<1>5. requests[r].table \in Tables
  BY Typed, RequestTyped
<1>6. \A u \in Tables : \A d \in Codes : d # c => (d \in rows'[u] <=> d \in rows[u])
  BY <1>1, Typed
<1>7. \A d \in Codes : d # c => Standing(d)' = Standing(d)
  BY <1>1, <1>4, <1>6, StandingKept
<1>8. Poised(c) /\ ~(\A t \in Tables : c \in rows'[t])
  BY <1>1, <1>5, Typed DEF Poised
<1>9. Standing(c)' = Standing(c)
  BY <1>1, <1>8 DEF Standing
<1>. QED
  BY <1>3, <1>7, <1>9, Stutters

\* Asked for: the code is revoked, if it was not yet.
LEMMA RevokeTokensRefines ==
  ASSUME IInv, IInv', NEW c \in Codes, RevokeTokens(c)
  PROVE  Promise!Next \/ UNCHANGED Promise!vars
<1>1. /\ \E t \in Tables : c \in rows[t]
      /\ revoked' = revoked \cup {c}
      /\ UNCHANGED <<session, page, verification, issued, requests, resetCount>>
  BY DEF RevokeTokens, CodeState
<1>2. \A u \in Tables : \A d \in Codes : d # c => (d \in rows'[u] <=> d \in rows[u])
  <2>1. rows' = [t \in Tables |->
          IF IsReplayRevocation(t, {"clientId", "userId"}) THEN rows[t] ELSE rows[t] \ {c}]
    BY DEF RevokeTokens
  <2>. QED
    BY <2>1, Typed
<1>3. issued[c] = resetCount /\ issued[c] # Null /\ c \notin verification
  BY <1>1, Typed DEF IInv, CodeBooks
<1>4. \A d \in Codes : Redeemer(d)' = Redeemer(d)
  BY <1>1, RedeemerKept
<1>5. \A d \in Codes : Poised(d)' <=> Poised(d)
  BY <1>1 DEF Poised
<1>6. \A d \in Codes : d # c => Standing(d)' = Standing(d)
  BY <1>1, <1>2, <1>5, StandingKept
<1>7. Standing(c)' = "revoked"
  BY <1>1, <1>3 DEF Standing
<1>8. CASE Standing(c) = "revoked"
  BY <1>4, <1>6, <1>7, <1>8, Stutters
<1>9. CASE Standing(c) # "revoked"
  <2>1. Standing(c) \in {"redeemed", "settled"}
    BY <1>3, <1>9 DEF Standing
  <2>2. Promise!Becomes(c, {"redeemed", "settled"}, "revoked")
    BY <1>6, <1>7, <2>1, BecomesStep
  <2>3. Promise!Revoke(c)
    BY <1>4, <2>2 DEF Promise!Revoke
  <2>. QED
    BY <2>3 DEF Promise!Next
<1>. QED
  BY <1>8, <1>9

LEMMA ResetRefines ==
  ASSUME IInv, IInv', Reset
  PROVE  Promise!Next
<1>1. resetCount' = resetCount + 1 /\ UNCHANGED <<issued, requests, revoked>>
  BY DEF Reset
<1>2. \A c \in Codes : Redeemer(c)' = Redeemer(c)
  BY <1>1, RedeemerKept
<1>3. \A c \in Codes : issued[c] # Null => issued[c] # resetCount'
  BY <1>1, Typed DEF IInv, CodeBooks
<1>4. \A c \in Codes :
        Standing(c)' = IF Standing(c) = "unissued" THEN "unissued" ELSE "void"
  BY <1>1, <1>3 DEF Standing
<1>. QED
  BY <1>2, <1>4 DEF Promise!Next, Promise!Reset

LEMMA StepRefines ==
  IInv /\ IInv' /\ [Next]_vars => [Promise!Next]_(Promise!vars)
<1>. SUFFICES ASSUME IInv, IInv', [Next]_vars
              PROVE  Promise!Next \/ UNCHANGED Promise!vars
  OBVIOUS
<1>1. CASE \/ \E answer \in DOMAIN LoginPageFor : HandleLogin(answer)
           \/ ConsentPage
           \/ \E accept \in BOOLEAN : HandleConsent(accept)
           \/ UNCHANGED vars
  BY <1>1, PagesRefine
<1>2. ASSUME NEW r \in Requests,
             \/ \E sent \in Sends[r] : Arrive(r, sent)
             \/ Forward(r) \/ Exchange(r)
             \/ \E t \in Tables : Mint(r, t)
             \/ MintFails(r) \/ CountRows(r) \/ DeleteRows(r)
      PROVE  Promise!Next \/ UNCHANGED Promise!vars
  BY <1>2, ArriveStutters, ForwardStutters, ExchangeRefines, MintRefines, MintFailsStutters,
     CountRowsStutters, DeleteRowsStutters
<1>3. CASE \E c \in Codes : RevokeTokens(c)
  BY <1>3, RevokeTokensRefines
<1>4. CASE Reset
  BY <1>4, ResetRefines
<1>. QED
  BY <1>1, <1>2, <1>3, <1>4 DEF Next

\* The endpoint, its replay guard and the two awaits of a deletion keep the
\* promise of a code: it is redeemed by one exchange, and tokens that have
\* settled outlive every replay, for any codes, requests and credentials.
THEOREM CodeIsGood == Spec => ImplementsCodePromise
<1>1. Init => Promise!Init
  BY DEF Init, Promise!Init, Standing, Redeemer, Unsent
<1>. QED
  BY Inductive, StepRefines, <1>1, PTL DEF Spec, ImplementsCodePromise, Promise!Spec

-----------------------------------------------------------------------------
(* The client rows.                                                        *)

LEMMA Configured ==
  /\ Primary \in Keys /\ Config \in Seq(Keys) /\ Config # <<>>
  /\ \A key \in Keys : DisplayName[key] = ClientName <=> key = Primary
BY StoreAssumption DEF Primary

\* Held finds the one row of the name, if there is one.
LEMMA HeldIsSole ==
  ASSUME NEW clients, IsFiniteSet(clients), NEW row
  PROVE  row \in clients /\ Sole(clients, row) <=> Held(clients) = {row}
<1>. DEFINE named == {r \in clients : r.name = ClientName}
<1>1. IsFiniteSet(named)
  BY FS_Subset
<1>2. Cardinality(named) = 1 <=> \E x : named = {x}
  BY <1>1, FS_Singleton
<1>3. Held(clients) = IF Cardinality(named) = 1 THEN named ELSE {}
  BY DEF Held
<1>4. row \in clients /\ Sole(clients, row) <=> named = {row}
  BY DEF Sole
<1>. HIDE DEF named
<1>. QED
  BY <1>2, <1>3, <1>4

LEMMA HeldRow ==
  ASSUME NEW clients, IsFiniteSet(clients), NEW row \in Held(clients)
  PROVE  row \in clients /\ Sole(clients, row)
<1>. DEFINE named == {r \in clients : r.name = ClientName}
<1>1. IsFiniteSet(named)
  BY FS_Subset
<1>2. Cardinality(named) = 1 <=> \E x : named = {x}
  BY <1>1, FS_Singleton
<1>3. Held(clients) = IF Cardinality(named) = 1 THEN named ELSE {}
  BY DEF Held
<1>4. PICK x : named = {x}
  BY <1>2, <1>3
<1>5. Held(clients) = {row}
  BY <1>3, <1>4
<1>. QED
  BY <1>5, HeldIsSole

\* What a step of anyone may do to the rows: a client that is known stays known by
\* the same id, no stranger comes, and the only row of the name stays the only one.
Grows(C, D) ==
  /\ \A key \in Keys, clientId \in Nat :
       Registered(C, key, clientId) => Registered(D, key, clientId)
  /\ \A clientId \in Nat : Awaits(C, clientId) => KnownAs(D, Primary, clientId)
  /\ (\A row \in C : row.id \in Keys) => \A row \in D : row.id \in Keys
  /\ \A id \in RowIds \ (Keys \ {Primary}) :
       (\A row \in C : row.id = id => Sole(C, row)) => \A row \in D : row.id = id => Sole(D, row)

LEMMA GrowsSame == ASSUME NEW C PROVE Grows(C, C)
BY DEF Grows, KnownAs

LEMMA WorkTyped ==
  ASSUME NEW w \in Work
  PROVE  /\ w = [pc |-> w.pc, task |-> w.task, keys |-> w.keys, row |-> w.row,
                 ensured |-> w.ensured, before |-> w.before, rows |-> w.rows]
         /\ w.pc \in Statements /\ w.task \in Tasks /\ w.keys \in Seq(Keys)
         /\ w.row \in {None} \cup Row /\ w.ensured \in Seq(Entry)
         /\ w.before \in {None} \cup Seq(Entry) /\ w.rows \in {None} \cup SUBSET Row
BY DEF Work

\* What a process holds in memory stays true while others step.
LEMMA GrowsKeepsWork ==
  ASSUME NEW C, NEW D, Grows(C, D), NEW w \in Work, Underway(w, C)
  PROVE  Underway(w, D)
<1>1. w.keys # <<>> => Head(w.keys) \in Keys
  BY WorkTyped
<1>2. \A i \in DOMAIN w.ensured : w.ensured[i].key \in Keys /\ w.ensured[i].clientId \in Nat
  <2>. TAKE i \in DOMAIN w.ensured
  <2>1. w.ensured[i] \in Entry
    BY WorkTyped
  <2>. QED
    BY <2>1 DEF Entry
<1>3. w.row \in Row => w.row.clientId \in Nat /\ w.row.id \in RowIds
  BY DEF Row
<1>. QED
  BY <1>1, <1>2, <1>3 DEF Underway, Grows

LEMMA GrowsKeepsKnown ==
  ASSUME NEW C, NEW D, Grows(C, D), NEW key \in Keys, NEW clientId \in Nat,
         KnownAs(C, key, clientId)
  PROVE  KnownAs(D, key, clientId)
BY DEF Grows, KnownAs

\* Two ids of one key are one.
LEMMA KnownOnce ==
  ASSUME NEW C, OneRowEach(C), NEW key, NEW c, NEW d,
         KnownAs(C, key, c), KnownAs(C, key, d)
  PROVE  c = d
BY DEF OneRowEach, KnownAs, Registered, Awaits, Sole

-----------------------------------------------------------------------------
(* What the statements do to the rows.                                     *)

Rewritten(C, key, field, value) ==
  (C \ {row \in C : row.id = key})
  \cup {[row EXCEPT ![field] = value] : row \in {r \in C : r.id = key}}

LEMMA RewriteFinite ==
  ASSUME NEW C, IsFiniteSet(C), OneRowEach(C), NEW key, NEW field, NEW value
  PROVE  IsFiniteSet(Rewritten(C, key, field, value))
<1>. DEFINE F == {r \in C : r.id = key}
            G == {[row EXCEPT ![field] = value] : row \in F}
<1>. HIDE DEF G
<1>1. IsFiniteSet(C \ F)
  BY FS_Subset
<1>2. G = {} \/ \E x : G = {x}
  <2>1. F = {} \/ \E r : F = {r}
    BY DEF OneRowEach
  <2>. QED
    BY <2>1 DEF G
<1>3. IsFiniteSet(G)
  <2>1. CASE G = {}
    BY <2>1, FS_EmptySet
  <2>2. CASE \E x : G = {x}
    <3>1. PICK x : G = {x}
      BY <2>2
    <3>2. IsFiniteSet({x})
      BY FS_Singleton
    <3>. QED
      BY <3>1, <3>2
  <2>. QED
    BY <1>2, <2>1, <2>2
<1>4. Rewritten(C, key, field, value) = (C \ F) \cup G
  BY DEF Rewritten, G
<1>. HIDE DEF F
<1>. QED
  BY <1>1, <1>3, <1>4, FS_Union

\* A secret or the settings of a row: who has which id is as it was.
LEMMA RewriteGrows ==
  ASSUME NEW C, C \subseteq Row, OneRowEach(C), NEW key, NEW field, NEW value,
         \/ field = "secret" /\ value \in Secret
         \/ field = "configured" /\ value \in BOOLEAN
  PROVE  LET D == Rewritten(C, key, field, value) IN
         D \subseteq Row /\ OneRowEach(D) /\ Grows(C, D)
<1>. DEFINE D == Rewritten(C, key, field, value)
            Image(row) == IF row.id = key THEN [row EXCEPT ![field] = value] ELSE row
<1>1. \A row \in C : /\ Image(row) \in Row /\ Image(row).id = row.id
                     /\ Image(row).name = row.name /\ Image(row).clientId = row.clientId
  <2>. TAKE row \in C
  <2>1. row \in Row
    OBVIOUS
  <2>2. CASE field = "secret" /\ value \in Secret
    BY <2>1, <2>2 DEF Row
  <2>3. CASE field = "configured" /\ value \in BOOLEAN
    BY <2>1, <2>3 DEF Row
  <2>. QED
    BY <2>2, <2>3
<1>2. D = {Image(row) : row \in C}
  BY DEF Rewritten
<1>. HIDE DEF Image, D
<1>3. D \subseteq Row
  BY <1>1, <1>2
<1>4. \A r \in D : \E row \in C : r = Image(row)
  BY <1>2
<1>5. \A row \in C : Image(row) \in D
  BY <1>2
<1>6. \A row \in C : Sole(C, row) <=> Sole(D, Image(row))
  BY <1>1, <1>4, <1>5 DEF Sole, OneRowEach
<1>7. OneRowEach(D)
  BY <1>1, <1>4, <1>6 DEF OneRowEach
<1>8. Grows(C, D)
  <2>1. \A k, c : Registered(C, k, c) => Registered(D, k, c)
    BY <1>1, <1>5 DEF Registered
  <2>2. \A c : Awaits(C, c) => Awaits(D, c)
    BY <1>1, <1>5, <1>6 DEF Awaits
  <2>3. (\A row \in C : row.id \in Keys) => \A row \in D : row.id \in Keys
    BY <1>1, <1>4
  <2>4. \A id : (\A row \in C : row.id = id => Sole(C, row))
                  => \A row \in D : row.id = id => Sole(D, row)
    BY <1>1, <1>4, <1>6
  <2>. QED
    BY <2>1, <2>2, <2>3, <2>4 DEF Grows, KnownAs
<1>. QED
  BY <1>3, <1>7, <1>8 DEF D

\* Adopting the only row of the name, or a row that another process has adopted.
LEMMA AdoptGrows ==
  ASSUME NEW C, C \subseteq Row, OneRowEach(C), NEW x, x \notin Keys \ {Primary},
         \A row \in C : row.id = x => Sole(C, row)
  PROVE  LET D == Rewritten(C, x, "id", Primary) IN
         D \subseteq Row /\ OneRowEach(D) /\ Grows(C, D)
<1>. DEFINE D == Rewritten(C, x, "id", Primary)
<1>1. CASE {r \in C : r.id = x} = {}
  <2>1. D = C
    BY <1>1 DEF Rewritten
  <2>. QED
    BY <2>1, GrowsSame
<1>2. CASE {r \in C : r.id = x} # {}
  <2>1. PICK r \in C : r.id = x
    BY <1>2
  <2>. DEFINE s == [r EXCEPT !.id = Primary]
  <2>2. {q \in C : q.id = x} = {r}
    BY <2>1 DEF OneRowEach
  <2>3. D = (C \ {r}) \cup {s}
    BY <2>2 DEF Rewritten
  <2>4. r \in Row /\ Sole(C, r)
    BY <2>1
  <2>5. s \in Row /\ s.id = Primary /\ s.name = ClientName /\ s.clientId = r.clientId
    <3>1. Primary \in RowIds
      BY Configured DEF RowIds
    <3>. QED
      BY <2>4, <3>1 DEF Row, Sole
  <2>6. CASE r.id = Primary
    <3>1. s = r
      BY <2>4, <2>6 DEF Row
    <3>2. D = C
      BY <2>1, <2>3, <3>1
    <3>. QED
      BY <3>2, GrowsSame
  <2>7. CASE r.id # Primary
    <3>. HIDE DEF s, D
    <3>1. r.id \notin Keys
      BY <2>1, <2>7
    <3>2. \A q \in C : q.id # Primary
      BY <2>4, <2>7 DEF OneRowEach, Sole
    <3>3. \A q \in C \ {r} : q.name # ClientName
      BY <2>4 DEF Sole
    <3>4. Sole(D, s)
      BY <2>3, <2>5, <3>3 DEF Sole
    <3>5. OneRowEach(D)
      <4>1. \A q, t \in D : q.id = t.id => q = t
        BY <2>3, <2>5, <3>2 DEF OneRowEach
      <4>2. \A q \in D : q.id \in Keys => (q.name = ClientName <=> q.id = Primary)
        BY <2>3, <2>5 DEF OneRowEach
      <4>3. \A q \in D : q.id = Primary => Sole(D, q)
        BY <2>3, <3>2, <3>4
      <4>. QED
        BY <4>1, <4>2, <4>3 DEF OneRowEach
    <3>6. Grows(C, D)
      <4>1. \A k \in Keys : \A c : Registered(C, k, c) => Registered(D, k, c)
        BY <2>3, <3>1 DEF Registered
      <4>2. \A c : Awaits(C, c) => Registered(D, Primary, c)
        <5>. SUFFICES ASSUME NEW c, NEW q \in C, Sole(C, q), q.clientId = c
                      PROVE  Registered(D, Primary, c)
          BY DEF Awaits
        <5>1. q = r
          BY <2>4 DEF Sole
        <5>. QED
          BY <2>3, <2>5, <5>1 DEF Registered
      <4>3. (\A row \in C : row.id \in Keys) => \A row \in D : row.id \in Keys
        BY <2>1, <3>1
      <4>4. ASSUME NEW id, \A row \in C : row.id = id => Sole(C, row), NEW q \in D, q.id = id
            PROVE  Sole(D, q)
        <5>1. CASE q = s
          BY <5>1, <3>4
        <5>2. CASE q # s
          <6>1. q \in C \ {r}
            BY <2>3, <5>2
          <6>2. q.name = ClientName
            BY <4>4, <6>1 DEF Sole
          <6>. QED
            BY <6>1, <6>2, <3>3
        <5>. QED
          BY <5>1, <5>2
      <4>. QED
        BY <4>1, <4>2, <4>3, <4>4 DEF Grows, KnownAs
    <3>7. D \subseteq Row
      BY <2>3, <2>5
    <3>. QED
      BY <3>5, <3>6, <3>7 DEF D
  <2>. QED
    BY <2>6, <2>7
<1>. QED
  BY <1>1, <1>2

\* A row for a key that has none, where no stranger is.
LEMMA MintGrows ==
  ASSUME NEW C, C \subseteq Row, OneRowEach(C), \A row \in C : row.id \in Keys,
         NEW r \in Row, r.id \in Keys, r.name = DisplayName[r.id],
         \A row \in C : row.id # r.id
  PROVE  OneRowEach(C \cup {r}) /\ Grows(C, C \cup {r})
<1>. DEFINE D == C \cup {r}
<1>1. r.name = ClientName <=> r.id = Primary
  BY Configured
<1>2. \A q \in D : q.id \in Keys /\ (q.name = ClientName <=> q.id = Primary)
  BY <1>1 DEF OneRowEach
<1>3. \A q, t \in D : q.id = t.id => q = t
  BY DEF OneRowEach
<1>. HIDE DEF D
<1>4. \A q \in D : q.id = Primary => Sole(D, q)
  BY <1>2, <1>3 DEF Sole
<1>5. OneRowEach(D)
  BY <1>2, <1>3, <1>4 DEF OneRowEach
<1>6. \A k, c : Registered(C, k, c) => Registered(D, k, c)
  BY DEF Registered, D
<1>7. \A c : ~Awaits(C, c)
  BY DEF Awaits, Sole, OneRowEach
<1>8. \A id : id \notin Keys \ {Primary} => \A q \in D : q.id = id => Sole(D, q)
  BY <1>2, <1>4
<1>9. Grows(C, D)
  BY <1>2, <1>6, <1>7, <1>8 DEF Grows
<1>. QED
  BY <1>5, <1>9 DEF D

-----------------------------------------------------------------------------
(* One process moves at a time.                                            *)

LEMMA StoreTyped ==
  ASSUME StoreInv
  PROVE  /\ disk \in File /\ disk.clients \subseteq Row /\ IsFiniteSet(disk.clients)
         /\ OneRowEach(disk.clients)
         /\ disk = [version |-> disk.version, people |-> disk.people,
                    orphans |-> disk.orphans, clients |-> disk.clients]
         /\ disk.people \subseteq DOMAIN Lower
         /\ work \in [Procs -> Work] /\ fresh \in Nat /\ told \subseteq Keys \X Nat
         /\ \A p \in Procs : work[p] \in Work /\ Underway(work[p], disk.clients)
BY DEF StoreInv, StoreTypeOK, File

\* The invariant is kept by a process that goes to w, does to the rows what a step
\* may do to them and tells of registered clients alone.
LEMMA ProcessMoves ==
  ASSUME StoreInv, NEW p \in Procs, NEW w \in Work, NEW T \in SUBSET (Keys \X Nat),
         work' = [work EXCEPT ![p] = w],
         fixture' = fixture, disk' \in File, IsFiniteSet(disk'.clients),
         OneRowEach(disk'.clients), Grows(disk.clients, disk'.clients),
         Underway(w, disk'.clients),
         fresh' \in Nat, told' = told \cup T,
         \A pair \in T : Registered(disk'.clients, pair[1], pair[2]),
         resets' \subseteq Ends,
         shells' \in 0..MaxShells, crashes' \in 0..MaxCrashes
  PROVE  StoreInv'
<1>1. StoreTypeOK'
  BY DEF StoreInv, StoreTypeOK
<1>2. \A q \in Procs : Underway(work'[q], disk'.clients)
  <2>. TAKE q \in Procs
  <2>1. work[q] \in Work /\ Underway(work[q], disk.clients)
    BY StoreTyped
  <2>2. work'[q] = IF q = p THEN w ELSE work[q]
    BY StoreTyped
  <2>. QED
    BY <2>1, <2>2, GrowsKeepsWork
<1>3. \A pair \in told' : KnownAs(disk'.clients, pair[1], pair[2])
  <2>. TAKE pair \in told'
  <2>1. CASE pair \in T
    BY <2>1 DEF KnownAs
  <2>2. CASE pair \in told
    <3>1. pair[1] \in Keys /\ pair[2] \in Nat
      BY <2>2, StoreTyped
    <3>2. KnownAs(disk.clients, pair[1], pair[2])
      BY <2>2 DEF StoreInv
    <3>. QED
      BY <3>1, <3>2, GrowsKeepsKnown
  <2>. QED
    BY <2>1, <2>2
<1>. QED
  BY <1>1, <1>2, <1>3 DEF StoreInv

\* A step in memory.
LEMMA ProcessThinks ==
  ASSUME StoreInv, NEW p \in Procs, NEW w \in Work,
         work' = [work EXCEPT ![p] = w], Underway(w, disk.clients),
         UNCHANGED <<fixture, disk, fresh, told, resets>>,
         shells' \in 0..MaxShells, crashes' \in 0..MaxCrashes
  PROVE  StoreInv'
<1>1. Grows(disk.clients, disk'.clients)
  BY GrowsSame
<1>2. resets' \subseteq Ends
  BY DEF StoreInv, StoreTypeOK
<1>3. told' = told \cup {} /\ {} \in SUBSET (Keys \X Nat)
  OBVIOUS
<1>4. /\ disk' \in File /\ IsFiniteSet(disk'.clients) /\ OneRowEach(disk'.clients)
      /\ fresh' \in Nat /\ Underway(w, disk'.clients) /\ fixture' = fixture
  BY StoreTyped
<1>5. \A pair \in {} : Registered(disk'.clients, pair[1], pair[2])
  OBVIOUS
<1>. QED
  BY <1>1, <1>2, <1>3, <1>4, <1>5, ProcessMoves, Zenon

LEMMA Bounds ==
  ASSUME StoreInv
  PROVE  /\ shells \in 0..MaxShells /\ crashes \in 0..MaxCrashes
         /\ resets \subseteq Ends
BY DEF StoreInv, StoreTypeOK

\* Where a process may go without more being true of it.
Harmless == Statements \ {"reconcile", "migrate", "strangers", "mint", "adopting"}

LEMMA WorkGoes ==
  ASSUME NEW C, NEW w \in Work, Underway(w, C), NEW step \in Harmless
  PROVE  [w EXCEPT !.pc = step] \in Work /\ Underway([w EXCEPT !.pc = step], C)
<1>. DEFINE n == [w EXCEPT !.pc = step]
<1>1. n \in Work
  BY DEF Work, Harmless
<1>2. n.pc = step /\ n.ensured = w.ensured
  BY DEF Work
<1>. QED
  BY <1>1, <1>2 DEF Underway, Harmless, Statements

\* A process that ensured nothing yet holds nothing.
LEMMA HoldsNothing ==
  ASSUME NEW w \in Work, w.pc \in Harmless, w.ensured = <<>>, NEW C
  PROVE  Underway(w, C)
BY DEF Underway, Harmless

\* A process that ensured nothing yet has an empty list of each kind.
LEMMA NothingYet == <<>> \in Seq(Keys) /\ <<>> \in Seq(Entry)
OBVIOUS

LEMMA WorkStarts ==
  ASSUME NEW C, NEW step \in Harmless
  PROVE  [Down EXCEPT !.pc = step] \in Work /\ Underway([Down EXCEPT !.pc = step], C)
<1>. DEFINE n == [Down EXCEPT !.pc = step]
<1>1. n = [pc |-> step, task |-> "boot", keys |-> <<>>, row |-> None,
           ensured |-> <<>>, before |-> None, rows |-> None]
  BY DEF Down
<1>2. step \in Statements /\ "boot" \in Tasks
  BY DEF Harmless, Tasks
<1>3. n \in Work /\ n.pc = step /\ n.ensured = <<>>
  BY <1>1, <1>2, NothingYet DEF Work
<1>. HIDE DEF n
<1>4. Underway(n, C)
  BY <1>3, HoldsNothing
<1>. QED
  BY <1>3, <1>4 DEF n

LEMMA WorkEnsures ==
  ASSUME NEW C, NEW w \in Work
  PROVE  LET n == [w EXCEPT !.pc = "adopt", !.keys = Config, !.ensured = <<>>] IN
         n \in Work /\ Underway(n, C)
<1>. DEFINE n == [w EXCEPT !.pc = "adopt", !.keys = Config, !.ensured = <<>>]
<1>1. Config \in Seq(Keys) /\ <<>> \in Seq(Entry)
  BY NothingYet, Configured
<1>2. "adopt" \in Statements /\ "adopt" \in Harmless
  BY DEF Harmless, Statements
<1>3. n \in Work /\ n.pc = "adopt" /\ n.ensured = <<>>
  BY <1>1, <1>2 DEF Work
<1>. HIDE DEF n
<1>4. Underway(n, C)
  BY <1>2, <1>3, HoldsNothing
<1>. QED
  BY <1>3, <1>4 DEF n

LEMMA WorkResets ==
  ASSUME NEW C, C \subseteq Row, NEW step \in {"open", "adopt"}, NEW task \in Tasks,
         NEW keys \in Seq(Keys)
  PROVE  LET n == [Down EXCEPT !.task = task, !.rows = C, !.pc = step, !.keys = keys] IN
         n \in Work /\ \A D : Underway(n, D)
<1>. DEFINE n == [Down EXCEPT !.task = task, !.rows = C, !.pc = step, !.keys = keys]
<1>1. Down \in Work /\ Down.ensured = <<>>
  BY NothingYet DEF Down, Work, Statements, Tasks
<1>2. step \in Statements /\ step \in Harmless
  BY DEF Harmless, Statements
<1>3. n \in Work /\ n.pc = step /\ n.ensured = <<>>
  BY <1>1, <1>2 DEF Work
<1>. HIDE DEF n
<1>4. \A D : Underway(n, D)
  BY <1>2, <1>3, HoldsNothing
<1>. QED
  BY <1>3, <1>4 DEF n

\* One key is done: its client is registered by the id that was found or made.
LEMMA WorkEnsured ==
  ASSUME NEW C, NEW w \in Work, Underway(w, C), w.keys # <<>>,
         NEW clientId \in Nat, NEW secret \in {None} \cup Nat,
         NEW state \in {"unchanged", "migrated", "rotated", "created"},
         Registered(C, Head(w.keys), clientId)
  PROVE  LET entry == [key |-> Head(w.keys), clientId |-> clientId, secret |-> secret,
                       state |-> state]
             n == [w EXCEPT !.pc = "find", !.keys = Tail(@), !.row = None,
                            !.ensured = Append(@, entry)]
         IN n \in Work /\ Underway(n, C)
<1>. DEFINE entry == [key |-> Head(w.keys), clientId |-> clientId, secret |-> secret,
                      state |-> state]
            n == [w EXCEPT !.pc = "find", !.keys = Tail(@), !.row = None,
                           !.ensured = Append(@, entry)]
<1>1. w.keys \in Seq(Keys) /\ w.ensured \in Seq(Entry)
  BY WorkTyped
<1>2. Head(w.keys) \in Keys /\ Tail(w.keys) \in Seq(Keys)
  BY <1>1
<1>3. entry \in Entry /\ entry.key = Head(w.keys) /\ entry.clientId = clientId
  BY <1>2 DEF Entry
<1>. HIDE DEF entry
<1>4. /\ Append(w.ensured, entry) \in Seq(Entry)
      /\ \A i \in DOMAIN Append(w.ensured, entry) :
           \/ i \in DOMAIN w.ensured /\ Append(w.ensured, entry)[i] = w.ensured[i]
           \/ Append(w.ensured, entry)[i] = entry
  BY <1>1, <1>3
<1>5. "find" \in Statements
  BY DEF Statements
<1>6. n \in Work /\ n.pc = "find" /\ n.ensured = Append(w.ensured, entry)
  BY <1>2, <1>4, <1>5 DEF Work
<1>. HIDE DEF n
<1>7. Underway(n, C)
  BY <1>3, <1>4, <1>6 DEF Underway
<1>. QED
  BY <1>6, <1>7 DEF n, entry

LEMMA ToldClients ==
  ASSUME NEW C, NEW w \in Work, Underway(w, C)
  PROVE  /\ Clients(w.ensured) \in SUBSET (Keys \X Nat)
         /\ \A pair \in Clients(w.ensured) : Registered(C, pair[1], pair[2])
<1>1. w.ensured \in Seq(Entry)
  BY WorkTyped
<1>2. \A i \in DOMAIN w.ensured : w.ensured[i] \in Entry
  BY <1>1
<1>3. \A pair \in Clients(w.ensured) : \E i \in DOMAIN w.ensured :
        pair = <<w.ensured[i].key, w.ensured[i].clientId>>
  BY DEF Clients, ToSet
<1>4. \A i \in DOMAIN w.ensured : w.ensured[i].key \in Keys /\ w.ensured[i].clientId \in Nat
  BY <1>2 DEF Entry
<1>. QED
  BY <1>3, <1>4 DEF Underway

-----------------------------------------------------------------------------
(* Every step keeps the invariant.                                         *)

LEMMA GoesWork ==
  ASSUME StoreInv, NEW p \in Procs, NEW step, Goes(p, step)
  PROVE  work' = [work EXCEPT ![p] = [work[p] EXCEPT !.pc = step]]
BY StoreTyped DEF Goes

LEMMA StopKeeps ==
  ASSUME StoreInv, NEW p \in Procs, Stop(p)
  PROVE  \E w \in Work : work' = [work EXCEPT ![p] = w] /\ \A C : Underway(w, C)
<1>. DEFINE step == IF Serves(p) THEN "serving" ELSE "stopped"
            w == [Down EXCEPT !.pc = step]
<1>1. work' = [work EXCEPT ![p] = w]
  BY DEF Stop
<1>2. step \in Harmless
  BY DEF Harmless, Statements
<1>. HIDE DEF step
<1>3. w \in Work /\ \A C : Underway(w, C)
  BY <1>2, WorkStarts
<1>. QED
  BY <1>1, <1>3

LEMMA EnsuresKeeps ==
  ASSUME StoreInv, NEW p \in Procs, Ensures(p)
  PROVE  \E w \in Work : work' = [work EXCEPT ![p] = w] /\ \A C : Underway(w, C)
<1>. DEFINE w == [work[p] EXCEPT !.pc = "adopt", !.keys = Config, !.ensured = <<>>]
<1>1. work' = [work EXCEPT ![p] = w]
  BY StoreTyped DEF Ensures
<1>2. w \in Work /\ \A C : Underway(w, C)
  BY StoreTyped, WorkEnsures
<1>. QED
  BY <1>1, <1>2

\* A step that changes the file's people or version, not its clients.
LEMMA PeopleMove ==
  ASSUME StoreInv, NEW p \in Procs, NEW w \in Work,
         work' = [work EXCEPT ![p] = w], \A C : Underway(w, C),
         disk' \in File, disk'.clients = disk.clients,
         UNCHANGED <<fixture, fresh, told, resets, shells, crashes>>
  PROVE  StoreInv'
<1>1. Grows(disk.clients, disk'.clients)
  BY GrowsSame
<1>2. told' = told \cup {} /\ {} \in SUBSET (Keys \X Nat) /\ fixture' = fixture
  OBVIOUS
<1>3. /\ IsFiniteSet(disk'.clients) /\ OneRowEach(disk'.clients) /\ fresh' \in Nat
      /\ Underway(w, disk'.clients) /\ resets' \subseteq Ends
      /\ shells' \in 0..MaxShells /\ crashes' \in 0..MaxCrashes
  BY StoreTyped, Bounds
<1>4. \A pair \in {} : Registered(disk'.clients, pair[1], pair[2])
  OBVIOUS
<1>. QED
  BY <1>1, <1>2, <1>3, <1>4, ProcessMoves, Zenon

\* A step of the clients' rows.
LEMMA RowsMove ==
  ASSUME StoreInv, NEW p \in Procs, NEW w \in Work, NEW D,
         work' = [work EXCEPT ![p] = w], Underway(w, D),
         disk' = [disk EXCEPT !.clients = D], D \subseteq Row, IsFiniteSet(D), OneRowEach(D),
         Grows(disk.clients, D), fresh' \in Nat,
         UNCHANGED <<fixture, told, resets, shells, crashes>>
  PROVE  StoreInv'
<1>1. disk' \in File /\ disk'.clients = D
  BY StoreTyped DEF File
<1>2. told' = told \cup {} /\ {} \in SUBSET (Keys \X Nat) /\ fixture' = fixture
  OBVIOUS
<1>3. /\ IsFiniteSet(disk'.clients) /\ OneRowEach(disk'.clients)
      /\ Underway(w, disk'.clients) /\ Grows(disk.clients, disk'.clients)
  BY <1>1
<1>4. /\ resets' \subseteq Ends /\ shells' \in 0..MaxShells /\ crashes' \in 0..MaxCrashes
  BY Bounds
<1>5. \A pair \in {} : Registered(disk'.clients, pair[1], pair[2])
  OBVIOUS
<1>. QED
  BY <1>1, <1>2, <1>3, <1>4, <1>5, ProcessMoves, Zenon

LEMMA RewriteIs ==
  ASSUME NEW key, NEW field, NEW value, Rewrite(key, field, value)
  PROVE  disk' = [disk EXCEPT !.clients = Rewritten(disk.clients, key, field, value)]
BY DEF Rewrite, Rewritten, Found

\* The file brought to this build's version.
LEMMA NewVersion ==
  ASSUME StoreInv, NEW people, people \subseteq DOMAIN Lower,
         disk' = [disk EXCEPT !.version = SchemaVersion, !.people = people]
  PROVE  disk' \in File /\ disk'.clients = disk.clients
<1>1. disk' = [version |-> SchemaVersion, people |-> people, orphans |-> disk.orphans,
               clients |-> disk.clients]
  BY StoreTyped
<1>2. SchemaVersion \in {NoSchema} \cup 0..SchemaVersion + 1
  BY DEF SchemaVersion
<1>. QED
  BY <1>1, <1>2, StoreTyped DEF File

LEMMA OpenKeeps == ASSUME StoreInv, NEW p \in Procs, Open(p) PROVE StoreInv'
<1>1. CASE disk.version = NoSchema
  <2>1. Goes(p, "seed") /\ UNCHANGED <<fixture, disk, fresh, told, resets, shells, crashes>>
    BY <1>1 DEF Open
  <2>2. "seed" \in Harmless
    BY DEF Harmless, Statements
  <2>. QED
    BY <2>1, <2>2, GoesWork, WorkGoes, StoreTyped, Bounds, ProcessThinks
<1>2. CASE disk.version # NoSchema
  <2>1. Upgrade(p) /\ UNCHANGED <<fixture, fresh, told, resets, shells, crashes>>
    BY <1>2 DEF Open
  <2>2. PICK w \in Work : work' = [work EXCEPT ![p] = w] /\ \A C : Underway(w, C)
    BY <2>1, StopKeeps, EnsuresKeeps DEF Upgrade, RolledBack
  <2>3. disk' \in File /\ disk'.clients = disk.clients
    <3>1. CASE disk' = disk
      BY <3>1, StoreTyped
    <3>2. CASE disk' = [disk EXCEPT !.version = SchemaVersion, !.people = Folded(@)]
      <4>1. Folded(disk.people) \subseteq DOMAIN Lower
        BY StoreTyped, StoreAssumption DEF Folded
      <4>. QED
        BY <3>2, <4>1, StoreTyped, NewVersion
    <3>. QED
      BY <2>1, <3>1, <3>2 DEF Upgrade, RolledBack
  <2>. QED
    BY <2>1, <2>2, <2>3, PeopleMove
<1>. QED
  BY <1>1, <1>2

LEMMA FixturePeople == ASSUME StoreInv PROVE ToSet(fixture) \subseteq DOMAIN Lower
<1>1. fixture \in Seq(DOMAIN Lower)
  BY StoreAssumption DEF StoreInv, StoreTypeOK
<1>. QED
  BY <1>1 DEF ToSet

LEMMA SeedKeeps == ASSUME StoreInv, NEW p \in Procs, Seed(p) PROVE StoreInv'
<1>1. PICK w \in Work : work' = [work EXCEPT ![p] = w] /\ \A C : Underway(w, C)
  BY StopKeeps, EnsuresKeeps DEF Seed
<1>2. disk' \in File /\ disk'.clients = disk.clients
  <2>1. CASE disk' = disk
    BY <2>1, StoreTyped
  <2>2. CASE disk' = [disk EXCEPT !.version = SchemaVersion, !.people = @ \cup ToSet(fixture)]
    <3>1. disk.people \cup ToSet(fixture) \subseteq DOMAIN Lower
      BY StoreTyped, FixturePeople
    <3>. QED
      BY <2>2, <3>1, StoreTyped, NewVersion
  <2>. QED
    BY <2>1, <2>2 DEF Seed, SeedFails
<1>. QED
  BY <1>1, <1>2, PeopleMove DEF Seed

LEMMA FindPrimaryKeeps == ASSUME StoreInv, NEW p \in Procs, FindPrimary(p) PROVE StoreInv'
<1>. PICK step \in {"find", "named"} : Goes(p, step)
  BY DEF FindPrimary
<1>1. step \in Harmless
  BY DEF Harmless, Statements
<1>. QED
  BY <1>1, GoesWork, WorkGoes, StoreTyped, Bounds, ProcessThinks DEF FindPrimary

LEMMA FindNamedKeeps == ASSUME StoreInv, NEW p \in Procs, FindNamed(p) PROVE StoreInv'
<1>1. CASE Held(disk.clients) = {}
  <2>1. "find" \in Harmless
    BY DEF Harmless, Statements
  <2>. QED
    BY <1>1, <2>1, GoesWork, WorkGoes, StoreTyped, Bounds, ProcessThinks DEF FindNamed
<1>2. CASE Held(disk.clients) # {}
  <2>1. PICK row \in Held(disk.clients) :
          work' = [work EXCEPT ![p].pc = "adopting", ![p].row = row]
    BY <1>2 DEF FindNamed
  <2>. DEFINE w == [work[p] EXCEPT !.pc = "adopting", !.row = row]
  <2>2. work' = [work EXCEPT ![p] = w]
    BY <2>1, StoreTyped
  <2>3. row \in disk.clients /\ Sole(disk.clients, row)
    BY StoreTyped, HeldRow
  <2>4. w \in Work /\ w.pc = "adopting" /\ w.row = row /\ w.ensured = work[p].ensured
    BY <2>3, StoreTyped DEF Work, Statements
  <2>5. row.id \notin Keys \ {Primary}
    BY <2>3, StoreTyped DEF OneRowEach, Sole
  <2>6. \A other \in disk.clients : other.id = row.id => Sole(disk.clients, other)
    BY <2>3, StoreTyped DEF OneRowEach
  <2>. HIDE DEF w
  <2>7. Underway(w, disk.clients)
    BY <2>3, <2>4, <2>5, <2>6, StoreTyped DEF Underway
  <2>. QED
    BY <2>2, <2>4, <2>7, Bounds, ProcessThinks DEF FindNamed
<1>. QED
  BY <1>1, <1>2

LEMMA AdoptKeeps == ASSUME StoreInv, NEW p \in Procs, AdoptLegacyRow(p) PROVE StoreInv'
<1>. DEFINE x == work[p].row.id
            D == Rewritten(disk.clients, x, "id", Primary)
            w == [work[p] EXCEPT !.pc = "find"]
<1>1. x \notin Keys \ {Primary} /\ \A row \in disk.clients : row.id = x => Sole(disk.clients, row)
  BY StoreTyped DEF AdoptLegacyRow, Underway
<1>2. D \subseteq Row /\ OneRowEach(D) /\ Grows(disk.clients, D)
  <2>. HIDE DEF x
  <2>. QED
    BY <1>1, StoreTyped, AdoptGrows
<1>3. IsFiniteSet(D)
  BY StoreTyped, RewriteFinite
<1>4. disk' = [disk EXCEPT !.clients = D]
  BY RewriteIs DEF AdoptLegacyRow
<1>. HIDE DEF D
<1>5. work' = [work EXCEPT ![p] = w]
  BY GoesWork DEF AdoptLegacyRow
<1>6. w \in Work /\ Underway(w, D)
  <2>1. "find" \in Harmless
    BY DEF Harmless, Statements
  <2>. QED
    BY <1>2, <2>1, StoreTyped, GrowsKeepsWork, WorkGoes
<1>. HIDE DEF w
<1>. QED
  BY <1>2, <1>3, <1>4, <1>5, <1>6, StoreTyped, RowsMove DEF AdoptLegacyRow

LEMMA FindKeeps == ASSUME StoreInv, NEW p \in Procs, Find(p) PROVE StoreInv'
<1>. DEFINE key == Head(work[p].keys)
<1>1. CASE Found(key) # {}
  <2>. DEFINE w == [work[p] EXCEPT !.pc = "reconcile", !.row = Stored(key)]
  <2>1. work' = [work EXCEPT ![p] = w]
    BY <1>1, StoreTyped DEF Find, Key
  <2>2. Stored(key) \in disk.clients /\ Stored(key).id = key
    BY <1>1 DEF Stored, Found
  <2>3. /\ w \in Work /\ w.pc = "reconcile" /\ w.row = Stored(key)
        /\ w.ensured = work[p].ensured /\ w.keys = work[p].keys
    BY <2>2, StoreTyped DEF Work, Statements
  <2>4. Registered(disk.clients, key, Stored(key).clientId)
    BY <2>2 DEF Registered
  <2>. HIDE DEF w
  <2>5. Underway(w, disk.clients)
    BY <2>2, <2>3, <2>4, StoreTyped DEF Underway, Find
  <2>. QED
    BY <2>1, <2>3, <2>5, Bounds, ProcessThinks DEF Find
<1>2. CASE Found(key) = {}
  <2>. DEFINE w == [work[p] EXCEPT !.pc = "strangers", !.row = None]
  <2>1. work' = [work EXCEPT ![p] = w]
    BY <1>2, StoreTyped DEF Find, Key
  <2>2. /\ w \in Work /\ w.pc = "strangers"
        /\ w.ensured = work[p].ensured /\ w.keys = work[p].keys
    BY StoreTyped DEF Work, Statements
  <2>. HIDE DEF w
  <2>3. Underway(w, disk.clients)
    BY <2>2, StoreTyped DEF Underway, Find
  <2>. QED
    BY <2>1, <2>2, <2>3, Bounds, ProcessThinks DEF Find
<1>. QED
  BY <1>1, <1>2

\* The key in hand is done, its client being registered in the rows D.
LEMMA EnsuredKeeps ==
  ASSUME StoreInv, NEW p \in Procs, NEW D, Underway(work[p], D), work[p].keys # <<>>,
         NEW clientId \in Nat, NEW secret \in {None} \cup Nat,
         NEW state \in {"unchanged", "migrated", "rotated", "created"},
         Registered(D, Head(work[p].keys), clientId), Ensured(p, clientId, secret, state)
  PROVE  \E w \in Work : work' = [work EXCEPT ![p] = w] /\ Underway(w, D)
<1>. DEFINE entry == [key |-> Head(work[p].keys), clientId |-> clientId, secret |-> secret,
                      state |-> state]
            w == [work[p] EXCEPT !.pc = "find", !.keys = Tail(@), !.row = None,
                                 !.ensured = Append(@, entry)]
<1>1. work' = [work EXCEPT ![p] = w]
  BY StoreTyped DEF Ensured, Key
<1>2. w \in Work /\ Underway(w, D)
  BY StoreTyped, WorkEnsured
<1>. QED
  BY <1>1, <1>2

LEMMA ReconcileKeeps == ASSUME StoreInv, NEW p \in Procs, Reconcile(p) PROVE StoreInv'
<1>. DEFINE key == Head(work[p].keys)
            D == Rewritten(disk.clients, key, "configured", TRUE)
            row == work[p].row
<1>1. work[p].pc = "reconcile" /\ Underway(work[p], disk.clients) /\ work[p] \in Work
  BY StoreTyped DEF Reconcile
<1>2. work[p].keys # <<>> /\ row \in Row /\ Registered(disk.clients, key, row.clientId)
  BY <1>1 DEF Underway
<1>3. D \subseteq Row /\ OneRowEach(D) /\ Grows(disk.clients, D)
  BY StoreTyped, RewriteGrows
<1>4. CASE row.secret.form = "none"
  <2>1. Stop(p) /\ UNCHANGED <<fixture, disk, fresh, told, resets, shells, crashes>>
    BY <1>4 DEF Reconcile
  <2>2. PICK w \in Work : work' = [work EXCEPT ![p] = w] /\ \A C : Underway(w, C)
    BY <2>1, StopKeeps
  <2>. QED
    BY <2>1, <2>2, StoreTyped, PeopleMove
<1>5. CASE row.secret.form # "none"
  <2>1. IsFiniteSet(D) /\ disk' = [disk EXCEPT !.clients = D]
    BY <1>5, StoreTyped, RewriteFinite, RewriteIs DEF Reconcile, Key
  <2>. HIDE DEF D
  <2>2. Underway(work[p], D)
    BY <1>1, <1>3, GrowsKeepsWork
  <2>3. row.clientId \in Nat /\ Registered(D, key, row.clientId)
    BY <1>1, <1>2, <2>2 DEF Underway, Row
  <2>4. PICK w \in Work : work' = [work EXCEPT ![p] = w] /\ Underway(w, D)
    <3>1. CASE row.secret.form = "hash"
      <4>1. Ensured(p, row.clientId, None, "unchanged")
        BY <1>5, <3>1 DEF Reconcile, Key
      <4>. QED
        BY <1>2, <2>2, <2>3, <4>1, EnsuredKeeps
    <3>2. CASE row.secret.form # "hash"
      <4>. DEFINE w == [work[p] EXCEPT !.pc = "migrate"]
      <4>1. work' = [work EXCEPT ![p] = w]
        BY <1>5, <3>2, GoesWork DEF Reconcile
      <4>2. /\ w \in Work /\ w.pc = "migrate" /\ w.row = row
            /\ w.ensured = work[p].ensured /\ w.keys = work[p].keys
        BY <1>1 DEF Work, Statements
      <4>. HIDE DEF w
      <4>3. Underway(w, D)
        BY <1>2, <2>2, <2>3, <4>2 DEF Underway
      <4>. QED
        BY <4>1, <4>2, <4>3
    <3>. QED
      BY <3>1, <3>2
  <2>. QED
    BY <1>3, <2>1, <2>4, StoreTyped, RowsMove DEF Reconcile
<1>. QED
  BY <1>4, <1>5

LEMMA MigrateKeeps == ASSUME StoreInv, NEW p \in Procs, Migrate(p) PROVE StoreInv'
<1>. DEFINE key == Head(work[p].keys)
            row == work[p].row
            kept == row.secret.form = "cipher"
            value == IF kept THEN row.secret.value ELSE fresh
            D == Rewritten(disk.clients, key, "secret", Hash(value))
<1>1. work[p].pc = "migrate" /\ Underway(work[p], disk.clients) /\ work[p] \in Work
  BY StoreTyped DEF Migrate
<1>2. work[p].keys # <<>> /\ row \in Row
  BY <1>1 DEF Underway
<1>3. value \in Nat /\ fresh \in Nat /\ row.clientId \in Nat
  BY <1>2, StoreTyped DEF Row, Secret
<1>4. /\ Rewrite(key, "secret", Hash(value))
      /\ fresh' = IF kept THEN fresh ELSE fresh + 1
      /\ Ensured(p, row.clientId, IF kept THEN None ELSE value,
                 IF kept THEN "migrated" ELSE "rotated")
      /\ UNCHANGED <<fixture, told, resets, shells, crashes>>
  BY DEF Migrate, Key
<1>. HIDE DEF value, kept
<1>5. Hash(value) \in Secret
  BY <1>3 DEF Hash, Secret
<1>6. D \subseteq Row /\ OneRowEach(D) /\ Grows(disk.clients, D)
  BY <1>5, StoreTyped, RewriteGrows
<1>7. IsFiniteSet(D) /\ disk' = [disk EXCEPT !.clients = D]
  BY <1>4, StoreTyped, RewriteFinite, RewriteIs
<1>. HIDE DEF D
<1>8. Underway(work[p], D)
  BY <1>1, <1>6, GrowsKeepsWork
<1>9. Registered(D, key, row.clientId)
  BY <1>1, <1>8 DEF Underway
<1>10. PICK secret \in {None} \cup Nat, state \in {"unchanged", "migrated", "rotated", "created"} :
         Ensured(p, row.clientId, secret, state)
  BY <1>3, <1>4
<1>11. PICK w \in Work : work' = [work EXCEPT ![p] = w] /\ Underway(w, D)
  <2>. DEFINE clientId == row.clientId
  <2>1. clientId \in Nat /\ Ensured(p, clientId, secret, state)
    BY <1>3, <1>10
  <2>2. Registered(D, Head(work[p].keys), clientId)
    BY <1>9
  <2>3. work[p].keys # <<>>
    BY <1>2
  <2>. HIDE DEF clientId
  <2>. QED
    BY <1>8, <2>1, <2>2, <2>3, EnsuredKeeps
<1>12. fresh' \in Nat
  BY <1>3, <1>4
<1>. QED
  BY <1>4, <1>6, <1>7, <1>11, <1>12, StoreTyped, RowsMove

LEMMA RefuseToMintKeeps == ASSUME StoreInv, NEW p \in Procs, RefuseToMint(p) PROVE StoreInv'
<1>1. CASE Strangers = {}
  <2>. DEFINE w == [work[p] EXCEPT !.pc = "mint"]
  <2>1. work' = [work EXCEPT ![p] = w]
    BY <1>1, GoesWork DEF RefuseToMint
  <2>2. /\ w \in Work /\ w.pc = "mint"
        /\ w.ensured = work[p].ensured /\ w.keys = work[p].keys
    BY StoreTyped DEF Work, Statements
  <2>3. \A row \in disk.clients : row.id \in Keys
    BY <1>1 DEF Strangers
  <2>. HIDE DEF w
  <2>4. Underway(w, disk.clients)
    BY <2>2, <2>3, StoreTyped DEF Underway, RefuseToMint
  <2>. QED
    BY <2>1, <2>2, <2>4, Bounds, ProcessThinks DEF RefuseToMint
<1>2. CASE Strangers # {}
  <2>1. PICK w \in Work : work' = [work EXCEPT ![p] = w] /\ \A C : Underway(w, C)
    BY <1>2, StopKeeps DEF RefuseToMint
  <2>. QED
    BY <2>1, Bounds, ProcessThinks DEF RefuseToMint
<1>. QED
  BY <1>1, <1>2

LEMMA MintKeeps == ASSUME StoreInv, NEW p \in Procs, MintClient(p) PROVE StoreInv'
<1>. DEFINE key == Head(work[p].keys)
            r == [id |-> key, name |-> DisplayName[key],
                  clientId |-> fresh, secret |-> Hash(fresh), configured |-> TRUE]
            D == disk.clients \cup {r}
<1>1. CASE Found(key) # {}
  <2>1. Goes(p, "find") /\ UNCHANGED <<fixture, disk, fresh, told, resets, shells, crashes>>
    BY <1>1 DEF MintClient, Key
  <2>2. "find" \in Harmless
    BY DEF Harmless, Statements
  <2>. QED
    BY <2>1, <2>2, GoesWork, WorkGoes, StoreTyped, Bounds, ProcessThinks
<1>2. CASE Found(key) = {}
  <2>1. /\ work[p].pc = "mint" /\ Underway(work[p], disk.clients) /\ work[p] \in Work
        /\ work[p].keys # <<>> /\ \A row \in disk.clients : row.id \in Keys
    BY StoreTyped DEF MintClient, Underway
  <2>2. key \in Keys
    BY <2>1, WorkTyped
  <2>3. /\ disk' = [disk EXCEPT !.clients = D] /\ fresh' = fresh + 1
        /\ Ensured(p, fresh, fresh, "created")
        /\ UNCHANGED <<fixture, told, resets, shells, crashes>>
    BY <1>2 DEF MintClient, Key
  <2>4. /\ r \in Row /\ r.id = key /\ r.clientId = fresh
        /\ r.name = DisplayName[r.id]
    BY <2>2, StoreTyped DEF Row, RowIds, RowNames, Secret, Hash
  <2>5. \A row \in disk.clients : row.id # key
    BY <1>2 DEF Found
  <2>. HIDE DEF r
  <2>6. D \subseteq Row /\ OneRowEach(D) /\ Grows(disk.clients, D)
    BY <2>1, <2>2, <2>4, <2>5, StoreTyped, MintGrows
  <2>7. IsFiniteSet(D)
    BY StoreTyped, FS_AddElement
  <2>8. Registered(D, key, fresh)
    BY <2>4 DEF Registered
  <2>. HIDE DEF D
  <2>9. PICK w \in Work : work' = [work EXCEPT ![p] = w] /\ Underway(w, D)
    BY <2>1, <2>3, <2>6, <2>8, StoreTyped, GrowsKeepsWork, EnsuredKeeps
  <2>10. fresh' \in Nat
    BY <2>3, StoreTyped
  <2>. QED
    BY <2>3, <2>6, <2>7, <2>9, <2>10, RowsMove
<1>. QED
  BY <1>1, <1>2

\* A process tells which clients it has, and stops or serves.
LEMMA TellsMoves ==
  ASSUME StoreInv, NEW p \in Procs, NEW w \in Work, work' = [work EXCEPT ![p] = w],
         \A C : Underway(w, C), told' = told \cup Clients(work[p].ensured),
         UNCHANGED <<fixture, shells, crashes>>,
         disk' \in File, IsFiniteSet(disk'.clients), OneRowEach(disk'.clients),
         Grows(disk.clients, disk'.clients), fresh' \in Nat,
         resets' \subseteq Ends
  PROVE  StoreInv'
<1>1. Underway(work[p], disk'.clients) /\ work[p] \in Work
  BY StoreTyped, GrowsKeepsWork
<1>2. /\ Clients(work[p].ensured) \in SUBSET (Keys \X Nat)
      /\ \A pair \in Clients(work[p].ensured) : Registered(disk'.clients, pair[1], pair[2])
  BY <1>1, ToldClients
<1>. QED
  BY <1>2, Bounds, ProcessMoves

LEMMA ServeKeeps == ASSUME StoreInv, NEW p \in Procs, Serve(p) PROVE StoreInv'
<1>1. "serving" \in Harmless
  BY DEF Harmless, Statements
<1>. DEFINE w == [Down EXCEPT !.pc = "serving"]
<1>2. w \in Work /\ \A C : Underway(w, C)
  BY <1>1, WorkStarts
<1>3. /\ work' = [work EXCEPT ![p] = w] /\ told' = told \cup Clients(work[p].ensured)
      /\ UNCHANGED <<fixture, disk, fresh, resets, shells, crashes>>
  BY DEF Serve
<1>. HIDE DEF w
<1>. QED
  BY <1>2, <1>3, GrowsSame, StoreTyped, Bounds, TellsMoves

LEMMA ShowKeeps == ASSUME StoreInv, NEW p \in Procs, Show(p) PROVE StoreInv'
<1>1. PICK w \in Work : work' = [work EXCEPT ![p] = w] /\ \A C : Underway(w, C)
  BY StopKeeps DEF Show
<1>2. /\ told' = told \cup Clients(work[p].ensured)
      /\ UNCHANGED <<fixture, disk, fresh, resets, shells, crashes>>
  BY DEF Show
<1>. QED
  BY <1>1, <1>2, GrowsSame, StoreTyped, Bounds, TellsMoves

LEMMA RotateKeeps == ASSUME StoreInv, NEW p \in Procs, Rotate(p) PROVE StoreInv'
<1>1. PICK w \in Work : work' = [work EXCEPT ![p] = w] /\ \A C : Underway(w, C)
  BY StopKeeps DEF Rotate
<1>2. /\ told' = told \cup Clients(work[p].ensured)
      /\ UNCHANGED <<fixture, resets, shells, crashes>>
  BY DEF Rotate
<1>3. PICK each \in ToSet(work[p].ensured) :
        \/ UNCHANGED <<disk, fresh>>
        \/ Rewrite(each.key, "secret", Hash(fresh)) /\ fresh' = fresh + 1
  BY DEF Rotate
<1>4. /\ disk' \in File /\ IsFiniteSet(disk'.clients) /\ OneRowEach(disk'.clients)
      /\ Grows(disk.clients, disk'.clients) /\ fresh' \in Nat
  <2>1. CASE UNCHANGED <<disk, fresh>>
    BY <2>1, StoreTyped, GrowsSame
  <2>2. CASE Rewrite(each.key, "secret", Hash(fresh)) /\ fresh' = fresh + 1
    <3>. DEFINE D == Rewritten(disk.clients, each.key, "secret", Hash(fresh))
    <3>1. Hash(fresh) \in Secret
      BY StoreTyped DEF Hash, Secret
    <3>2. D \subseteq Row /\ OneRowEach(D) /\ Grows(disk.clients, D)
      BY <3>1, StoreTyped, RewriteGrows
    <3>3. IsFiniteSet(D) /\ disk' = [disk EXCEPT !.clients = D]
      BY <2>2, StoreTyped, RewriteFinite, RewriteIs
    <3>. HIDE DEF D
    <3>4. disk' \in File /\ disk'.clients = D
      BY <3>2, <3>3, StoreTyped DEF File
    <3>. QED
      BY <2>2, <3>2, <3>3, <3>4, StoreTyped
  <2>. QED
    BY <1>3, <2>1, <2>2
<1>. QED
  BY <1>1, <1>2, <1>4, Bounds, TellsMoves

LEMMA HashPeopleKeeps == ASSUME StoreInv, NEW p \in Procs, HashPeople(p) PROVE StoreInv'
<1>. DEFINE w == [work[p] EXCEPT !.pc = "replace", !.before = work[p].ensured]
<1>1. work' = [work EXCEPT ![p] = w]
  BY StoreTyped DEF HashPeople
<1>2. w \in Work /\ w.pc = "replace" /\ w.ensured = work[p].ensured
  BY StoreTyped DEF Work, Statements
<1>. HIDE DEF w
<1>3. Underway(w, disk.clients)
  BY <1>2, StoreTyped DEF Underway
<1>. QED
  BY <1>1, <1>2, <1>3, Bounds, ProcessThinks DEF HashPeople

LEMMA ResetPeopleKeeps == ASSUME StoreInv, NEW p \in Procs, ResetPeople(p) PROVE StoreInv'
<1>1. PICK w \in Work : work' = [work EXCEPT ![p] = w] /\ \A C : Underway(w, C)
  BY StopKeeps, EnsuresKeeps DEF ResetPeople
<1>2. disk' \in File /\ disk'.clients = disk.clients
  BY StoreTyped, FixturePeople DEF ResetPeople, File
<1>. QED
  BY <1>1, <1>2, PeopleMove DEF ResetPeople

LEMMA CompareClientsKeeps == ASSUME StoreInv, NEW p \in Procs, CompareClients(p) PROVE StoreInv'
<1>1. PICK w \in Work : work' = [work EXCEPT ![p] = w] /\ \A C : Underway(w, C)
  BY StopKeeps DEF CompareClients
<1>2. /\ told' = told \cup Clients(work[p].ensured)
      /\ UNCHANGED <<fixture, disk, fresh, shells, crashes>>
  BY DEF CompareClients
<1>3. resets' \subseteq resets \cup {[before |-> work[p].rows, after |-> disk.clients]}
  BY DEF CompareClients
<1>4. work[p].rows \in {None} \cup SUBSET Row
  BY StoreTyped, WorkTyped
<1>5. resets' \subseteq Ends
  BY <1>3, <1>4, StoreTyped, Bounds DEF Ends
<1>. QED
  BY <1>1, <1>2, <1>5, GrowsSame, StoreTyped, TellsMoves

LEMMA StartServiceKeeps == ASSUME StoreInv, StartService PROVE StoreInv'
<1>1. "open" \in Harmless /\ "service" \in Procs
  BY DEF Harmless, Statements, Procs
<1>. DEFINE w == [Down EXCEPT !.pc = "open"]
<1>2. w \in Work /\ Underway(w, disk.clients)
  BY <1>1, WorkStarts
<1>3. work' = [work EXCEPT !["service"] = w]
  BY DEF StartService
<1>. HIDE DEF w
<1>. QED
  BY <1>1, <1>2, <1>3, Bounds, ProcessThinks DEF StartService

LEMMA RunScriptKeeps == ASSUME StoreInv, NEW task \in Tasks, RunScript(task) PROVE StoreInv'
<1>. DEFINE w == [Resetting("shell") EXCEPT !.pc = "open", !.task = task]
<1>1. w \in Work /\ Underway(w, disk.clients)
  <2>1. Down \in Work /\ Down.ensured = <<>>
    BY NothingYet DEF Down, Work, Statements, Tasks
  <2>2. "open" \in Statements /\ "open" \in Harmless /\ "reset" \in Tasks
    BY DEF Harmless, Statements, Tasks
  <2>3. w \in Work /\ w.pc = "open" /\ w.ensured = <<>>
    BY <2>1, <2>2, StoreTyped DEF Work, Resetting
  <2>. HIDE DEF w
  <2>. QED
    BY <2>2, <2>3, HoldsNothing
<1>2. work' = [work EXCEPT !["shell"] = w] /\ "shell" \in Procs
  BY DEF RunScript, Procs
<1>3. shells' \in 0..MaxShells
  BY Bounds, StoreAssumption DEF RunScript
<1>. HIDE DEF w
<1>. QED
  BY <1>1, <1>2, <1>3, Bounds, ProcessThinks DEF RunScript

LEMMA ResetRequestedKeeps == ASSUME StoreInv, NEW p \in Procs, ResetRequested(p) PROVE StoreInv'
<1>. DEFINE w == [Down EXCEPT !.task = "reset", !.rows = disk.clients, !.pc = "adopt",
                             !.keys = Config]
<1>1. w \in Work /\ Underway(w, disk.clients)
  <2>1. "reset" \in Tasks /\ Config \in Seq(Keys)
    BY Configured DEF Tasks
  <2>. QED
    BY <2>1, StoreTyped, WorkResets
<1>2. work' = [work EXCEPT ![p] = w]
  BY DEF ResetRequested, Resetting, Down
<1>3. shells' \in 0..MaxShells
  BY Bounds, StoreAssumption DEF ResetRequested
<1>. HIDE DEF w
<1>. QED
  BY <1>1, <1>2, <1>3, Bounds, ProcessThinks DEF ResetRequested

LEMMA CrashKeeps == ASSUME StoreInv, NEW p \in Procs, Crash(p) PROVE StoreInv'
<1>1. "stopped" \in Harmless
  BY DEF Harmless, Statements
<1>. DEFINE w == [Down EXCEPT !.pc = "stopped"]
<1>2. w \in Work /\ Underway(w, disk.clients)
  BY <1>1, WorkStarts
<1>3. work' = [work EXCEPT ![p] = w]
  BY DEF Crash
<1>4. crashes' \in 0..MaxCrashes
  BY Bounds, StoreAssumption DEF Crash
<1>. HIDE DEF w
<1>. QED
  BY <1>2, <1>3, <1>4, Bounds, ProcessThinks DEF Crash

-----------------------------------------------------------------------------
(* The theorems.                                                           *)

LEMMA StoreInitial == StoreInit => StoreInv
<1>. SUFFICES ASSUME StoreInit PROVE StoreInv
  OBVIOUS
<1>1. disk \in File /\ IsFiniteSet(disk.clients) /\ OneRowEach(disk.clients)
  BY StoreAssumption DEF StoreInit
<1>2. Down \in Work /\ Underway(Down, disk.clients)
  BY DEF Down, Work, Statements, Tasks, Underway
<1>3. \A row \in Held(disk.clients) : row \in disk.clients /\ Sole(disk.clients, row)
  BY <1>1, HeldRow
<1>4. \A row \in Held(disk.clients) :
        row.clientId \in Nat /\ KnownAs(disk.clients, Primary, row.clientId)
  <2>. TAKE row \in Held(disk.clients)
  <2>1. row \in Row /\ row \in disk.clients /\ Sole(disk.clients, row)
    BY <1>1, <1>3 DEF File
  <2>2. row.clientId \in Nat
    BY <2>1 DEF Row
  <2>. QED
    BY <2>1, <2>2 DEF KnownAs, Registered, Awaits
<1>5. told \subseteq Keys \X Nat /\ \A pair \in told : KnownAs(disk.clients, pair[1], pair[2])
  BY <1>4, Configured DEF StoreInit
<1>6. StoreTypeOK
  BY <1>1, <1>2, <1>5, StoreAssumption DEF StoreInit, StoreTypeOK
<1>. QED
  BY <1>1, <1>2, <1>5, <1>6 DEF StoreInv, StoreInit

LEMMA StoreSteps == StoreInv /\ [StoreNext]_storeVars => StoreInv'
<1>. SUFFICES ASSUME StoreInv, [StoreNext]_storeVars PROVE StoreInv'
  OBVIOUS
<1>1. CASE StartService
  BY <1>1, StartServiceKeeps
<1>2. CASE \E task \in Tasks : RunScript(task)
  BY <1>2, RunScriptKeeps
<1>3. ASSUME NEW p \in Procs, Step(p) PROVE StoreInv'
  BY <1>3, OpenKeeps, SeedKeeps, FindPrimaryKeeps, FindNamedKeeps, AdoptKeeps, FindKeeps,
     ReconcileKeeps, MigrateKeeps, RefuseToMintKeeps, MintKeeps, ServeKeeps, ShowKeeps,
     RotateKeeps, HashPeopleKeeps, ResetPeopleKeeps, CompareClientsKeeps DEF Step
<1>4. CASE \E p \in Procs : ResetRequested(p) \/ Crash(p)
  BY <1>4, ResetRequestedKeeps, CrashKeeps
<1>5. CASE UNCHANGED storeVars
  BY <1>5 DEF storeVars, StoreInv, StoreTypeOK, Underway
<1>. QED
  BY <1>1, <1>2, <1>3, <1>4, <1>5 DEF StoreNext

LEMMA StoreInvariant == StoreSpec => []StoreInv
BY StoreInitial, StoreSteps, PTL DEF StoreSpec

\* The file and the processes that open it keep their types, the told ids too.
THEOREM StoreCorrect == StoreSpec => []StoreTypeOK
<1>1. StoreInv => StoreTypeOK
  BY DEF StoreInv
<1>. QED
  BY <1>1, StoreInvariant, PTL

\* One client id for each key, for good, and no row beside one Arcade may hold, on
\* whatever file builds left, however many processes race and die.
THEOREM RegisteredOnce == StoreSpec => []OneRegistration
<1>1. StoreInv => OneRegistration
  <2>. SUFFICES ASSUME StoreInv PROVE OneRegistration
    OBVIOUS
  <2>1. ASSUME NEW pair \in told, NEW row \in Found(pair[1]) PROVE row.clientId = pair[2]
    <3>1. KnownAs(disk.clients, pair[1], row.clientId)
      BY DEF Found, KnownAs, Registered
    <3>2. KnownAs(disk.clients, pair[1], pair[2])
      BY DEF StoreInv
    <3>. QED
      BY <3>1, <3>2, StoreTyped, KnownOnce
  <2>2. ASSUME NEW pair \in told, NEW other \in told, other[1] = pair[1]
        PROVE other[2] = pair[2]
    <3>1. /\ KnownAs(disk.clients, pair[1], pair[2])
          /\ KnownAs(disk.clients, pair[1], other[2])
      BY <2>2 DEF StoreInv
    <3>. QED
      BY <3>1, StoreTyped, KnownOnce
  <2>3. \A row \in Found(Primary) : Held(disk.clients) = {row}
    BY StoreTyped, HeldIsSole DEF Found, OneRowEach
  <2>. QED
    BY <2>1, <2>2, <2>3 DEF OneRegistration
<1>. QED
  BY <1>1, StoreInvariant, PTL
=============================================================================
