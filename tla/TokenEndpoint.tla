--------------------------- MODULE TokenEndpoint ---------------------------
(***************************************************************************)
(* apps/idp/src/index.ts with replay-tolerance.ts and authorization-code.ts: *)
(* a person signs in and consents, a code is issued, and Arcade exchanges  *)
(* it at POST /oauth2/token - twice, as measured, and with its credentials *)
(* in the header and in the body at once.  The identity provider tolerates *)
(* both: it strips a pair that repeats the header's, and it keeps a replay *)
(* from revoking the tokens of the first exchange, by counting rows before *)
(* it lets a deletion through.  The count and the deletion are two awaits. *)
(*                                                                         *)
(* Better Auth is a library: it authenticates a client by Basic alone,     *)
(* consumes a code's verification row, mints two tokens, and on a code it  *)
(* cannot consume deletes the tokens of that code, table after table.      *)
(***************************************************************************)
EXTENDS Integers, Sequences, FiniteSets

CONSTANTS
  Null,
  Codes,       \* the codes that can be issued
  Requests,    \* the token requests
  Sends,       \* Sends[r]: what may be sent: [scheme, pair, ids, secrets, assertion, code]
  Client,      \* the registered pair, [id, secret]
  MaxResets    \* bound

Tables == {"access", "refresh"}

VARIABLES
  session,     \* somebody is signed in at the identity provider's pages
  page,        \* what the browser was answered last
  verification,\* the codes with a verification row
  rows,        \* by table: the codes that have a token there
  revoked,     \* observed: the codes whose tokens somebody asked to revoke
  issued,      \* by code: the count of resets when it was issued, or Null
  requests,    \* by request: where it stands
  resetCount

vars == <<session, page, verification, rows, revoked, issued, requests, resetCount>>

\* presented: the state the code was read in.  consumed: it took the code's
\* verification row.  table: the one its revocation has come to.  census: the
\* state of the code as logged.
Unsent == [stage |-> "idle", sent |-> Null, code |-> Null, presented |-> Null,
           consumed |-> FALSE, table |-> "access", epoch |-> 0,
           status |-> 0, error |-> Null, census |-> Null]

Presented == Codes \cup {Null, "forged"}

Pair == [id : STRING, secret : STRING]
Sent == [scheme : STRING, pair : {Null} \cup Pair, ids : Seq(STRING),
         secrets : Seq(STRING), assertion : BOOLEAN, code : Presented]

ASSUME TokenEndpointAssumption ==
  /\ \A r \in Requests : Sends[r] \subseteq Sent
  /\ Client \in Pair
  /\ MaxResets \in Nat
  /\ Null \notin Codes \cup Requests \cup Int
  /\ Null \notin Pair

Stages == {"idle", "read", "forwarded", "minting", "revoking", "deleting", "answered"}

InvalidClient == "invalid client"
InvalidGrant == "invalid grant"
InvalidCode == "invalid code"

Statuses == {0, 200, 400, 401}
Errors == {Null, "mixed", InvalidClient, InvalidGrant, InvalidCode}
CodeStates == {Null, "already_consumed", "unknown"}

Request ==
  [stage : Stages, sent : {Null} \cup Sent, code : Presented, presented : CodeStates,
   consumed : BOOLEAN, table : Tables, epoch : 0..MaxResets, status : Statuses,
   error : Errors, census : CodeStates]

TypeOK ==
  /\ session \in BOOLEAN
  /\ verification \subseteq Codes /\ revoked \subseteq Codes
  /\ rows \in [Tables -> SUBSET Codes]
  /\ issued \in [Codes -> {Null} \cup 0..MaxResets]
  /\ requests \in [Requests -> Request]
  /\ resetCount \in 0..MaxResets

Init ==
  /\ session = FALSE /\ page = "none"
  /\ verification = {} /\ revoked = {} /\ rows = [t \in Tables |-> {}]
  /\ issued = [c \in Codes |-> Null]
  /\ requests = [r \in Requests |-> Unsent]
  /\ resetCount = 0

-----------------------------------------------------------------------------
(* The pages.                                                              *)

\* What /sign-in/email may answer, and the page that becomes.
LoginPageFor == [limited |-> "login", wrong |-> "login", expired |-> "login",
                 fault |-> "failed", ok |-> "redirect"]

HandleLogin(answer) ==
  /\ page' = LoginPageFor[answer]
  /\ session' = (session \/ answer = "ok")
  /\ <<page', session'>> # <<page, session>>
  /\ UNCHANGED <<verification, rows, issued, requests, resetCount, revoked>>

\* Without a session the consent page sends the browser to log in.
ConsentPage ==
  /\ page' = (IF session THEN "consent" ELSE "login")
  /\ page' # page
  /\ UNCHANGED <<session, verification, rows, issued, requests, resetCount, revoked>>

\* Allowed: a code, and its verification row.  Denied, or signed out since: none.
HandleConsent(accept) ==
  /\ page = "consent"
  /\ page' = IF session THEN "redirect" ELSE "login"
  /\ IF session /\ accept
     THEN \E c \in Codes : /\ issued[c] = Null
                           /\ issued' = [issued EXCEPT ![c] = resetCount]
                           /\ verification' = verification \cup {c}
     ELSE UNCHANGED <<issued, verification>>
  /\ UNCHANGED <<session, rows, revoked, requests, resetCount>>

-----------------------------------------------------------------------------
(* What a request carries.                                                 *)

\* basicCredentials: a pair, or Null when the header does not hold one.
Basic(sent) == sent.scheme = "basic"
Dual(sent) == Basic(sent) /\ (sent.secrets # <<>> \/ sent.assertion)
Repeated(sent) == Len(sent.ids) > 1 \/ Len(sent.secrets) > 1

\* classifyDualCredentials.
DuplicatedById(sent) ==
  /\ Dual(sent) /\ ~sent.assertion /\ sent.pair # Null /\ ~Repeated(sent)
  /\ sent.ids = <<sent.pair.id>>
Duplicated(sent) ==
  /\ Dual(sent) /\ ~sent.assertion /\ sent.pair # Null
  /\ sent.ids = <<sent.pair.id>> /\ sent.secrets = <<sent.pair.secret>>

Mixed(sent) ==
  /\ Dual(sent) /\ ~Duplicated(sent)
  /\ sent.assertion \/ (~Repeated(sent) /\ sent.pair # Null)

\* withoutBodyClientSecret.
Forwarded(sent) == IF Duplicated(sent) THEN [sent EXCEPT !.secrets = <<>>] ELSE sent

\* The library's own rule: one method, the registered one, one identity.
Authenticates(sent) ==
  /\ Basic(sent) /\ ~Dual(sent) /\ ~Repeated(sent)
  /\ sent.pair = Client
  /\ sent.ids \in {<<>>, <<sent.pair.id>>}

-----------------------------------------------------------------------------
(* POST /oauth2/token.                                                     *)

Update(r, request) == requests' = [requests EXCEPT ![r] = request]

\* The answer, with its line in the census: the code's state is told only when
\* the refusal is about the code.
Answer(r, status, error) ==
  Update(r, [requests[r] EXCEPT !.stage = "answered", !.status = status, !.error = error,
               !.sent = IF status = 200 THEN @ ELSE Null,
               !.census = IF error = InvalidCode THEN requests[r].presented ELSE Null])

\* The body is read.  Two identities in one request go no further.
Arrive(r, sent) ==
  /\ requests[r].stage = "idle"
  /\ IF Mixed(sent)
     THEN Update(r, [Unsent EXCEPT !.stage = "answered", !.status = 400, !.error = "mixed"])
     ELSE Update(r, [Unsent EXCEPT !.stage = "read", !.sent = sent, !.code = sent.code])
  /\ UNCHANGED <<session, page, verification, rows, issued, resetCount, revoked>>

\* codeState: whether anything was ever minted against this code.
CodeState(c) == IF \E t \in Tables : c \in rows[t] THEN "already_consumed" ELSE "unknown"

\* Read after the code's digest and before the request is forwarded.
Forward(r) ==
  /\ requests[r].stage = "read"
  /\ Update(r, [requests[r] EXCEPT !.stage = "forwarded",
                  !.presented = IF @ = Null /\ requests[r].code # Null
                                THEN CodeState(requests[r].code) ELSE Null])
  /\ UNCHANGED <<session, page, verification, rows, issued, resetCount, revoked>>

\* The library takes the request: it refuses the client, serves another grant,
\* consumes the code, or finds nothing to consume.
Exchange(r) ==
  LET request == requests[r]
      c == request.code
  IN
  /\ request.stage = "forwarded"
  /\ \/ /\ ~Authenticates(Forwarded(request.sent))
        /\ Answer(r, 401, InvalidClient)
        /\ UNCHANGED verification
     \/ /\ Authenticates(Forwarded(request.sent)) /\ c = Null
        /\ Answer(r, 200, Null)
        /\ UNCHANGED verification
     \/ /\ Authenticates(Forwarded(request.sent)) /\ c \in verification
        /\ verification' = verification \ {c}
        /\ Update(r, [request EXCEPT !.stage = "minting", !.consumed = TRUE, !.epoch = resetCount])
     \/ /\ Authenticates(Forwarded(request.sent)) /\ c # Null /\ c \notin verification
        /\ Update(r, [request EXCEPT !.stage = "revoking"])
        /\ UNCHANGED verification
  /\ UNCHANGED <<session, page, rows, issued, resetCount, revoked>>

\* One token, then the other; the second is the answer.  A reset in between has
\* deleted the person they would belong to.
Mint(r, t) ==
  /\ requests[r].stage = "minting" /\ requests[r].epoch = resetCount
  /\ requests[r].code \notin rows[t]
  /\ rows' = [rows EXCEPT ![t] = @ \cup {requests[r].code}]
  /\ IF \A u \in Tables : requests[r].code \in rows'[u]
     THEN Answer(r, 200, Null) ELSE UNCHANGED requests
  /\ UNCHANGED <<session, page, verification, issued, resetCount, revoked>>

\* The verifier does not match, the person is gone, the library throws.
MintFails(r) ==
  /\ requests[r].stage = "minting"
  /\ Answer(r, 400, InvalidGrant)
  /\ UNCHANGED <<session, page, verification, rows, issued, resetCount, revoked>>

-----------------------------------------------------------------------------
(* adapter.deleteMany, with the guard in front of it.                      *)

\* isReplayRevocation: a token table, and the code's id as the only clause.
NoReplayRevocation(table, where) == FALSE
IsReplayRevocation(table, where) == table \in Tables /\ where = {"authorizationCodeId"}

\* A revocation goes through the tables in turn; then the code is refused.
NextTable(r) ==
  IF requests[r].table = "access"
  THEN Update(r, [requests[r] EXCEPT !.stage = "revoking", !.table = "refresh"])
  ELSE Answer(r, 400, InvalidCode)

\* The first await: the rows are counted, and rows that are there are kept.
CountRows(r) ==
  LET request == requests[r] IN
  /\ request.stage = "revoking"
  /\ IF IsReplayRevocation(request.table, {"authorizationCodeId"})
        /\ request.code \in rows[request.table]
     THEN NextTable(r)
     ELSE Update(r, [request EXCEPT !.stage = "deleting"])
  /\ UNCHANGED <<session, page, verification, rows, issued, resetCount, revoked>>

\* The second: nothing was there to keep when they were counted.
DeleteRows(r) ==
  LET request == requests[r] IN
  /\ request.stage = "deleting"
  /\ rows' = [rows EXCEPT ![request.table] = @ \ {request.code}]
  /\ NextTable(r)
  /\ UNCHANGED <<session, page, verification, issued, resetCount, revoked>>

\* Asked for: by the person's id and the client's, which the guard lets pass.
RevokeTokens(c) ==
  /\ CodeState(c) = "already_consumed"
  /\ revoked' = revoked \cup {c}
  /\ rows' = [t \in Tables |->
                IF IsReplayRevocation(t, {"clientId", "userId"}) THEN rows[t] ELSE rows[t] \ {c}]
  /\ UNCHANGED <<session, page, verification, issued, requests, resetCount>>

\* resetPeople: everything about the people, in one transaction.
Reset ==
  /\ resetCount < MaxResets
  /\ resetCount' = resetCount + 1
  /\ session' = FALSE /\ verification' = {} /\ rows' = [t \in Tables |-> {}]
  /\ UNCHANGED <<page, issued, requests, revoked>>

Next ==
  \/ \E answer \in DOMAIN LoginPageFor : HandleLogin(answer)
  \/ ConsentPage
  \/ \E accept \in BOOLEAN : HandleConsent(accept)
  \/ \E r \in Requests :
       \/ \E sent \in Sends[r] : Arrive(r, sent)
       \/ Forward(r) \/ Exchange(r)
       \/ \E t \in Tables : Mint(r, t)
       \/ MintFails(r) \/ CountRows(r) \/ DeleteRows(r)
  \/ \E c \in Codes : RevokeTokens(c)
  \/ Reset

Spec == Init /\ [][Next]_vars

-----------------------------------------------------------------------------
(* Properties.                                                             *)

\* A token is given only to a request in which every credential, in the header
\* and in the body, is the registered client's: what is stripped before the
\* request is forwarded was nobody else's.
NoSecondIdentity ==
  \A r \in Requests :
    requests[r].status = 200 =>
      LET sent == requests[r].sent IN
      /\ sent.pair = Client /\ ~sent.assertion
      /\ \A i \in DOMAIN sent.ids : sent.ids[i] = Client.id
      /\ \A i \in DOMAIN sent.secrets : sent.secrets[i] = Client.secret

\* A request whose deletion is on its way to rows of this code.
Poised(c) == \E r \in Requests : requests[r].stage = "deleting" /\ requests[r].code = c

Standing(c) ==
  IF issued[c] = Null THEN "unissued"
  ELSE IF issued[c] # resetCount THEN "void"
  ELSE IF c \in revoked THEN "revoked"
  ELSE IF c \in verification THEN "issued"
  ELSE IF (\A t \in Tables : c \in rows[t]) /\ ~Poised(c) THEN "settled"
  ELSE "redeemed"

Redeemer(c) ==
  IF \E r \in Requests : requests[r].consumed /\ requests[r].code = c
  THEN CHOOSE r \in Requests : requests[r].consumed /\ requests[r].code = c ELSE Null

\* One exchange redeems a code, and tokens that have settled outlive every
\* replay of it: the endpoint, with its guard, keeps the code's promise.
Promise == INSTANCE CodePromise WITH
             standing <- [c \in Codes |-> Standing(c)],
             redeemer <- [c \in Codes |-> Redeemer(c)]
ImplementsCodePromise == Promise!Spec

-----------------------------------------------------------------------------
(* What the properties rest on: with TypeOK, an inductive invariant.       *)

\* A request on its way carries what was sent, and one that is served, or has
\* consumed a code, passed the library's authentication as it was forwarded.
VouchedFor(request) ==
  /\ request.stage \notin {"idle", "answered"} => request.sent \in Sent
  /\ request.stage = "minting" \/ request.status = 200 =>
       request.sent \in Sent /\ Authenticates(Forwarded(request.sent))

Vouched == \A r \in Requests : VouchedFor(requests[r])

\* A code is issued once, is there to consume until it is consumed, revoked only
\* after that, and has rows only in the life of the people it was issued in.
CodeBooks ==
  \A c \in Codes :
    /\ issued[c] = Null =>
         c \notin verification \cup revoked /\ \A t \in Tables : c \notin rows[t]
    /\ issued[c] # Null => issued[c] <= resetCount
    /\ c \in verification => issued[c] = resetCount /\ c \notin revoked
    /\ \A t \in Tables : c \in rows[t] => issued[c] = resetCount /\ c \notin verification

\* A code is consumed by one request, and minted against by that one alone.
ConsumptionOf(request) ==
  /\ request.stage \in {"idle", "read"} => ~request.consumed
  /\ request.stage = "minting" => request.consumed
  /\ request.consumed => /\ request.code \in Codes \ verification
                        /\ issued[request.code] = request.epoch

ConsumedOnce ==
  /\ \A r \in Requests : ConsumptionOf(requests[r])
  /\ \A q, r \in Requests :
       /\ requests[q].consumed /\ requests[r].consumed
       /\ requests[q].code = requests[r].code
       => q = r

IInv == TypeOK /\ Vouched /\ CodeBooks /\ ConsumedOnce
=============================================================================
