-------------------------- MODULE AgentTurn_proofs --------------------------
(***************************************************************************)
(* One turn of the agent, for any number of calls, any width of a step and *)
(* any bank.  First the bank alone: what it remembers of a token is no     *)
(* older than the last time the token was good.  Then the turn: a call     *)
(* that settled keeps its outcome, the chunk on the wire tells it, and     *)
(* what ends the turn has shut the toolset.                                *)
(***************************************************************************)
EXTENDS AgentTurn, SequenceTheorems, FiniteSetTheorems, TLAPS

-----------------------------------------------------------------------------
(* What the bank remembers.                                                *)

Entry == [token : Tokens, until : Int]

\* Deleting from a list leaves elements of it.
LEMMA RemoveAtLeaves ==
  ASSUME NEW S, NEW s \in Seq(S), NEW i \in 1..Len(s)
  PROVE  /\ RemoveAt(s, i) \in Seq(S)
         /\ \A k \in DOMAIN RemoveAt(s, i) : \E j \in DOMAIN s : RemoveAt(s, i)[k] = s[j]
<1>. DEFINE a == SubSeq(s, 1, i - 1)
            b == SubSeq(s, i + 1, Len(s))
<1>1. /\ a \in Seq(S) /\ Len(a) = i - 1 /\ \A k \in 1..(i - 1) : a[k] = s[k]
  BY SubSeqProperties
<1>2. /\ b \in Seq(S) /\ Len(b) = Len(s) - i /\ \A k \in 1..(Len(s) - i) : b[k] = s[i + k]
  BY SubSeqProperties
<1>3. RemoveAt(s, i) = a \o b
  BY DEF RemoveAt
<1>. HIDE DEF a, b
<1>4. /\ a \o b \in Seq(S) /\ Len(a \o b) = Len(s) - 1
      /\ \A k \in 1..(Len(s) - 1) : (a \o b)[k] = IF k < i THEN a[k] ELSE b[k - i + 1]
  <2>1. a \o b \in Seq(S) /\ Len(a \o b) = Len(a) + Len(b)
        /\ \A k \in 1..(Len(a) + Len(b)) :
             (a \o b)[k] = IF k <= Len(a) THEN a[k] ELSE b[k - Len(a)]
    BY <1>1, <1>2, ConcatProperties
  <2>2. Len(a) + Len(b) = Len(s) - 1
    BY <1>1, <1>2
  <2>. QED
    BY <1>1, <2>1, <2>2
<1>5. \A k \in 1..(Len(s) - 1) :
        (a \o b)[k] = s[IF k < i THEN k ELSE k + 1] /\ (IF k < i THEN k ELSE k + 1) \in DOMAIN s
  BY <1>1, <1>2, <1>4
<1>6. DOMAIN (a \o b) = 1..(Len(s) - 1)
  BY <1>4
<1>. QED
  BY <1>3, <1>4, <1>5, <1>6

LEMMA ForgetLeaves ==
  ASSUME remembered \in Seq(Entry), NEW token
  PROVE  /\ Forget(token) \in Seq(Entry)
         /\ \A k \in DOMAIN Forget(token) : \E j \in DOMAIN remembered :
              Forget(token)[k] = remembered[j]
<1>. DEFINE held == {i \in DOMAIN remembered : remembered[i].token = token}
<1>1. CASE held = {}
  BY <1>1 DEF Forget
<1>2. CASE held # {}
  <2>1. PICK i \in held : i = CHOOSE j \in held : TRUE
    BY <1>2
  <2>2. Forget(token) = RemoveAt(remembered, i)
    <3>1. Forget(token) = RemoveAt(remembered, CHOOSE j \in held : TRUE)
      BY <1>2 DEF Forget
    <3>. QED
      BY <2>1, <3>1
  <2>3. i \in 1..Len(remembered)
    BY <2>1
  <2>. QED
    BY <2>2, <2>3, RemoveAtLeaves
<1>. QED
  BY <1>1, <1>2

\* What is added is as timely as what was there.
LEMMA RememberIsTimely ==
  ASSUME LoanInv, NEW token \in Tokens, NEW since \in Int, Remember(token, since),
         since <= clock, since <= revoked[token], UNCHANGED <<clock, revoked>>
  PROVE  remembered' \in Seq(Entry) /\ Remembrance'
<1>. DEFINE new == [token |-> token, until |-> since + TTL]
            entries == Append(Forget(token), new)
            Timely(entry) == entry.until <= clock + TTL /\ entry.until <= revoked[entry.token] + TTL
<1>1. /\ remembered \in Seq(Entry) /\ TTL \in Int /\ clock \in Int
      /\ revoked \in [Tokens -> Int] /\ MaxRemembered \in Nat \ {0}
  BY LoanBookAssumption DEF LoanInv, LoanTypeOK, Entry, Never
<1>2. new \in Entry /\ Timely(new)
  BY <1>1 DEF Entry
<1>3. \A i \in DOMAIN remembered : Timely(remembered[i])
  BY DEF LoanInv, Remembrance
<1>4. Forget(token) \in Seq(Entry) /\ \A k \in DOMAIN Forget(token) : Timely(Forget(token)[k])
  <2>. HIDE DEF Timely
  <2>. QED
    BY <1>1, <1>3, ForgetLeaves
<1>5. remembered' \in {entries, Newest(entries)}
      /\ (remembered' # entries => Len(entries) > MaxRemembered)
  <2>1. remembered' = IF Len(entries) > MaxRemembered THEN Newest(entries) ELSE entries
    BY DEF Remember
  <2>. HIDE DEF entries
  <2>. QED
    BY <2>1
<1>. HIDE DEF new, Timely
<1>6. entries \in Seq(Entry) /\ \A k \in DOMAIN entries : Timely(entries[k])
  BY <1>2, <1>4
<1>. HIDE DEF entries
<1>7. remembered' \in Seq(Entry) /\ \A k \in DOMAIN remembered' : Timely(remembered'[k])
  <2>1. CASE remembered' = entries
    BY <1>6, <2>1
  <2>2. CASE remembered' = Newest(entries) /\ Len(entries) > MaxRemembered
    <3>. DEFINE m == Len(entries) - MaxRemembered + 1
                n == Len(entries)
    <3>1. m \in 1..n /\ n \in 1..Len(entries)
      BY <1>1, <1>6, <2>2
    <3>2. /\ SubSeq(entries, m, n) \in Seq(Entry)
          /\ Len(SubSeq(entries, m, n)) = n - m + 1
          /\ \A k \in 1..(n - m + 1) : SubSeq(entries, m, n)[k] = entries[m + k - 1]
      BY <1>6, <3>1, SubSeqProperties
    <3>3. \A k \in 1..(n - m + 1) : m + k - 1 \in DOMAIN entries
      BY <1>6, <3>1
    <3>. QED
      BY <1>6, <2>2, <3>2, <3>3 DEF Newest
  <2>. QED
    BY <1>5, <2>1, <2>2
<1>. QED
  BY <1>7 DEF Timely, Remembrance

-----------------------------------------------------------------------------
(* The bank.                                                               *)

LEMMA LoanTyped ==
  ASSUME LoanInv
  PROVE  /\ book \in File /\ remembered \in Seq(Entry) /\ visits \in [Requests -> Visit]
         /\ clock \in 0..MaxClock /\ clock \in Int /\ revoked \in [Tokens -> 0..Never]
         /\ Never \in Int /\ MaxClock \in Nat /\ MaxClock < Never /\ TTL \in Nat \ {0}
         /\ \A q \in Requests : Bearer[q] \in Tokens /\ revoked[Bearer[q]] \in Int
         /\ \A t \in Tokens : revoked[t] \in Int
BY LoanBookAssumption DEF LoanInv, LoanTypeOK, Entry, Never, Tokens

LEMMA EntryTyped ==
  ASSUME LoanInv, NEW i \in DOMAIN remembered
  PROVE  /\ remembered[i].token \in Tokens /\ remembered[i].until \in Int
         /\ remembered[i].until <= clock + TTL
         /\ remembered[i].until <= revoked[remembered[i].token] + TTL
<1>1. remembered[i] \in Entry
  BY LoanTyped
<1>. QED
  BY <1>1 DEF Entry, LoanInv, Remembrance

LEMMA SeededTyped ==
  Seeded \in File /\ Seeded.version = SchemaVersion
<1>1. <<>> \in Seq([by : Requests, decision : Decisions])
  OBVIOUS
<1>. QED
  BY <1>1 DEF Seeded, File, SchemaVersion

LEMMA VisitTyped ==
  ASSUME LoanInv, NEW q \in Requests
  PROVE  /\ visits[q] \in Visit /\ visits[q].since \in 0..MaxClock /\ visits[q].since \in Int
         /\ visits[q].at \in {"no", "asking", "named", "served", "failed"}
         /\ visits[q].kind \in {"read"} \cup Decisions
         /\ visits[q].word \in {"none", "good", "no"}
BY LoanTyped DEF Visit

\* What the rest of a turn may rely on: a visit is of one kind, and one that was
\* served stays so.
VisitsStand ==
  \A q \in Requests :
    /\ visits[q].at # "no" => visits'[q].at # "no" /\ visits'[q].kind = visits[q].kind
    /\ visits[q].at = "served" => visits'[q].at = "served"

\* One visit goes on, the others stay where they are.
LEMMA VisitGoesOn ==
  ASSUME LoanInv, NEW q \in Requests, NEW v \in Visit, visits' = [visits EXCEPT ![q] = v],
         visits[q].at # "served",
         visits[q].at # "no" => v.kind = visits[q].kind, v.at # "no"
  PROVE  /\ visits' \in [Requests -> Visit] /\ visits'[q] = v
         /\ \A p \in Requests : p # q => visits'[p] = visits[p]
         /\ VisitsStand
BY LoanTyped DEF VisitsStand

LEMMA OpenLoanBookLoan ==
  ASSUME LoanInv, OpenLoanBook
  PROVE  LoanInv' /\ VisitsStand
<1>1. /\ service = "down" /\ service' \in {"up", "refused"}
      /\ UNCHANGED <<remembered, visits, clock, revoked, resets, restarts>>
      /\ service' = "up" =>
           book' = IF book.version = NoSchema THEN Seeded ELSE Upgraded(book)
      /\ service' = "refused" => book' = book
  BY DEF OpenLoanBook
<1>2. /\ book' \in File
      /\ service' = "up" => book'.version = SchemaVersion
      /\ book.version # NoSchema => book'.rows = book.rows
  <2>1. CASE service' = "refused"
    BY <1>1, <2>1, LoanTyped
  <2>2. CASE service' = "up" /\ book.version = NoSchema
    BY <1>1, <2>2, SeededTyped
  <2>3. CASE service' = "up" /\ book.version # NoSchema
    BY <1>1, <2>3, LoanTyped DEF File, Upgraded, SchemaVersion
  <2>. QED
    BY <1>1, <2>1, <2>2, <2>3
<1>3. book.version = SchemaVersion => book'.version = SchemaVersion
  BY <1>1, <1>2
<1>4. LoanTypeOK'
  BY <1>1, <1>2 DEF LoanInv, LoanTypeOK
<1>5. Remembrance' /\ WordIsTimely' /\ NamedWhileVouched'
  BY <1>1 DEF LoanInv, Remembrance, WordIsTimely, NamedWhileVouched, Named
<1>6. DecisionsStand'
  BY <1>1, <1>2, <1>3 DEF LoanInv, DecisionsStand, SchemaVersion, NoSchema
<1>. QED
  BY <1>1, <1>4, <1>5, <1>6 DEF LoanInv, VisitsStand

\* A request arrives; a read may be answered from memory.
LEMMA ArriveLoan ==
  ASSUME LoanInv, NEW q \in Requests, NEW kind \in {"read"} \cup Decisions, Arrive(q, kind)
  PROVE  LoanInv' /\ VisitsStand /\ visits'[q].at # "no" /\ visits'[q].kind = kind
<1>. DEFINE known == MayReuse(kind) /\ Recalled(Bearer[q])
            v == [at |-> IF known THEN "named" ELSE "asking",
                  kind |-> kind, since |-> clock, word |-> "none"]
<1>1. /\ service = "up" /\ visits[q].at = "no" /\ visits' = [visits EXCEPT ![q] = v]
      /\ UNCHANGED <<book, service, clock, revoked, resets, restarts>>
      /\ remembered' \in {remembered, Forget(Bearer[q])}
  BY DEF Arrive, ForgetExpired
<1>2. v \in Visit /\ v.since = clock /\ v.kind = kind /\ v.word = "none"
      /\ v.at = IF known THEN "named" ELSE "asking"
  BY LoanTyped DEF Visit
<1>3. known => kind = "read" /\ clock < revoked[Bearer[q]] + TTL
  <2>1. SUFFICES ASSUME known PROVE kind = "read" /\ clock < revoked[Bearer[q]] + TTL
    OBVIOUS
  <2>2. PICK i \in DOMAIN remembered :
          remembered[i].token = Bearer[q] /\ clock < remembered[i].until
    BY <2>1 DEF Recalled
  <2>3. remembered[i].until <= revoked[Bearer[q]] + TTL /\ remembered[i].until \in Int
    BY <2>2, EntryTyped
  <2>. QED
    BY <2>1, <2>2, <2>3, LoanTyped DEF MayReuse
<1>. HIDE DEF v, known
<1>4. /\ visits' \in [Requests -> Visit] /\ visits'[q] = v /\ VisitsStand
      /\ \A p \in Requests : p # q => visits'[p] = visits[p]
  BY <1>1, <1>2, VisitGoesOn
<1>5. /\ remembered' \in Seq(Entry)
      /\ \A k \in DOMAIN remembered' : \E j \in DOMAIN remembered : remembered'[k] = remembered[j]
  BY <1>1, LoanTyped, ForgetLeaves
<1>6. LoanTypeOK'
  BY <1>1, <1>4, <1>5 DEF LoanInv, LoanTypeOK, Entry
<1>7. Remembrance'
  BY <1>1, <1>5 DEF LoanInv, Remembrance
<1>8. WordIsTimely'
  BY <1>1, <1>2, <1>4, LoanTyped DEF LoanInv, WordIsTimely
<1>9. NamedWhileVouched'
  <2>1. ASSUME NEW p \in Requests, Named(p)' PROVE
          IF visits'[p].kind = "read" THEN visits'[p].since < revoked'[Bearer[p]] + TTL
                                      ELSE visits'[p].since <= revoked'[Bearer[p]]
    <3>1. CASE p = q
      BY <1>1, <1>2, <1>3, <1>4, <2>1, <3>1 DEF Named
    <3>2. CASE p # q
      BY <1>1, <1>4, <2>1, <3>2 DEF LoanInv, NamedWhileVouched, Named
    <3>. QED
      BY <3>1, <3>2
  <2>. QED
    BY <2>1 DEF NamedWhileVouched
<1>10. DecisionsStand'
  BY <1>1, <1>2, <1>4 DEF LoanInv, DecisionsStand
<1>. QED
  BY <1>2, <1>4, <1>6, <1>7, <1>8, <1>9, <1>10 DEF LoanInv

\* The provider looks at the token as it is now.
LEMMA VouchLoan ==
  ASSUME LoanInv, NEW q \in Requests, Vouch(q)
  PROVE  LoanInv' /\ VisitsStand
<1>1. PICK word \in {"good", "no"} : /\ visits' = [visits EXCEPT ![q].word = word]
                                     /\ word = "good" => revoked[Bearer[q]] = Never
  BY DEF Vouch
<1>. DEFINE v == [visits[q] EXCEPT !.word = word]
<1>2. /\ visits[q].at = "asking"
      /\ UNCHANGED <<book, service, remembered, clock, revoked, resets, restarts>>
      /\ visits' = [visits EXCEPT ![q] = v]
  BY <1>1 DEF Vouch
<1>3. /\ v \in Visit /\ v.since = visits[q].since /\ v.kind = visits[q].kind
      /\ v.at = visits[q].at /\ v.word = word
  BY LoanTyped DEF Visit
<1>. HIDE DEF v
<1>4. /\ visits' \in [Requests -> Visit] /\ visits'[q] = v /\ VisitsStand
      /\ \A p \in Requests : p # q => visits'[p] = visits[p]
  BY <1>2, <1>3, VisitGoesOn
<1>5. LoanTypeOK' /\ Remembrance'
  BY <1>2, <1>4 DEF LoanInv, LoanTypeOK, Remembrance
<1>6. WordIsTimely'
  <2>1. visits[q].since <= clock /\ clock <= Never
    BY LoanTyped DEF LoanInv, WordIsTimely
  <2>2. word = "good" => visits[q].since <= revoked[Bearer[q]]
    BY <1>1, <2>1, LoanTyped, VisitTyped
  <2>. QED
    BY <1>2, <1>3, <1>4, <2>2 DEF LoanInv, WordIsTimely
<1>7. NamedWhileVouched' /\ DecisionsStand'
  BY <1>2, <1>3, <1>4 DEF LoanInv, NamedWhileVouched, Named, DecisionsStand
<1>. QED
  BY <1>4, <1>5, <1>6, <1>7 DEF LoanInv

\* The answer names the request's sender, or nobody.
LEMMA ResolveLoan ==
  ASSUME LoanInv, NEW q \in Requests, Resolve(q)
  PROVE  LoanInv' /\ VisitsStand
<1>1. /\ visits[q].at = "asking"
      /\ UNCHANGED <<book, service, clock, revoked, resets, restarts>>
  BY DEF Resolve
<1>2. PICK at \in {"named", "failed"} :
        /\ visits' = [visits EXCEPT ![q].at = at]
        /\ at = "named" => visits[q].word = "good" /\ Remember(Bearer[q], visits[q].since)
        /\ at = "failed" => remembered' = Forget(Bearer[q])
  BY DEF Resolve, ExpiresFrom
<1>. DEFINE v == [visits[q] EXCEPT !.at = at]
<1>3. visits' = [visits EXCEPT ![q] = v]
  BY <1>2
<1>4. /\ v \in Visit /\ v.since = visits[q].since /\ v.kind = visits[q].kind
      /\ v.at = at /\ v.word = visits[q].word
  BY LoanTyped DEF Visit
<1>. HIDE DEF v
<1>5. /\ visits' \in [Requests -> Visit] /\ visits'[q] = v /\ VisitsStand
      /\ \A p \in Requests : p # q => visits'[p] = visits[p]
  BY <1>1, <1>3, <1>4, VisitGoesOn
<1>6. at = "named" => visits[q].since <= revoked[Bearer[q]] /\ visits[q].since <= clock
  BY <1>1, <1>2 DEF LoanInv, WordIsTimely
<1>7. remembered' \in Seq(Entry) /\ Remembrance'
  <2>1. CASE at = "named"
    BY <1>1, <1>2, <1>6, <2>1, LoanTyped, VisitTyped, RememberIsTimely
  <2>2. CASE at = "failed"
    <3>1. /\ remembered' \in Seq(Entry)
          /\ \A k \in DOMAIN remembered' : \E j \in DOMAIN remembered :
               remembered'[k] = remembered[j]
      BY <1>2, <2>2, LoanTyped, ForgetLeaves
    <3>. QED
      BY <1>1, <3>1 DEF LoanInv, Remembrance
  <2>. QED
    BY <2>1, <2>2
<1>8. LoanTypeOK'
  BY <1>1, <1>5, <1>7 DEF LoanInv, LoanTypeOK, Entry
<1>9. WordIsTimely'
  BY <1>1, <1>4, <1>5 DEF LoanInv, WordIsTimely
<1>10. NamedWhileVouched'
  <2>1. ASSUME NEW p \in Requests, Named(p)' PROVE
          IF visits'[p].kind = "read" THEN visits'[p].since < revoked'[Bearer[p]] + TTL
                                      ELSE visits'[p].since <= revoked'[Bearer[p]]
    <3>1. CASE p = q
      <4>1. at = "named"
        BY <1>2, <1>4, <1>5, <2>1, <3>1 DEF Named
      <4>2. visits'[p].since <= revoked'[Bearer[p]]
        BY <1>1, <1>4, <1>5, <1>6, <3>1, <4>1
      <4>. QED
        BY <1>1, <1>4, <1>5, <3>1, <4>2, LoanTyped, VisitTyped
    <3>2. CASE p # q
      BY <1>1, <1>5, <2>1, <3>2 DEF LoanInv, NamedWhileVouched, Named
    <3>. QED
      BY <3>1, <3>2
  <2>. QED
    BY <2>1 DEF NamedWhileVouched
<1>11. DecisionsStand'
  BY <1>1, <1>2, <1>4, <1>5 DEF LoanInv, DecisionsStand
<1>. QED
  BY <1>5, <1>7, <1>8, <1>9, <1>10, <1>11 DEF LoanInv

\* A decision that is served appends its row.
LEMMA ServeLoan ==
  ASSUME LoanInv, NEW q \in Requests, Serve(q)
  PROVE  LoanInv' /\ VisitsStand
<1>1. /\ visits[q].at = "named"
      /\ UNCHANGED <<service, remembered, clock, revoked, resets, restarts>>
  BY DEF Serve
<1>2. PICK at \in {"served", "failed"} :
        /\ visits' = [visits EXCEPT ![q].at = at]
        /\ \/ UNCHANGED book /\ (at = "served" => visits[q].kind = "read")
           \/ visits[q].kind \in Decisions /\ RecordDecision(q)
  BY DEF Serve
<1>. DEFINE v == [visits[q] EXCEPT !.at = at]
<1>3. visits' = [visits EXCEPT ![q] = v]
  BY <1>2
<1>4. /\ v \in Visit /\ v.since = visits[q].since /\ v.kind = visits[q].kind
      /\ v.at = at /\ v.word = visits[q].word
  BY LoanTyped DEF Visit
<1>. HIDE DEF v
<1>5. /\ visits' \in [Requests -> Visit] /\ visits'[q] = v /\ VisitsStand
      /\ \A p \in Requests : p # q => visits'[p] = visits[p]
  BY <1>1, <1>3, <1>4, VisitGoesOn
<1>6. /\ book' \in File /\ book'.version = book.version
      /\ \A i \in DOMAIN book.rows : i \in DOMAIN book'.rows /\ book'.rows[i] = book.rows[i]
      /\ at = "served" /\ visits[q].kind # "read" => \E i \in DOMAIN book'.rows : book'.rows[i].by = q
  <2>1. CASE UNCHANGED book /\ (at = "served" => visits[q].kind = "read")
    BY <2>1, LoanTyped
  <2>2. CASE visits[q].kind \in Decisions /\ RecordDecision(q)
    <3>. DEFINE row == [by |-> q, decision |-> visits[q].kind]
                rows == Append(book.rows, row)
    <3>1. book.rows \in Seq([by : Requests, decision : Decisions])
      BY LoanTyped DEF File
    <3>2. /\ rows \in Seq([by : Requests, decision : Decisions])
          /\ \A i \in DOMAIN book.rows : i \in DOMAIN rows /\ rows[i] = book.rows[i]
          /\ Len(book.rows) + 1 \in DOMAIN rows /\ rows[Len(book.rows) + 1].by = q
      BY <2>2, <3>1
    <3>4. book' = [book EXCEPT !.rows = rows, !.status = visits[q].kind]
      BY <2>2 DEF RecordDecision
    <3>. HIDE DEF rows
    <3>5. book' \in File /\ book'.version = book.version /\ book'.rows = rows
      BY <2>2, <3>2, <3>4, LoanTyped DEF File
    <3>. QED
      BY <3>2, <3>5
  <2>. QED
    BY <1>2, <2>1, <2>2
<1>7. LoanTypeOK' /\ Remembrance'
  BY <1>1, <1>5, <1>6 DEF LoanInv, LoanTypeOK, Remembrance
<1>8. WordIsTimely'
  BY <1>1, <1>2, <1>4, <1>5 DEF LoanInv, WordIsTimely
<1>9. NamedWhileVouched'
  BY <1>1, <1>4, <1>5 DEF LoanInv, NamedWhileVouched, Named
<1>10. DecisionsStand'
  <2>1. ASSUME NEW p \in Requests, visits'[p].at = "served", visits'[p].kind \in Decisions
        PROVE  resets' > 0 \/ \E i \in DOMAIN book'.rows : book'.rows[i].by = p
    <3>1. CASE p = q
      BY <1>4, <1>5, <1>6, <2>1, <3>1 DEF Decisions
    <3>2. CASE p # q
      BY <1>1, <1>5, <1>6, <2>1, <3>2 DEF LoanInv, DecisionsStand
    <3>. QED
      BY <3>1, <3>2
  <2>. QED
    BY <1>1, <1>5, <1>6, <2>1 DEF LoanInv, DecisionsStand
<1>. QED
  BY <1>5, <1>7, <1>8, <1>9, <1>10 DEF LoanInv

LEMMA RestartLoan ==
  ASSUME LoanInv, Restart
  PROVE  LoanInv' /\ VisitsStand
<1>1. /\ service' = "down" /\ restarts' = restarts + 1 /\ remembered' = <<>>
      /\ UNCHANGED <<book, clock, revoked, resets>>
  BY DEF Restart
<1>2. \A q \in Requests :
        /\ visits'[q] \in Visit /\ visits'[q].since = visits[q].since
        /\ visits'[q].kind = visits[q].kind /\ visits'[q].word = visits[q].word
        /\ \/ visits'[q].at = visits[q].at /\ ~Underway(q)
           \/ visits'[q].at = "failed" /\ Underway(q)
  <2>. SUFFICES ASSUME NEW q \in Requests
                PROVE  /\ visits'[q] \in Visit /\ visits'[q].since = visits[q].since
                       /\ visits'[q].kind = visits[q].kind /\ visits'[q].word = visits[q].word
                       /\ \/ visits'[q].at = visits[q].at /\ ~Underway(q)
                          \/ visits'[q].at = "failed" /\ Underway(q)
    OBVIOUS
  <2>1. visits'[q] = IF Underway(q) THEN [visits[q] EXCEPT !.at = "failed"] ELSE visits[q]
    BY DEF Restart
  <2>2. visits[q] \in Visit
    BY LoanTyped
  <2>. QED
    BY <2>1, <2>2 DEF Visit
<1>3. visits' = [q \in Requests |-> visits'[q]]
  BY DEF Restart
<1>4. visits' \in [Requests -> Visit]
  BY <1>2, <1>3
<1>5. LoanTypeOK' /\ Remembrance'
  BY <1>1, <1>4 DEF LoanInv, LoanTypeOK, Remembrance
<1>6. WordIsTimely' /\ NamedWhileVouched' /\ DecisionsStand'
  <2>1. WordIsTimely'
    BY <1>1, <1>2 DEF LoanInv, WordIsTimely
  <2>2. NamedWhileVouched'
    BY <1>1, <1>2 DEF LoanInv, NamedWhileVouched, Named
  <2>3. DecisionsStand'
    BY <1>1, <1>2 DEF LoanInv, DecisionsStand, Underway
  <2>. QED
    BY <2>1, <2>2, <2>3
<1>7. VisitsStand
  BY <1>2 DEF VisitsStand, Underway
<1>. QED
  BY <1>5, <1>6, <1>7 DEF LoanInv

LEMMA MeanwhileLoan ==
  ASSUME LoanInv, Meanwhile
  PROVE  LoanInv' /\ VisitsStand
<1>1. CASE Restart
  BY <1>1, RestartLoan
<1>2. CASE ResetLoanBook
  <2>1. /\ service = "up" /\ book' = Seeded /\ resets' = resets + 1
        /\ UNCHANGED <<service, remembered, visits, clock, revoked, restarts>>
    BY <1>2 DEF ResetLoanBook
  <2>2. Seeded \in File /\ Seeded.version = SchemaVersion /\ resets \in Nat
    BY SeededTyped DEF LoanInv, LoanTypeOK
  <2>3. LoanTypeOK'
    BY <2>1, <2>2 DEF LoanInv, LoanTypeOK
  <2>4. Remembrance' /\ WordIsTimely' /\ NamedWhileVouched'
    BY <2>1 DEF LoanInv, Remembrance, WordIsTimely, NamedWhileVouched, Named
  <2>5. DecisionsStand'
    BY <2>1, <2>2 DEF LoanInv, DecisionsStand
  <2>. QED
    BY <2>1, <2>3, <2>4, <2>5 DEF LoanInv, VisitsStand
<1>3. CASE Tick
  <2>1. /\ clock' = clock + 1 /\ clock < MaxClock
        /\ UNCHANGED <<book, service, remembered, visits, revoked, resets, restarts>>
    BY <1>3 DEF Tick
  <2>2. clock' \in 0..MaxClock /\ \A n \in Int : n <= clock => n <= clock'
    BY <2>1, LoanTyped, LoanBookAssumption
  <2>3. LoanTypeOK'
    BY <2>1, <2>2 DEF LoanInv, LoanTypeOK
  <2>4. Remembrance'
    BY <2>1, EntryTyped, LoanTyped DEF Remembrance
  <2>5. WordIsTimely'
    BY <2>1, <2>2, VisitTyped DEF LoanInv, WordIsTimely
  <2>6. NamedWhileVouched' /\ DecisionsStand'
    BY <2>1 DEF LoanInv, NamedWhileVouched, Named, DecisionsStand
  <2>. QED
    BY <2>1, <2>3, <2>4, <2>5, <2>6 DEF LoanInv, VisitsStand
<1>4. ASSUME NEW token \in Tokens, Revoke(token) PROVE LoanInv' /\ VisitsStand
  <2>1. /\ revoked' = [revoked EXCEPT ![token] = clock]
        /\ UNCHANGED <<book, service, remembered, visits, clock, resets, restarts>>
    BY <1>4 DEF Revoke
  <2>2. /\ revoked' \in [Tokens -> 0..Never] /\ revoked'[token] = clock
        /\ \A t \in Tokens : t # token => revoked'[t] = revoked[t]
    BY <2>1, LoanTyped
  <2>3. LoanTypeOK'
    BY <2>1, <2>2 DEF LoanInv, LoanTypeOK
  <2>4. Remembrance'
    BY <2>1, <2>2, EntryTyped DEF Remembrance
  <2>5. WordIsTimely'
    BY <2>1, <2>2, LoanTyped DEF LoanInv, WordIsTimely
  <2>6. NamedWhileVouched'
    <3>1. ASSUME NEW q \in Requests, Named(q)' PROVE
            IF visits'[q].kind = "read" THEN visits'[q].since < revoked'[Bearer[q]] + TTL
                                        ELSE visits'[q].since <= revoked'[Bearer[q]]
      <4>1. CASE Bearer[q] = token
        <5>1. visits[q].since <= clock /\ visits[q].since \in Int
          BY VisitTyped DEF LoanInv, WordIsTimely
        <5>. QED
          BY <2>1, <2>2, <4>1, <5>1, LoanTyped
      <4>2. CASE Bearer[q] # token
        BY <2>1, <2>2, <3>1, <4>2, LoanTyped DEF LoanInv, NamedWhileVouched, Named
      <4>. QED
        BY <4>1, <4>2
    <3>. QED
      BY <3>1 DEF NamedWhileVouched
  <2>7. DecisionsStand'
    BY <2>1 DEF LoanInv, DecisionsStand
  <2>. QED
    BY <2>1, <2>3, <2>4, <2>5, <2>6, <2>7 DEF LoanInv, VisitsStand
<1>. QED
  BY <1>1, <1>2, <1>3, <1>4 DEF Meanwhile

LEMMA BankStepLoan ==
  ASSUME LoanInv, BankStep
  PROVE  LoanInv' /\ VisitsStand
BY OpenLoanBookLoan, VouchLoan, ResolveLoan, ServeLoan DEF BankStep

LEMMA LoanUnchanged ==
  ASSUME LoanInv, UNCHANGED loanVars
  PROVE  LoanInv' /\ VisitsStand
BY DEF loanVars, LoanInv, LoanTypeOK, Remembrance, WordIsTimely, NamedWhileVouched, Named,
   DecisionsStand, VisitsStand

LEMMA InitLoan == LoanInit => LoanInv
<1>. SUFFICES ASSUME LoanInit PROVE LoanInv
  OBVIOUS
<1>1. \A q \in Requests : visits[q] = NoVisit
  BY DEF LoanInit
<1>2. NoVisit \in Visit /\ NoVisit.since = 0 /\ NoVisit.at = "no"
  BY LoanBookAssumption DEF NoVisit, Visit
<1>3. LoanTypeOK
  BY <1>2, LoanBookAssumption DEF LoanInit, LoanTypeOK, Never
<1>4. Remembrance /\ WordIsTimely /\ NamedWhileVouched /\ DecisionsStand
  BY <1>1, <1>2 DEF LoanInit, Remembrance, WordIsTimely, NamedWhileVouched, Named, DecisionsStand
<1>. QED
  BY <1>3, <1>4 DEF LoanInv

-----------------------------------------------------------------------------
(* The calls of a turn.                                                    *)

LEMMA TurnTyped ==
  ASSUME IInv
  PROVE  /\ calls \in [Calls -> Call] /\ jobs \in [Calls -> Jobs]
         /\ closed \in BOOLEAN /\ pending \in Nat /\ faults \in 0..MaxFaults
         /\ requests \subseteq Calls /\ posts \subseteq Calls /\ told \subseteq Calls
         /\ LoanInv
BY DEF IInv, TurnInv, TypeOK

LEMMA CallTyped ==
  ASSUME IInv, NEW c \in Calls
  PROVE  /\ calls[c] \in Call /\ calls[c].elicited \in BOOLEAN
         /\ calls[c].at \in {"unasked", "asked", "gateway", "settled", "reported"}
         /\ calls[c].answer \in Answers
         /\ calls[c].at # "unasked" => calls[c].tool \in Tools
         /\ Progress(c) /\ Work(c)
BY TurnTyped DEF Call, IInv, TurnInv, Progress

Chunks == [kind : {"call", "result", "error"}, call : Calls]

LEMMA ChunkTyped ==
  ASSUME IInv
  PROVE  /\ wire \in Seq(Chunks)
         /\ \A i \in DOMAIN wire :
              wire[i] \in Chunks /\ wire[i].call \in Calls /\ Truthful(wire[i])
<1>1. wire \in Seq(Chunks)
  BY DEF IInv, TurnInv, TypeOK, Chunks
<1>2. \A i \in DOMAIN wire : wire[i] \in Chunks
  BY <1>1
<1>. QED
  BY <1>1, <1>2 DEF Chunks, IInv, TurnInv

LEMMA FaultTyped ==
  ASSUME IInv, Fault
  PROVE  faults' \in 0..MaxFaults
BY TurnTyped, AgentTurnAssumption DEF Fault

\* A step about one call keeps what is said of the turn if it keeps what is said
\* of that call, takes nothing back, and leaves the reader alone.
LEMMA CallStep ==
  ASSUME IInv, LoanInv', VisitsStand, NEW c \in Calls,
         calls' \in [Calls -> Call], jobs' \in [Calls -> Jobs],
         \A d \in Calls : d # c => calls'[d] = calls[d] /\ jobs'[d] = jobs[d],
         calls'[c].at = "unasked" <=> calls[c].at = "unasked",
         calls[c].at = "reported" => calls'[c] = calls[c],
         calls[c].answer # "none" => calls'[c].answer = calls[c].answer,
         calls[c].elicited => calls'[c].elicited,
         UNCHANGED <<phase, connected, steps, stream, wire, closing, shown, cards>>,
         closed' \in BOOLEAN, closed => closed',
         requests \subseteq requests', requests' \subseteq Calls,
         told \subseteq told', told' \subseteq Calls, posts' \subseteq Calls,
         pending' \in Nat, pending' = pending \/ calls'[c].elicited,
         faults' \in 0..MaxFaults,
         Progress(c)', Work(c)'
  PROVE  IInv'
<1>1. TypeOK'
  BY DEF IInv, LoanInv, TurnInv, TypeOK
<1>2. Numbered'
  <2>1. \A d \in Calls : calls'[d].at # "unasked" <=> calls[d].at # "unasked"
    OBVIOUS
  <2>. QED
    BY <2>1 DEF IInv, TurnInv, Numbered
<1>3. CardsStand'
  <2>1. \A d \in Calls : /\ calls[d].elicited => calls'[d].elicited
                         /\ calls[d].answer = "challenge" => calls'[d].answer = "challenge"
    OBVIOUS
  <2>2. Awaited' = Awaited /\ Authorizing' = Authorizing
    BY DEF Awaited, Authorizing
  <2>3. CardsStand
    BY DEF IInv, TurnInv
  <2>4. \A card \in Awaited' : card.call \in requests' \cap told' /\ closed'
    BY <2>2, <2>3 DEF CardsStand
  <2>5. Authorizing' # {} => \E d \in Calls : calls'[d].elicited \/ calls'[d].answer = "challenge"
    BY <2>1, <2>2, <2>3 DEF CardsStand
  <2>6. pending' > 0 => \E d \in Calls : calls'[d].elicited
    BY <2>1, <2>3 DEF CardsStand
  <2>. QED
    BY <2>4, <2>5, <2>6 DEF CardsStand
<1>4. \A d \in Calls : Progress(d)' /\ Work(d)'
  <2>1. ASSUME NEW d \in Calls, d # c PROVE Progress(d)' /\ Work(d)'
    <3>1. Progress(d) /\ Work(d) /\ calls'[d] = calls[d] /\ jobs'[d] = jobs[d]
      BY <2>1, CallTyped
    <3>2. d \in Requests
      BY AgentTurnAssumption
    <3>3. Progress(d)'
      BY <3>1 DEF Progress
    <3>4. Work(d)'
      BY <3>1, <3>2 DEF Work, BankServed, VisitsStand
    <3>. QED
      BY <3>3, <3>4
  <2>. QED
    BY <2>1
<1>5. \A i \in DOMAIN wire' : Truthful(wire[i])'
  <2>. SUFFICES ASSUME NEW i \in DOMAIN wire PROVE Truthful(wire[i])'
    OBVIOUS
  <2>1. wire[i].call \in Calls /\ Truthful(wire[i])
    BY ChunkTyped
  <2>2. calls[wire[i].call].at = "reported" => calls'[wire[i].call] = calls[wire[i].call]
    BY <2>1
  <2>. QED
    BY <2>1, <2>2 DEF Truthful
<1>. QED
  BY <1>1, <1>2, <1>3, <1>4, <1>5 DEF IInv, TurnInv

\* A call that settles takes its outcome, and shuts the turn if that ends it.
LEMMA SettleSets ==
  ASSUME IInv, NEW c \in Calls, NEW answer \in Answers, Settle(c, answer)
  PROVE  /\ calls' \in [Calls -> Call] /\ closed' \in BOOLEAN /\ (closed => closed')
         /\ calls'[c].at = "settled" /\ calls'[c].answer = answer
         /\ calls'[c].tool = calls[c].tool /\ calls'[c].elicited = calls[c].elicited
         /\ \A d \in Calls : d # c => calls'[d] = calls[d]
         /\ answer = "request" /\ calls[c].tool = Escalation => closed'
<1>. DEFINE n == [calls[c] EXCEPT !.at = "settled", !.answer = answer]
<1>1. calls[c] \in Call
  BY TurnTyped
<1>2. /\ n \in Call /\ n.at = "settled" /\ n.answer = answer
      /\ n.tool = calls[c].tool /\ n.elicited = calls[c].elicited
  BY <1>1 DEF Call
<1>3. calls' = [calls EXCEPT ![c] = n]
  BY <1>1, TurnTyped DEF Settle, Call
<1>4. closed' = (closed \/ (calls[c].tool = Escalation /\ answer = "request"))
  BY DEF Settle, ClosedBy
<1>. HIDE DEF n
<1>5. closed' \in BOOLEAN /\ (closed => closed')
      /\ (answer = "request" /\ calls[c].tool = Escalation => closed')
  BY <1>4, TurnTyped
<1>. QED
  BY <1>2, <1>3, <1>5, TurnTyped

\* What is said of a call that settles, in a step that has no part in its bank.
LEMMA SettleKeeps ==
  ASSUME IInv, NEW c \in Calls, NEW answer \in Answers, Settle(c, answer),
         calls[c].at \in {"asked", "gateway"},
         jobs' \in [Calls -> Jobs], \A d \in Calls : d # c => jobs'[d] = jobs[d],
         jobs'[c] \in {jobs[c], "over"},
         answer = "none" => FALSE,
         answer = "refused" => jobs'[c] = "none",
         answer = "request" => calls[c].tool = Escalation /\ c \in requests' \cap told',
         answer = "result" => calls[c].elicited \/ BankServed(c),
         LoanInv', VisitsStand,
         UNCHANGED <<phase, connected, steps, stream, wire, closing, shown, cards, pending>>,
         requests \subseteq requests', requests' \subseteq Calls,
         told \subseteq told', told' \subseteq Calls, posts' \subseteq Calls,
         faults' \in 0..MaxFaults
  PROVE  IInv'
<1>1. /\ calls' \in [Calls -> Call] /\ closed' \in BOOLEAN /\ (closed => closed')
      /\ calls'[c].at = "settled" /\ calls'[c].answer = answer
      /\ calls'[c].tool = calls[c].tool /\ calls'[c].elicited = calls[c].elicited
      /\ \A d \in Calls : d # c => calls'[d] = calls[d]
      /\ answer = "request" /\ calls[c].tool = Escalation => closed'
  BY SettleSets
<1>2. Progress(c) /\ Work(c) /\ c \in Requests /\ calls[c].tool \in Tools
  BY CallTyped, AgentTurnAssumption
<1>3. calls[c].answer = "none"
  BY <1>2 DEF Progress
<1>4. Progress(c)'
  BY <1>1, <1>2 DEF Progress
<1>5. Work(c)'
  <2>1. BankServed(c) => BankServed(c)'
    BY <1>1, <1>2 DEF BankServed, VisitsStand
  <2>2. jobs'[c] = "bank" => visits'[c].at # "no" /\ visits'[c].kind = visits[c].kind
    BY <1>2 DEF Work, VisitsStand
  <2>. QED
    BY <1>1, <1>2, <2>1, <2>2 DEF Work
<1>. QED
  BY <1>1, <1>3, <1>4, <1>5, TurnTyped, CallStep

-----------------------------------------------------------------------------
(* The steps about one call.                                               *)

LEMMA DispatchIInv ==
  ASSUME IInv, NEW c \in Calls, Dispatch(c)
  PROVE  IInv'
<1>1. /\ calls[c].at = "asked"
      /\ UNCHANGED <<phase, connected, steps, stream, jobs, wire, pending, closing, shown, cards,
                     posts, requests, told, faults, loanVars>>
  BY DEF Dispatch
<1>2. LoanInv' /\ VisitsStand
  BY <1>1, TurnTyped, LoanUnchanged
<1>3. Progress(c) /\ Work(c) /\ jobs[c] = "none"
  BY <1>1, CallTyped DEF Progress
<1>4. CASE \E answer \in {"refused", "failed"} : Settle(c, answer)
  <2>1. PICK answer \in {"refused", "failed"} : Settle(c, answer)
    BY <1>4
  <2>2. answer \in Answers
    BY DEF Answers
  <2>. QED
    BY <1>1, <1>2, <1>3, <2>1, <2>2, TurnTyped, SettleKeeps
<1>5. CASE calls' = [calls EXCEPT ![c].at = "gateway"] /\ UNCHANGED closed
  <2>1. /\ calls' \in [Calls -> Call]
        /\ calls'[c].at = "gateway" /\ calls'[c].answer = calls[c].answer
        /\ calls'[c].tool = calls[c].tool /\ calls'[c].elicited = calls[c].elicited
        /\ \A d \in Calls : d # c => calls'[d] = calls[d]
    BY <1>5, TurnTyped DEF Call
  <2>2. Progress(c)' /\ Work(c)'
    BY <1>1, <1>3, <1>5, <2>1 DEF Progress, Work
  <2>. QED
    BY <1>1, <1>2, <1>5, <2>1, <2>2, TurnTyped, CallStep
<1>. QED
  BY <1>4, <1>5 DEF Dispatch

\* The gateway's own answers, and the loop's when it gives up.
LEMMA GatewayAnswersIInv ==
  ASSUME IInv, NEW c \in Calls, Refuse(c) \/ Cancelled(c) \/ GiveUp(c)
  PROVE  IInv'
<1>1. /\ calls[c].at = "gateway"
      /\ UNCHANGED <<phase, connected, steps, stream, jobs, wire, pending, closing, shown, cards,
                     posts, requests, told, loanVars>>
      /\ faults' = faults \/ Fault
  BY DEF Refuse, Cancelled, GiveUp, AtGateway
<1>2. PICK answer \in {"denied", "challenge", "failed", "result"} :
        Settle(c, answer) /\ (answer = "result" => calls[c].elicited)
  BY DEF Refuse, Cancelled, GiveUp
<1>3. answer \in Answers /\ answer \notin {"none", "refused", "request"}
  BY DEF Answers
<1>4. LoanInv' /\ VisitsStand /\ faults' \in 0..MaxFaults
  BY <1>1, TurnTyped, LoanUnchanged, FaultTyped
<1>. QED
  BY <1>1, <1>2, <1>3, <1>4, TurnTyped, SettleKeeps

\* A URL is asked for: the turn is shut from then on.
LEMMA ElicitIInv ==
  ASSUME IInv, NEW c \in Calls, Elicit(c)
  PROVE  IInv'
<1>1. /\ calls[c].at = "gateway" /\ ~calls[c].elicited
      /\ calls' = [calls EXCEPT ![c].elicited = TRUE] /\ closed' = TRUE
      /\ UNCHANGED <<phase, connected, steps, stream, jobs, wire, closing, shown, cards, posts,
                     requests, told, faults, loanVars>>
  BY DEF Elicit, AtGateway
<1>2. pending' \in Nat
  BY TurnTyped DEF Elicit
<1>3. /\ calls' \in [Calls -> Call]
      /\ calls'[c].at = "gateway" /\ calls'[c].answer = calls[c].answer
      /\ calls'[c].tool = calls[c].tool /\ calls'[c].elicited
      /\ \A d \in Calls : d # c => calls'[d] = calls[d]
  BY <1>1, TurnTyped DEF Call
<1>4. LoanInv' /\ VisitsStand
  BY <1>1, TurnTyped, LoanUnchanged
<1>5. UNCHANGED visits
  BY <1>1 DEF loanVars
<1>6. Progress(c)' /\ Work(c)'
  BY <1>1, <1>3, <1>5, CallTyped DEF Progress, Work
<1>. QED
  BY <1>1, <1>2, <1>3, <1>4, <1>6, TurnTyped, CallStep

\* The tool is called: an escalation looks for an approver, any other goes to the bank.
LEMMA RunIInv ==
  ASSUME IInv, NEW c \in Calls, Run(c)
  PROVE  IInv'
<1>1. /\ calls[c].at = "gateway" /\ jobs[c] = "none" /\ ~calls[c].elicited
      /\ UNCHANGED <<phase, connected, steps, stream, wire, pending, closing, shown, cards, posts,
                     requests, told, faults>>
  BY DEF Run, AtGateway
<1>2. Progress(c) /\ Work(c) /\ calls[c].tool \in Tools /\ c \in Requests
  BY <1>1, CallTyped, AgentTurnAssumption
<1>3. CASE /\ calls[c].tool = Escalation /\ jobs' = [jobs EXCEPT ![c] = "roster"]
           /\ UNCHANGED <<calls, closed, loanVars>>
  <2>1. /\ jobs' \in [Calls -> Jobs] /\ jobs'[c] = "roster"
        /\ \A d \in Calls : d # c => jobs'[d] = jobs[d]
    BY <1>3, TurnTyped DEF Jobs
  <2>2. LoanInv' /\ VisitsStand
    BY <1>3, TurnTyped, LoanUnchanged
  <2>3. Progress(c)' /\ Work(c)'
    BY <1>1, <1>2, <1>3, <2>1 DEF Progress, Work
  <2>. QED
    BY <1>1, <1>3, <2>1, <2>2, <2>3, TurnTyped, CallStep
<1>4. CASE /\ calls[c].tool # Escalation /\ Arrive(c, KindOf[calls[c].tool])
           /\ jobs' = [jobs EXCEPT ![c] = "bank"] /\ UNCHANGED <<calls, closed>>
  <2>1. /\ jobs' \in [Calls -> Jobs] /\ jobs'[c] = "bank"
        /\ \A d \in Calls : d # c => jobs'[d] = jobs[d]
    BY <1>4, TurnTyped DEF Jobs
  <2>2. KindOf[calls[c].tool] \in {"read"} \cup Decisions
    BY <1>2, <1>4, AgentTurnAssumption DEF KindOf, Decisions
  <2>3. /\ LoanInv' /\ VisitsStand
        /\ visits'[c].at # "no" /\ visits'[c].kind = KindOf[calls[c].tool]
    BY <1>2, <1>4, <2>2, TurnTyped, ArriveLoan
  <2>4. calls[c].answer = "none"
    BY <1>1, <1>2 DEF Progress
  <2>5. Progress(c)' /\ Work(c)'
    BY <1>1, <1>2, <1>4, <2>1, <2>3, <2>4 DEF Progress, Work
  <2>. QED
    BY <1>1, <1>4, <2>1, <2>3, <2>5, TurnTyped, CallStep
<1>5. CASE /\ jobs' = [jobs EXCEPT ![c] = "over"] /\ Settle(c, "failed")
           /\ UNCHANGED loanVars
  <2>1. /\ jobs' \in [Calls -> Jobs] /\ jobs'[c] = "over"
        /\ \A d \in Calls : d # c => jobs'[d] = jobs[d]
    BY <1>5, TurnTyped DEF Jobs
  <2>2. LoanInv' /\ VisitsStand /\ "failed" \in Answers
    BY <1>5, TurnTyped, LoanUnchanged DEF Answers
  <2>. QED
    BY <1>1, <1>5, <2>1, <2>2, TurnTyped, SettleKeeps
<1>. QED
  BY <1>3, <1>4, <1>5 DEF Run

\* A toolkit is done: its answer settles the call, or reaches nobody.
LEMMA JobOverIInv ==
  ASSUME IInv, NEW c \in Calls, NEW answer \in Answers \ {"none", "refused"},
         Answered(c, answer), jobs[c] # "none", jobs' = [jobs EXCEPT ![c] = "over"],
         answer = "request" => calls[c].tool = Escalation /\ c \in requests /\ c \in told',
         answer = "result" => BankServed(c),
         UNCHANGED <<phase, connected, steps, stream, wire, pending, closing, shown, cards, posts,
                     requests, loanVars>>,
         told \subseteq told', told' \subseteq Calls, faults' \in 0..MaxFaults
  PROVE  IInv'
<1>1. /\ jobs' \in [Calls -> Jobs] /\ jobs'[c] = "over"
      /\ \A d \in Calls : d # c => jobs'[d] = jobs[d]
  BY TurnTyped DEF Jobs
<1>2. LoanInv' /\ VisitsStand
  BY TurnTyped, LoanUnchanged
<1>3. CASE calls[c].at = "gateway"
  BY <1>1, <1>2, <1>3, TurnTyped, SettleKeeps DEF Answered
<1>4. CASE calls[c].at # "gateway"
  <2>1. UNCHANGED <<calls, closed>>
    BY <1>4 DEF Answered
  <2>2. UNCHANGED visits
    BY DEF loanVars
  <2>3. Progress(c) /\ Work(c)
    BY CallTyped
  <2>4. Progress(c)' /\ Work(c)'
    BY <1>1, <2>1, <2>2, <2>3 DEF Progress, Work, BankServed
  <2>. QED
    BY <1>1, <1>2, <2>1, <2>4, TurnTyped, CallStep
<1>. QED
  BY <1>3, <1>4

LEMMA LoanAnswersIInv ==
  ASSUME IInv, NEW c \in Calls, LoanAnswers(c) \/ LoanTimesOut(c)
  PROVE  IInv'
<1>1. /\ jobs[c] = "bank" /\ jobs' = [jobs EXCEPT ![c] = "over"]
      /\ UNCHANGED <<phase, connected, steps, stream, wire, pending, closing, shown, cards, posts,
                     requests, told, loanVars>>
      /\ faults' = faults \/ Fault
  BY DEF LoanAnswers, LoanTimesOut
<1>2. PICK answer \in {"result", "denied", "failed"} :
        Answered(c, answer) /\ (answer = "result" => visits[c].at = "served")
  BY DEF LoanAnswers, LoanTimesOut
<1>3. answer \in Answers \ {"none", "refused"} /\ answer # "request"
  BY DEF Answers
<1>4. answer = "result" => BankServed(c)
  BY <1>1, <1>2, CallTyped DEF Work, BankServed
<1>5. faults' \in 0..MaxFaults
  BY <1>1, TurnTyped, FaultTyped
<1>. QED
  BY <1>1, <1>2, <1>3, <1>4, <1>5, TurnTyped, JobOverIInv

LEMMA RouteIInv ==
  ASSUME IInv, NEW c \in Calls, Route(c)
  PROVE  IInv'
<1>1. /\ jobs[c] = "roster"
      /\ UNCHANGED <<phase, connected, steps, stream, wire, pending, closing, shown, cards,
                     requests, told, faults, loanVars>>
  BY DEF Route
<1>2. CASE /\ jobs' = [jobs EXCEPT ![c] = "create"] /\ posts' = posts \cup {c}
           /\ UNCHANGED <<calls, closed>>
  <2>1. /\ jobs' \in [Calls -> Jobs] /\ jobs'[c] = "create"
        /\ \A d \in Calls : d # c => jobs'[d] = jobs[d]
    BY <1>2, TurnTyped DEF Jobs
  <2>2. LoanInv' /\ VisitsStand /\ UNCHANGED visits
    BY <1>1, TurnTyped, LoanUnchanged DEF loanVars
  <2>3. Progress(c) /\ Work(c)
    BY CallTyped
  <2>4. Progress(c)' /\ Work(c)'
    BY <1>1, <1>2, <2>1, <2>2, <2>3 DEF Progress, Work, BankServed
  <2>. QED
    BY <1>1, <1>2, <2>1, <2>2, <2>4, TurnTyped, CallStep
<1>3. CASE Raise(c, "failed") /\ UNCHANGED posts
  <2>1. "failed" \in Answers \ {"none", "refused"}
    BY DEF Answers
  <2>. QED
    BY <1>1, <1>3, <2>1, TurnTyped, JobOverIInv DEF Raise
<1>. QED
  BY <1>2, <1>3 DEF Route

LEMMA RecordIInv ==
  ASSUME IInv, NEW c \in Calls, Record(c)
  PROVE  IInv'
<1>1. /\ posts' = posts \ {c} /\ requests' = requests \cup {c}
      /\ UNCHANGED <<phase, connected, steps, stream, calls, jobs, wire, closed, pending, closing,
                     shown, cards, told, faults, loanVars>>
  BY DEF Record
<1>2. LoanInv' /\ VisitsStand /\ UNCHANGED visits
  BY <1>1, TurnTyped, LoanUnchanged DEF loanVars
<1>3. Progress(c)' /\ Work(c)'
  BY <1>1, <1>2, CallTyped DEF Progress, Work, BankServed
<1>. QED
  BY <1>1, <1>2, <1>3, TurnTyped, CallStep

LEMMA CreatedIInv ==
  ASSUME IInv, NEW c \in Calls, Created(c)
  PROVE  IInv'
<1>1. /\ jobs[c] = "create"
      /\ UNCHANGED <<phase, connected, steps, stream, wire, pending, closing, shown, cards, posts,
                     requests, told, loanVars>>
  BY DEF Created
<1>2. CASE /\ c \in requests /\ jobs' = [jobs EXCEPT ![c] = "message"]
           /\ UNCHANGED <<calls, closed, faults>>
  <2>1. /\ jobs' \in [Calls -> Jobs] /\ jobs'[c] = "message"
        /\ \A d \in Calls : d # c => jobs'[d] = jobs[d]
    BY <1>2, TurnTyped DEF Jobs
  <2>2. LoanInv' /\ VisitsStand /\ UNCHANGED visits
    BY <1>1, TurnTyped, LoanUnchanged DEF loanVars
  <2>3. Progress(c) /\ Work(c)
    BY CallTyped
  <2>4. Progress(c)' /\ Work(c)'
    BY <1>1, <1>2, <2>1, <2>2, <2>3 DEF Progress, Work, BankServed
  <2>. QED
    BY <1>1, <1>2, <2>1, <2>2, <2>4, TurnTyped, CallStep
<1>3. CASE Fault /\ Raise(c, "failed")
  <2>1. "failed" \in Answers \ {"none", "refused"}
    BY DEF Answers
  <2>. QED
    BY <1>1, <1>3, <2>1, TurnTyped, FaultTyped, JobOverIInv DEF Raise
<1>. QED
  BY <1>2, <1>3 DEF Created

\* The approver has the message before the request id is handed back.
LEMMA MessageIInv ==
  ASSUME IInv, NEW c \in Calls, Message(c)
  PROVE  IInv'
<1>1. /\ jobs[c] = "message"
      /\ UNCHANGED <<phase, connected, steps, stream, wire, pending, closing, shown, cards, posts,
                     requests, loanVars>>
      /\ told' \in {told, told \cup {c}}
      /\ faults' = faults \/ Fault
  BY DEF Message
<1>2. PICK answer \in {"request", "failed", "denied"} :
        Raise(c, answer) /\ (answer = "request" => c \in told')
  BY DEF Message
<1>3. answer \in Answers \ {"none", "refused"} /\ answer # "result"
  BY DEF Answers
<1>4. calls[c].tool = Escalation /\ c \in requests
  BY <1>1, CallTyped DEF Work
<1>5. faults' \in 0..MaxFaults /\ told \subseteq told' /\ told' \subseteq Calls
  BY <1>1, TurnTyped, FaultTyped
<1>. QED
  BY <1>1, <1>2, <1>3, <1>4, <1>5, TurnTyped, JobOverIInv DEF Raise

\* The bank's own steps, and what happens to it.
LEMMA BankIInv ==
  ASSUME IInv, BankStep \/ Meanwhile, UNCHANGED turnVars
  PROVE  IInv'
<1>1. LoanInv' /\ VisitsStand
  BY TurnTyped, BankStepLoan, MeanwhileLoan
<1>2. TypeOK' /\ Numbered' /\ CardsStand'
  BY <1>1 DEF turnVars, IInv, LoanInv, TurnInv, TypeOK, Numbered, CardsStand, Awaited, Authorizing
<1>3. \A c \in Calls : Progress(c)' /\ Work(c)'
  BY <1>1, CallTyped, AgentTurnAssumption DEF turnVars, Progress, Work, BankServed, VisitsStand
<1>4. \A i \in DOMAIN wire' : Truthful(wire[i])'
  BY DEF turnVars, IInv, TurnInv, Truthful
<1>. QED
  BY <1>1, <1>2, <1>3, <1>4 DEF IInv, TurnInv

-----------------------------------------------------------------------------
(* The loop.                                                               *)

\* The calls are numbered, so the next number is how many there are.
LEMMA AskedAreCounted ==
  ASSUME IInv
  PROVE  /\ AskedSoFar \in 0..MaxCalls
         /\ \A c \in Calls : calls[c].at # "unasked" <=> c <= AskedSoFar
<1>1. PICK k \in 0..MaxCalls : \A c \in Calls : calls[c].at # "unasked" <=> c <= k
  BY DEF IInv, TurnInv, Numbered
<1>2. {c \in Calls : calls[c].at # "unasked"} = 1..k
  BY <1>1, AgentTurnAssumption DEF Calls
<1>3. Cardinality(1..k) = k
  BY FS_Interval
<1>. QED
  BY <1>1, <1>2, <1>3 DEF AskedSoFar

LEMMA AskIInv ==
  ASSUME IInv, Ask
  PROVE  IInv'
<1>. DEFINE asked == AskedSoFar
<1>1. /\ steps < MAX_STEPS /\ steps' = steps + 1
      /\ UNCHANGED <<phase, connected, stream, jobs, closed, pending, closing, shown, cards,
                     posts, requests, told, faults, loanVars>>
  BY DEF Ask
<1>2. PICK n \in 1..Width : \E tools \in [1..n -> Tools] :
        /\ asked + n <= MaxCalls
        /\ calls' = [c \in Calls |-> IF c - asked \in 1..n
                       THEN [Unasked EXCEPT !.tool = tools[c - asked], !.at = "asked"]
                       ELSE calls[c]]
        /\ wire' = wire \o [i \in 1..n |-> Chunk("call", asked + i)]
  BY DEF Ask
<1>3. PICK tools \in [1..n -> Tools] :
        /\ asked + n <= MaxCalls
        /\ calls' = [c \in Calls |-> IF c - asked \in 1..n
                       THEN [Unasked EXCEPT !.tool = tools[c - asked], !.at = "asked"]
                       ELSE calls[c]]
        /\ wire' = wire \o [i \in 1..n |-> Chunk("call", asked + i)]
  BY <1>2
<1>4. /\ asked \in 0..MaxCalls /\ asked \in Int /\ n \in Int /\ n >= 1 /\ MaxCalls \in Nat
      /\ \A c \in Calls : calls[c].at # "unasked" <=> c <= asked
      /\ Calls = 1..MaxCalls
  BY AskedAreCounted, AgentTurnAssumption DEF Calls
<1>fits. asked + n <= MaxCalls
  BY <1>3
<1>. HIDE DEF asked
<1>. DEFINE New(c) == c - asked \in 1..n
<1>5. \A c \in Calls : /\ New(c) <=> asked < c /\ c <= asked + n
                       /\ New(c) => calls[c].at = "unasked"
  BY <1>4 DEF Calls
<1>6. \A c \in Calls :
        /\ New(c) => /\ calls'[c] = [Unasked EXCEPT !.tool = tools[c - asked], !.at = "asked"]
                     /\ tools[c - asked] \in Tools
        /\ ~New(c) => calls'[c] = calls[c]
  BY <1>3
<1>. HIDE DEF New
<1>7. \A c \in Calls : New(c) => /\ calls'[c] \in Call /\ calls'[c].at = "asked"
                                 /\ calls'[c].tool \in Tools /\ calls'[c].answer = "none"
                                 /\ ~calls'[c].elicited
  BY <1>6 DEF Unasked, Call, Answers
<1>8. calls' \in [Calls -> Call]
  <2>1. \A c \in Calls : calls'[c] \in Call
    BY <1>6, <1>7, CallTyped
  <2>2. calls' = [c \in Calls |-> calls'[c]]
    BY <1>3
  <2>. QED
    BY <2>1, <2>2
<1>9. /\ wire' \in Seq(Chunks)
      /\ \A i \in DOMAIN wire' : \/ i \in DOMAIN wire /\ wire'[i] = wire[i]
                                 \/ wire'[i].kind = "call"
  <2>. DEFINE more == [i \in 1..n |-> Chunk("call", asked + i)]
  <2>1. \A i \in 1..n : Chunk("call", asked + i) \in Chunks
    <3>1. \A i \in 1..n : asked + i \in Calls
      BY <1>4, <1>fits
    <3>. QED
      BY <3>1 DEF Chunk, Chunks
  <2>2. \A i \in 1..n : Chunk("call", asked + i).kind = "call"
    BY DEF Chunk
  <2>3. more \in Seq(Chunks) /\ Len(more) = n /\ \A i \in 1..n : more[i].kind = "call"
    <3>. HIDE DEF Chunks
    <3>. QED
      BY <1>4, <2>1, <2>2
  <2>. HIDE DEF more
  <2>4. wire' = wire \o more /\ wire \in Seq(Chunks)
    BY <1>3, ChunkTyped DEF more
  <2>. QED
    BY <2>3, <2>4
<1>10. LoanInv' /\ VisitsStand /\ UNCHANGED visits
  BY <1>1, TurnTyped, LoanUnchanged DEF loanVars
<1>11. steps' \in 0..MAX_STEPS
  BY <1>1, AgentTurnAssumption DEF IInv, TurnInv, TypeOK
<1>12. TypeOK'
  BY <1>1, <1>8, <1>9, <1>10, <1>11 DEF IInv, LoanInv, TurnInv, TypeOK, Chunks
<1>13. Numbered'
  <2>1. \A c \in Calls : calls'[c].at # "unasked" <=> c <= asked + n
    <3>1. ASSUME NEW c \in Calls PROVE calls'[c].at # "unasked" <=> c <= asked + n
      <4>1. CASE New(c)
        BY <1>5, <1>7, <4>1
      <4>2. CASE ~New(c)
        <5>1. calls'[c] = calls[c] /\ (calls[c].at # "unasked" <=> c <= asked)
          BY <1>4, <1>6, <4>2
        <5>2. ~(asked < c /\ c <= asked + n)
          BY <1>5, <4>2
        <5>3. c \in Int
          BY <1>4
        <5>. QED
          BY <1>4, <5>1, <5>2, <5>3
      <4>. QED
        BY <4>1, <4>2
    <3>. QED
      BY <3>1
  <2>2. asked + n \in 0..MaxCalls
    BY <1>4, <1>fits
  <2>. QED
    BY <2>1, <2>2 DEF Numbered
<1>14. \A c \in Calls : calls[c].elicited \/ calls[c].answer = "challenge" => calls'[c] = calls[c]
  BY <1>5, <1>6, CallTyped DEF Progress
<1>15. CardsStand'
  <2>1. CardsStand /\ Awaited' = Awaited /\ Authorizing' = Authorizing
    BY <1>1 DEF IInv, TurnInv, Awaited, Authorizing
  <2>. QED
    BY <1>1, <1>14, <2>1 DEF CardsStand
<1>16. \A c \in Calls : Progress(c)' /\ Work(c)'
  <2>1. ASSUME NEW c \in Calls PROVE Progress(c)' /\ Work(c)'
    <3>1. Progress(c) /\ Work(c)
      BY CallTyped
    <3>2. CASE New(c)
      <4>1. jobs[c] = "none" /\ shown[c] \notin {"result", "denied"}
        BY <1>5, <3>1, <3>2 DEF Progress
      <4>. QED
        BY <1>1, <1>7, <3>2, <4>1 DEF Progress, Work
    <3>3. CASE ~New(c)
      BY <1>1, <1>6, <1>10, <3>1, <3>3 DEF Progress, Work, BankServed
    <3>. QED
      BY <3>2, <3>3
  <2>. QED
    BY <2>1
<1>17. \A i \in DOMAIN wire' : Truthful(wire[i])'
  <2>1. ASSUME NEW i \in DOMAIN wire' PROVE Truthful(wire[i])'
    <3>1. CASE i \in DOMAIN wire /\ wire'[i] = wire[i]
      <4>1. wire[i].call \in Calls /\ Truthful(wire[i])
        BY <3>1, ChunkTyped
      <4>2. calls[wire[i].call].at = "reported" => calls'[wire[i].call] = calls[wire[i].call]
        BY <1>5, <1>6, <4>1
      <4>. QED
        BY <3>1, <4>1, <4>2 DEF Truthful
    <3>2. CASE wire'[i].kind = "call"
      BY <3>2 DEF Truthful
    <3>. QED
      BY <1>9, <3>1, <3>2
  <2>. QED
    BY <2>1
<1>. QED
  BY <1>10, <1>12, <1>13, <1>15, <1>16, <1>17 DEF IInv, TurnInv

\* The chunk of a settled call says what it settled with.
LEMMA ReportIInv ==
  ASSUME IInv, NEW c \in Calls, Report(c)
  PROVE  IInv'
<1>. DEFINE kind == IF calls[c].answer \in {"result", "request"} THEN "result" ELSE "error"
            chunk == Chunk(kind, c)
<1>1. /\ calls[c].at = "settled" /\ calls' = [calls EXCEPT ![c].at = "reported"]
      /\ wire' \in {wire, Append(wire, chunk)}
      /\ UNCHANGED <<phase, connected, steps, stream, jobs, closed, pending, closing, shown,
                     cards, posts, requests, told, faults, loanVars>>
  BY DEF Report
<1>2. /\ calls' \in [Calls -> Call]
      /\ calls'[c].at = "reported" /\ calls'[c].answer = calls[c].answer
      /\ calls'[c].tool = calls[c].tool /\ calls'[c].elicited = calls[c].elicited
      /\ \A d \in Calls : d # c => calls'[d] = calls[d]
  BY <1>1, TurnTyped DEF Call
<1>3. /\ chunk \in Chunks /\ chunk.call = c /\ chunk.kind \in {"result", "error"}
      /\ chunk.kind = "result" => calls[c].answer \in {"result", "request"}
  BY DEF Chunk, Chunks
<1>. HIDE DEF chunk
<1>4. /\ wire' \in Seq(Chunks)
      /\ \A i \in DOMAIN wire' : \/ i \in DOMAIN wire /\ wire'[i] = wire[i]
                                 \/ wire'[i] = chunk
  <2>1. wire \in Seq(Chunks)
    BY ChunkTyped
  <2>. QED
    BY <1>1, <1>3, <2>1
<1>5. LoanInv' /\ VisitsStand /\ UNCHANGED visits
  BY <1>1, TurnTyped, LoanUnchanged DEF loanVars
<1>6. TypeOK'
  BY <1>1, <1>2, <1>4, <1>5 DEF IInv, LoanInv, TurnInv, TypeOK, Chunks
<1>7. Numbered'
  <2>1. \A d \in Calls : calls'[d].at # "unasked" <=> calls[d].at # "unasked"
    BY <1>1, <1>2
  <2>. QED
    BY <2>1 DEF IInv, TurnInv, Numbered
<1>8. CardsStand'
  <2>1. CardsStand /\ Awaited' = Awaited /\ Authorizing' = Authorizing
    BY <1>1 DEF IInv, TurnInv, Awaited, Authorizing
  <2>2. \A d \in Calls : calls'[d].elicited = calls[d].elicited /\ calls'[d].answer = calls[d].answer
    BY <1>2
  <2>. QED
    BY <1>1, <2>1, <2>2 DEF CardsStand
<1>9. \A d \in Calls : Progress(d)' /\ Work(d)'
  <2>1. ASSUME NEW d \in Calls PROVE Progress(d)' /\ Work(d)'
    <3>1. Progress(d) /\ Work(d)
      BY CallTyped
    <3>2. /\ calls'[d].answer = calls[d].answer /\ calls'[d].tool = calls[d].tool
          /\ calls'[d].elicited = calls[d].elicited
          /\ calls'[d].at = calls[d].at \/ (calls[d].at = "settled" /\ calls'[d].at = "reported")
      BY <1>1, <1>2
    <3>3. Progress(d)'
      BY <1>1, <3>1, <3>2 DEF Progress
    <3>4. Work(d)'
      BY <1>1, <1>5, <3>1, <3>2 DEF Work, BankServed
    <3>. QED
      BY <3>3, <3>4
  <2>. QED
    BY <2>1
<1>10. \A i \in DOMAIN wire' : Truthful(wire[i])'
  <2>1. ASSUME NEW i \in DOMAIN wire' PROVE Truthful(wire[i])'
    <3>1. CASE i \in DOMAIN wire /\ wire'[i] = wire[i]
      <4>1. wire[i].call \in Calls /\ Truthful(wire[i])
        BY <3>1, ChunkTyped
      <4>2. calls[wire[i].call].at = "reported" => calls'[wire[i].call] = calls[wire[i].call]
        BY <1>1, <1>2, <4>1
      <4>. QED
        BY <3>1, <4>1, <4>2 DEF Truthful
    <3>2. CASE wire'[i] = chunk
      BY <1>2, <1>3, <3>2 DEF Truthful
    <3>. QED
      BY <1>4, <3>1, <3>2
  <2>. QED
    BY <2>1
<1>. QED
  BY <1>5, <1>6, <1>7, <1>8, <1>9, <1>10 DEF IInv, TurnInv

-----------------------------------------------------------------------------
(* The reader.                                                             *)

\* A step of the turn that leaves its calls and its bank alone, and takes chunks
\* off the wire: what is left to show is what it shows and the cards it adds.
LEMMA ReaderStep ==
  ASSUME IInv, UNCHANGED <<calls, jobs, posts, requests, told, loanVars>>,
         phase' \in {"listing", "planning", "reading", "trailing", "over"},
         connected' \in BOOLEAN, closed' \in BOOLEAN, closing' \in BOOLEAN, closed => closed',
         stream' \in {"open", "aborted"}, steps' \in 0..MAX_STEPS, faults' \in 0..MaxFaults,
         wire' \in Seq(Chunks),
         \A i \in DOMAIN wire' : \E j \in DOMAIN wire : wire'[i] = wire[j],
         shown' \in [Calls -> {"nothing", "call", "result", "denied", "fault"}],
         \A c \in Calls : \/ shown'[c] \in {shown[c], "call", "fault"}
                          \/ /\ shown'[c] = "result" /\ calls[c].at = "reported"
                             /\ calls[c].answer \in {"result", "request"}
                          \/ /\ shown'[c] = "denied" /\ calls[c].at = "reported"
                             /\ calls[c].answer = "denied",
         cards' \subseteq [kind : {"authorization", "waiting", "error"}, call : 0..MaxCalls],
         pending' \in Nat, CardsStand'
  PROVE  IInv'
<1>1. LoanInv' /\ VisitsStand /\ UNCHANGED visits
  BY TurnTyped, LoanUnchanged DEF loanVars
<1>2. TypeOK'
  BY <1>1 DEF IInv, LoanInv, TurnInv, TypeOK, Chunks
<1>3. Numbered'
  BY DEF IInv, TurnInv, Numbered
<1>4. \A c \in Calls : Progress(c)' /\ Work(c)'
  <2>1. ASSUME NEW c \in Calls PROVE Progress(c)' /\ Work(c)'
    <3>1. Progress(c) /\ Work(c)
      BY CallTyped
    <3>2. Progress(c)'
      BY <3>1 DEF Progress
    <3>3. Work(c)'
      BY <1>1, <3>1 DEF Work, BankServed
    <3>. QED
      BY <3>2, <3>3
  <2>. QED
    BY <2>1
<1>5. \A i \in DOMAIN wire' : Truthful(wire[i])'
  <2>1. ASSUME NEW i \in DOMAIN wire' PROVE Truthful(wire[i])'
    <3>1. PICK j \in DOMAIN wire : wire'[i] = wire[j]
      OBVIOUS
    <3>. QED
      BY <3>1, ChunkTyped DEF Truthful
  <2>. QED
    BY <2>1
<1>. QED
  BY <1>1, <1>2, <1>3, <1>4, <1>5 DEF IInv, TurnInv

\* What the reader finds.
LEMMA ReaderTyped ==
  ASSUME IInv
  PROVE  /\ phase \in {"listing", "planning", "reading", "trailing", "over"}
         /\ connected \in BOOLEAN /\ closing \in BOOLEAN
         /\ stream \in {"open", "aborted"} /\ steps \in 0..MAX_STEPS
         /\ shown \in [Calls -> {"nothing", "call", "result", "denied", "fault"}]
         /\ cards \subseteq [kind : {"authorization", "waiting", "error"}, call : 0..MaxCalls]
         /\ \A i \in DOMAIN wire : \E j \in DOMAIN wire : wire[i] = wire[j]
         /\ CardsStand
BY DEF IInv, TurnInv, TypeOK

\* No card is added.
LEMMA CardsKept ==
  ASSUME IInv, UNCHANGED <<calls, requests, told, cards>>, closed => closed',
         pending' \in {pending, 0}
  PROVE  CardsStand'
<1>1. CardsStand /\ Awaited' = Awaited /\ Authorizing' = Authorizing
  BY DEF IInv, TurnInv, Awaited, Authorizing
<1>. QED
  BY <1>1 DEF CardsStand

\* The handler before the stream: it goes on, or the turn is declined.
LEMMA HandlerIInv ==
  ASSUME IInv, ListTools \/ Plan
  PROVE  IInv'
<1>1. /\ phase' \in {"planning", "reading", "over"} /\ connected' \in {connected, FALSE}
      /\ UNCHANGED <<steps, stream, calls, jobs, wire, closed, pending, closing, shown, cards,
                     posts, requests, told, faults, loanVars>>
  BY DEF ListTools, Plan, Decline, StreamTurn
<1>2. CardsStand'
  BY <1>1, CardsKept
<1>. QED
  BY <1>1, <1>2, TurnTyped, ReaderTyped, ChunkTyped, ReaderStep

\* The first chunk is the reader's; the others stay as they are.
LEMMA ChunkTaken ==
  ASSUME IInv, wire # <<>>, wire' = Tail(wire)
  PROVE  /\ wire' \in Seq(Chunks)
         /\ \A i \in DOMAIN wire' : \E j \in DOMAIN wire : wire'[i] = wire[j]
         /\ Head(wire) \in Chunks /\ Head(wire).call \in Calls /\ Truthful(Head(wire))
<1>1. wire \in Seq(Chunks) /\ 1 \in DOMAIN wire /\ Head(wire) = wire[1]
  BY ChunkTyped
<1>2. wire' \in Seq(Chunks) /\ \A i \in DOMAIN wire' : i + 1 \in DOMAIN wire /\ wire'[i] = wire[i + 1]
  BY <1>1
<1>. QED
  BY <1>1, <1>2, ChunkTyped

\* An authorization card is on screen: a URL was asked for.
LEMMA AuthorizationStands ==
  ASSUME IInv, UNCHANGED <<calls, requests, told>>, closed', pending' = 0,
         NEW card, card.kind = "authorization", cards' \in {cards, cards \cup {card}},
         \E c \in Calls : calls[c].elicited \/ calls[c].answer = "challenge"
  PROVE  CardsStand'
<1>1. CardsStand /\ Awaited' = Awaited
  BY DEF IInv, TurnInv, Awaited
<1>. QED
  BY <1>1 DEF CardsStand

LEMMA ReadIInv ==
  ASSUME IInv, Read
  PROVE  IInv'
<1>1. /\ wire # <<>> /\ wire' = Tail(wire)
      /\ UNCHANGED <<connected, steps, calls, jobs, posts, requests, told, faults, loanVars>>
  BY DEF Read
<1>2. PICK c \in Calls : c = Head(wire).call
  BY <1>1, ChunkTaken
<1>3. CASE Abort /\ UNCHANGED <<closed, pending, closing, shown, cards>>
  <2>1. CardsStand'
    BY <1>1, <1>3, CardsKept
  <2>. QED
    BY <1>1, <1>3, <2>1, TurnTyped, ReaderTyped, ChunkTaken, ReaderStep DEF Abort
<1>4. CASE ReadCall(c)
  <2>1. /\ shown' = [shown EXCEPT ![c] = "call"]
        /\ UNCHANGED <<phase, stream, closed, pending, closing, cards>>
    BY <1>4 DEF ReadCall
  <2>2. CardsStand'
    BY <1>1, <2>1, CardsKept
  <2>3. /\ shown' \in [Calls -> {"nothing", "call", "result", "denied", "fault"}]
        /\ \A d \in Calls : shown'[d] \in {shown[d], "call"}
    BY <2>1, ReaderTyped
  <2>. QED
    BY <1>1, <2>1, <2>2, <2>3, TurnTyped, ReaderTyped, ChunkTaken, ReaderStep
<1>5. CASE Challenged(c) /\ EndOnAuthorization(c) /\ UNCHANGED <<closing, shown>>
  <2>. DEFINE card == Card("authorization", c)
  <2>1. /\ closed' = TRUE /\ stream' = "aborted" /\ phase' = "trailing" /\ pending' = 0
        /\ cards' \in {cards, cards \cup {card}}
    BY <1>5 DEF EndOnAuthorization
  <2>2. card.kind = "authorization"
        /\ card \in [kind : {"authorization", "waiting", "error"}, call : 0..MaxCalls]
    BY AgentTurnAssumption DEF Card, Calls
  <2>. HIDE DEF card
  <2>3. \E d \in Calls : calls[d].elicited \/ calls[d].answer = "challenge"
    BY <1>5, ReaderTyped DEF Challenged, CardsStand
  <2>4. CardsStand'
    BY <1>1, <2>1, <2>2, <2>3, AuthorizationStands
  <2>. QED
    BY <1>1, <1>5, <2>1, <2>2, <2>4, TurnTyped, ReaderTyped, ChunkTaken, ReaderStep
<1>6. CASE Head(wire).kind = "result" /\ ReadResult(c)
  <2>1. calls[c].at = "reported" /\ calls[c].answer \in {"result", "request"}
    BY <1>1, <1>2, <1>6, ChunkTaken DEF Truthful
  <2>2. /\ shown' = [shown EXCEPT ![c] = "result"]
        /\ UNCHANGED <<phase, stream, closed, pending>>
    BY <1>6 DEF ReadResult
  <2>3. /\ shown' \in [Calls -> {"nothing", "call", "result", "denied", "fault"}]
        /\ shown'[c] = "result" /\ \A d \in Calls : d # c => shown'[d] = shown[d]
    BY <2>2, ReaderTyped
  <2>4. CASE UNCHANGED <<closing, cards>>
    <3>1. CardsStand'
      BY <1>1, <2>2, <2>4, CardsKept
    <3>. QED
      BY <1>1, <2>1, <2>2, <2>3, <2>4, <3>1, TurnTyped, ReaderTyped, ChunkTaken, ReaderStep
  <2>5. CASE HasRequestId(c) /\ closing' = TRUE /\ cards' = cards \cup {Card("waiting", c)}
    <3>. DEFINE card == Card("waiting", c)
    <3>1. /\ card.kind = "waiting" /\ card.call = c
          /\ card \in [kind : {"authorization", "waiting", "error"}, call : 0..MaxCalls]
      BY AgentTurnAssumption DEF Card, Calls
    <3>2. c \in requests \cap told /\ closed
      BY <2>5, CallTyped DEF Work, HasRequestId
    <3>3. cards' = cards \cup {card}
      BY <2>5
    <3>. HIDE DEF card
    <3>4. Awaited' \subseteq Awaited \cup {card} /\ Authorizing' = Authorizing
      BY <3>1, <3>3 DEF Awaited, Authorizing
    <3>5. CardsStand'
      BY <1>1, <2>2, <3>1, <3>2, <3>4, ReaderTyped DEF CardsStand
    <3>. QED
      BY <1>1, <2>1, <2>2, <2>3, <2>5, <3>1, <3>3, <3>5, TurnTyped, ReaderTyped, ChunkTaken,
         ReaderStep
  <2>. QED
    BY <1>6, <2>4, <2>5 DEF ReadResult
<1>7. CASE Head(wire).kind = "error" /\ ReadError(c)
  <2>1. calls[c].at = "reported"
    BY <1>1, <1>2, <1>7, ChunkTaken DEF Truthful
  <2>2. /\ shown' = [shown EXCEPT ![c] = FailureShown(c)]
        /\ UNCHANGED <<phase, stream, closed, pending, closing, cards>>
    BY <1>7 DEF ReadError
  <2>3. \/ FailureShown(c) = "fault"
        \/ FailureShown(c) = "denied" /\ calls[c].answer = "denied"
    BY DEF FailureShown, IsHookDecision
  <2>4. /\ shown' \in [Calls -> {"nothing", "call", "result", "denied", "fault"}]
        /\ shown'[c] = FailureShown(c) /\ \A d \in Calls : d # c => shown'[d] = shown[d]
    BY <2>2, <2>3, ReaderTyped
  <2>5. CardsStand'
    BY <1>1, <2>2, CardsKept
  <2>. QED
    BY <1>1, <2>1, <2>2, <2>3, <2>4, <2>5, TurnTyped, ReaderTyped, ChunkTaken, ReaderStep
<1>. QED
  BY <1>2, <1>3, <1>4, <1>5, <1>6, <1>7 DEF Read

LEMMA StopReadingIInv ==
  ASSUME IInv, StopReading
  PROVE  IInv'
<1>. DEFINE card == Card("error", 0)
<1>1. /\ phase' = "trailing"
      /\ UNCHANGED <<connected, steps, stream, calls, jobs, wire, closed, pending, closing, shown,
                     posts, requests, told, loanVars>>
      /\ cards' \in {cards, cards \cup {card}} /\ (faults' = faults \/ Fault)
  BY DEF StopReading
<1>2. faults' \in 0..MaxFaults
  BY <1>1, TurnTyped, FaultTyped
<1>3. card.kind = "error"
      /\ card \in [kind : {"authorization", "waiting", "error"}, call : 0..MaxCalls]
  BY AgentTurnAssumption DEF Card
<1>. HIDE DEF card
<1>4. CardsStand'
  <2>1. CardsStand /\ Awaited' = Awaited /\ Authorizing' = Authorizing
    BY <1>1, <1>3 DEF IInv, TurnInv, Awaited, Authorizing
  <2>. QED
    BY <1>1, <2>1 DEF CardsStand
<1>. QED
  BY <1>1, <1>2, <1>3, <1>4, TurnTyped, ReaderTyped, ChunkTyped, ReaderStep

LEMMA DoneIInv ==
  ASSUME IInv, Done
  PROVE  IInv'
<1>. DEFINE card == Card("authorization", 0)
<1>1. /\ phase' = "over" /\ connected' = FALSE
      /\ UNCHANGED <<steps, calls, jobs, wire, closing, shown, posts, requests, told, faults,
                     loanVars>>
  BY DEF Done
<1>2. CASE /\ pending > 0 /\ closed' = TRUE /\ stream' = "aborted" /\ pending' = 0
           /\ cards' \in {cards, cards \cup {card}}
  <2>1. card.kind = "authorization"
        /\ card \in [kind : {"authorization", "waiting", "error"}, call : 0..MaxCalls]
    BY AgentTurnAssumption DEF Card
  <2>. HIDE DEF card
  <2>2. \E c \in Calls : calls[c].elicited
    BY <1>2, ReaderTyped DEF CardsStand
  <2>3. CardsStand'
    BY <1>1, <1>2, <2>1, <2>2, AuthorizationStands
  <2>. QED
    BY <1>1, <1>2, <2>1, <2>3, TurnTyped, ReaderTyped, ChunkTyped, ReaderStep
<1>3. CASE UNCHANGED <<closed, stream, pending, cards>>
  <2>1. CardsStand'
    BY <1>1, <1>3, CardsKept
  <2>. QED
    BY <1>1, <1>3, <2>1, TurnTyped, ReaderTyped, ChunkTyped, ReaderStep
<1>. QED
  BY <1>2, <1>3 DEF Done

-----------------------------------------------------------------------------
(* The turn.                                                               *)

LEMMA InitIInv == Init => IInv
<1>. SUFFICES ASSUME Init PROVE IInv
  OBVIOUS
<1>1. LoanInv
  BY InitLoan DEF Init
<1>2. \A c \in Calls : calls[c] = Unasked /\ jobs[c] = "none" /\ shown[c] = "nothing"
  BY DEF Init
<1>3. /\ Unasked \in Call /\ Unasked.at = "unasked" /\ Unasked.answer = "none"
      /\ ~Unasked.elicited
  BY DEF Unasked, Call, Answers
<1>4. wire = <<>> /\ wire \in Seq(Chunks)
  BY DEF Init
<1>5. TypeOK
  <2>1. calls \in [Calls -> Call] /\ jobs \in [Calls -> Jobs]
    BY <1>3 DEF Init, Jobs
  <2>2. shown \in [Calls -> {"nothing", "call", "result", "denied", "fault"}]
    BY DEF Init
  <2>3. steps \in 0..MAX_STEPS /\ faults \in 0..MaxFaults /\ pending \in Nat
    BY AgentTurnAssumption DEF Init
  <2>4. LoanTypeOK
    BY <1>1 DEF LoanInv
  <2>5. /\ phase = "listing" /\ connected = TRUE /\ stream = "open" /\ closed = FALSE
        /\ closing = FALSE /\ cards = {} /\ posts = {} /\ requests = {} /\ told = {}
    BY DEF Init
  <2>. QED
    BY <1>4, <2>1, <2>2, <2>3, <2>4, <2>5 DEF TypeOK, Chunks
<1>6. Numbered
  <2>1. 0 \in 0..MaxCalls /\ \A c \in Calls : ~(c <= 0)
    BY AgentTurnAssumption DEF Calls
  <2>. QED
    BY <1>2, <1>3, <2>1 DEF Numbered
<1>7. CardsStand
  BY DEF Init, CardsStand, Awaited, Authorizing
<1>8. \A c \in Calls : Progress(c) /\ Work(c)
  BY <1>2, <1>3 DEF Progress, Work
<1>. QED
  BY <1>1, <1>4, <1>5, <1>6, <1>7, <1>8 DEF IInv, TurnInv

\* What is said of the turn rests on variables that a stutter leaves alone.
LEMMA StutterIInv ==
  ASSUME IInv, UNCHANGED vars
  PROVE  IInv'
<1>1. UNCHANGED loanVars /\ UNCHANGED turnVars
  BY DEF vars
<1>2. UNCHANGED <<phase, connected, steps, stream, calls, jobs, wire, closed, pending, closing,
                  shown, cards, posts, requests, told, faults>>
  BY <1>1 DEF turnVars
<1>3. CardsStand'
  BY <1>2, CardsKept
<1>. QED
  BY <1>1, <1>2, <1>3, TurnTyped, ReaderTyped, ChunkTyped, ReaderStep

LEMMA NextIInv ==
  ASSUME IInv, Next
  PROVE  IInv'
<1>1. CASE Loop
  BY <1>1, AskIInv, ReportIInv, DispatchIInv DEF Loop
<1>2. CASE Gateway
  BY <1>2, GatewayAnswersIInv, ElicitIInv, RunIInv DEF Gateway
<1>3. CASE Toolkits
  BY <1>3, LoanAnswersIInv, RouteIInv, RecordIInv, CreatedIInv, MessageIInv DEF Toolkits
<1>4. CASE Reader
  BY <1>4, HandlerIInv, ReadIInv, StopReadingIInv, DoneIInv DEF Reader
<1>5. CASE (BankStep \/ Meanwhile) /\ UNCHANGED turnVars
  BY <1>5, BankIInv
<1>. QED
  BY <1>1, <1>2, <1>3, <1>4, <1>5 DEF Next

\* The inductive invariant: the bank's, and what is said of every call, of every
\* chunk on the wire and of every card.
LEMMA Inductive == Spec => []IInv
<1>1. IInv /\ [Next]_vars => IInv'
  BY NextIInv, StutterIInv
<1>. QED
  BY <1>1, InitIInv, PTL DEF Spec

-----------------------------------------------------------------------------
(* What a reader should know.                                              *)

\* Every variable of a turn and of the bank keeps its type, whatever the gateway,
\* the toolkits and the provider answer.
THEOREM TypeCorrect == Spec => []TypeOK
<1>1. IInv => TypeOK
  BY DEF IInv, TurnInv
<1>. QED
  BY <1>1, Inductive, PTL

\* No decision is named by a token that was revoked when the request arrived, and
\* no read by one revoked TTL before, however late the provider's answers come and
\* whatever the bank was restarted or reset between (actorFromRequest).
THEOREM NamedOnlyWhileVouched == Spec => []NamedWhileVouched
<1>1. IInv => NamedWhileVouched
  BY DEF IInv, LoanInv
<1>. QED
  BY <1>1, Inductive, PTL

\* What the person is shown happened, for any number of calls in flight and any
\* order their outcomes are reported in (runTurn).
THEOREM NothingInvented == Spec => []ShownIsTrue
<1>1. ASSUME IInv PROVE ShownIsTrue
  <2>1. ASSUME NEW c \in Calls
        PROVE  /\ shown[c] = "result" /\ Writes(calls[c].tool) /\ ~calls[c].elicited => Decided(c)
               /\ shown[c] = "denied" => calls[c].answer = "denied"
               /\ calls[c].answer = "refused" => jobs[c] = "none"
                                                 /\ shown[c] \notin {"result", "denied"}
    <3>1. Progress(c) /\ Work(c)
      BY <1>1, CallTyped
    <3>2. shown[c] = "result" /\ Writes(calls[c].tool) /\ ~calls[c].elicited => Decided(c)
      <4>1. SUFFICES ASSUME shown[c] = "result", Writes(calls[c].tool), ~calls[c].elicited
                     PROVE  Decided(c)
        OBVIOUS
      <4>2. calls[c].tool # Escalation
        BY <4>1 DEF Writes, KindOf, Escalation
      <4>3. BankServed(c)
        BY <3>1, <4>1, <4>2 DEF Progress, Work
      <4>4. visits[c].at = "served" /\ visits[c].kind \in Decisions /\ c \in Requests
        BY <4>1, <4>3, AgentTurnAssumption DEF BankServed, Writes
      <4>. QED
        BY <1>1, <4>4 DEF IInv, LoanInv, DecisionsStand, Decided
    <3>. QED
      BY <3>1, <3>2 DEF Progress
  <2>. QED
    BY <1>1, <2>1, ReaderTyped DEF ShownIsTrue, CardsStand
<1>. QED
  BY <1>1, Inductive, PTL

\* Of a step, only the dispatch of a call that is not refused takes it to the gateway.
LEMMA StartsByDispatch ==
  ASSUME IInv, [Next]_vars, NEW c \in Calls, calls[c].at # "gateway", calls'[c].at = "gateway"
  PROVE  ~Refuses(c)
<1>1. ASSUME calls' = calls \/ \E d \in Calls, answer \in Answers : Settle(d, answer) PROVE FALSE
  <2>1. PICK d \in Calls, answer \in Answers : Settle(d, answer)
    BY <1>1
  <2>2. CASE d = c
    BY <2>1, <2>2, SettleSets
  <2>3. CASE d # c
    BY <2>1, <2>3, SettleSets
  <2>. QED
    BY <2>2, <2>3
<1>2. ASSUME NEW d \in Calls, NEW answer, Answered(d, answer), answer \in Answers PROVE FALSE
  BY <1>1, <1>2 DEF Answered
<1>3. "failed" \in Answers /\ "denied" \in Answers /\ "challenge" \in Answers
      /\ "result" \in Answers /\ "request" \in Answers /\ "refused" \in Answers
  BY DEF Answers
<1>4. CASE Ask
  <2>1. calls'[c] = calls[c] \/ calls'[c].at = "asked"
    BY <1>4 DEF Ask, Unasked
  <2>. QED
    BY <2>1
<1>5. ASSUME NEW d \in Calls, Report(d) PROVE FALSE
  <2>1. calls'[c].at \in {calls[c].at, "reported"}
    BY <1>5, TurnTyped DEF Report, Call
  <2>. QED
    BY <2>1
<1>6. ASSUME NEW d \in Calls, Dispatch(d) PROVE ~Refuses(c)
  <2>1. ~Refuses(d) /\ calls' = [calls EXCEPT ![d].at = "gateway"]
    BY <1>1, <1>3, <1>6 DEF Dispatch
  <2>2. d = c
    BY <2>1, TurnTyped
  <2>. QED
    BY <2>1, <2>2
<1>7. ASSUME NEW d \in Calls, Elicit(d) PROVE FALSE
  <2>1. calls'[c].at = calls[c].at
    BY <1>7, TurnTyped DEF Elicit, Call
  <2>. QED
    BY <2>1
<1>8. ASSUME NEW d \in Calls, Refuse(d) \/ Cancelled(d) \/ Run(d) \/ GiveUp(d) PROVE FALSE
  BY <1>1, <1>3, <1>8 DEF Refuse, Cancelled, Run, GiveUp
<1>9. ASSUME NEW d \in Calls, LoanAnswers(d) \/ LoanTimesOut(d) \/ Route(d) \/ Record(d)
                              \/ Created(d) \/ Message(d)
      PROVE  FALSE
  <2>1. UNCHANGED calls \/ \E answer \in {"result", "denied", "failed", "request"} :
                             Answered(d, answer)
    BY <1>9 DEF LoanAnswers, LoanTimesOut, Route, Record, Created, Message, Raise
  <2>. QED
    BY <1>1, <1>2, <1>3, <2>1
<1>10. ASSUME Reader PROVE FALSE
  BY <1>1, <1>10 DEF Reader, ListTools, Plan, Decline, StreamTurn, Read, StopReading, Done
<1>11. ASSUME UNCHANGED turnVars \/ UNCHANGED vars PROVE FALSE
  BY <1>1, <1>11 DEF turnVars, vars
<1>. QED
  BY <1>4, <1>5, <1>6, <1>7, <1>8, <1>9, <1>10, <1>11 DEF Next, Loop, Gateway, Toolkits

\* A call whose request id came back, or that was asked for a URL, has shut the
\* toolset, and a shut toolset dispatches no other tool (closeTurnOnEscalation).
THEOREM TurnStaysEnded == Spec => NothingGovernedAfterTheEnd
<1>. DEFINE Held == TurnEnded => \A c \in Calls :
              calls[c].at # "gateway" /\ calls'[c].at = "gateway" => calls[c].tool = Escalation
<1>1. ASSUME IInv, [Next]_vars, TurnEnded, NEW c \in Calls,
             calls[c].at # "gateway", calls'[c].at = "gateway"
      PROVE  calls[c].tool = Escalation
  <2>1. closed
    BY <1>1, CallTyped DEF TurnEnded, HasRequestId, Work
  <2>2. ~Refuses(c)
    BY <1>1, StartsByDispatch
  <2>. QED
    BY <2>1, <2>2 DEF Refuses
<1>2. IInv /\ [Next]_vars => [Held]_vars
  BY <1>1
<1>. QED
  BY <1>2, Inductive, PTL DEF Spec, NothingGovernedAfterTheEnd
=============================================================================
