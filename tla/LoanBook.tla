------------------------------- MODULE LoanBook -------------------------------
(***************************************************************************)
(* apps/loan-app: the bank's HTTP API over loans.db.  The service opens    *)
(* the file it finds, names whoever holds a request's bearer by asking the *)
(* identity provider (a read may be answered from the last minute's        *)
(* answer), then reads or appends to the loan book.  A decision is a row   *)
(* and a status in one transaction; the look at the provider is awaited,   *)
(* so other requests, a revocation or a restart come in between.           *)
(*                                                                         *)
(* One loan stands for the book: no statement relates two.                 *)
(***************************************************************************)
EXTENDS Integers, Sequences, FiniteSets, SequencesExt

CONSTANTS
  Requests,      \* HTTP requests, each sent at most once
  Bearer,        \* Bearer[q]: the token a request carries
  TTL,           \* RESOLUTION_TTL_MS, in ticks
  MaxRemembered, \* MAX_REMEMBERED
  Files,         \* what the service may find on its disk
  MaxClock, MaxInterventions  \* bounds: ticks; restarts, resets and revocations

SchemaVersion == 1
NoSchema == -1

Tokens == {Bearer[q] : q \in Requests}
Decisions == {"approved", "denied"}
Never == MaxClock + 1

\* loans.db: whatever its version and the rows it holds.
File == [version : Int, status : {"none", "pending"} \cup Decisions,
         rows : Seq([by : Requests, decision : Decisions])]

ASSUME LoanBookAssumption ==
  /\ TTL \in Nat \ {0} /\ MaxRemembered \in Nat \ {0}
  /\ MaxClock \in Nat /\ MaxInterventions \in Nat
  /\ Files \subseteq File

VARIABLES
  book,        \* loans.db: its version, the loan's status, its rows in order
  service,     \* "down", "up", or "refused": a file no restart can open
  remembered,  \* remembered: in order of insertion, a token and its expiry
  visits,      \* by request: where it stands, since when, the provider's word
  clock,
  revoked,     \* by token: when the provider stopped vouching for it
  resets, restarts

loanVars == <<book, service, remembered, visits, clock, revoked, resets, restarts>>

NoVisit == [at |-> "no", kind |-> "read", since |-> 0, word |-> "none"]

\* The fixture: pending, and nobody decided anything.
Seeded == [version |-> SchemaVersion, status |-> "pending", rows |-> <<>>]

LoanInit ==
  /\ book \in Files
  /\ service = "down"
  /\ remembered = <<>>
  /\ visits = [q \in Requests |-> NoVisit]
  /\ clock = 0
  /\ revoked = [t \in Tokens |-> Never]
  /\ resets = 0 /\ restarts = 0

-----------------------------------------------------------------------------
(* The process and its file.                                               *)

\* upgradeSchema adds a column and stamps the file; every row stays.
Upgraded(file) == [file EXCEPT !.version = SchemaVersion]

\* openLoanBook: a file of a later build is left as it is and the process exits.
OpenLoanBook ==
  /\ service = "down"
  /\ \/ /\ book.version <= SchemaVersion
        /\ book' = IF book.version = NoSchema THEN Seeded ELSE Upgraded(book)
        /\ service' = "up"
     \/ /\ book.version > SchemaVersion
        /\ service' = "refused" /\ UNCHANGED book
  /\ UNCHANGED <<remembered, visits, clock, revoked, resets, restarts>>

\* Bound on what befalls the bank.
MayIntervene ==
  restarts + resets + Cardinality({t \in Tokens : revoked[t] # Never}) < MaxInterventions

\* The process is gone with what it remembered and what it was answering.
Underway(q) == visits[q].at \in {"asking", "named"}
Restart ==
  /\ service = "up" /\ MayIntervene
  /\ service' = "down" /\ restarts' = restarts + 1
  /\ remembered' = <<>>
  /\ visits' = [q \in Requests |-> IF Underway(q) THEN [visits[q] EXCEPT !.at = "failed"] ELSE visits[q]]
  /\ UNCHANGED <<book, clock, revoked, resets>>

\* resetLoanBook: one transaction.  What actorFromRequest remembers stays.
ResetLoanBook ==
  /\ service = "up" /\ MayIntervene
  /\ book' = Seeded /\ resets' = resets + 1
  /\ UNCHANGED <<service, remembered, visits, clock, revoked, restarts>>

-----------------------------------------------------------------------------
(* Who is asking.                                                          *)

\* A token has one entry at most.
Forget(token) ==
  LET held == {i \in DOMAIN remembered : remembered[i].token = token} IN
  IF held = {} THEN remembered ELSE RemoveAt(remembered, CHOOSE i \in held : TRUE)

\* recall: an entry at its expiry is dropped, not used.
Recalled(token) == \E i \in DOMAIN remembered :
                     remembered[i].token = token /\ clock < remembered[i].until
ForgetExpired(token) == IF Recalled(token) THEN remembered ELSE Forget(token)

\* remember: the newest last; the oldest go when there are too many.
Newest(entries) == SubSeq(entries, Len(entries) - MaxRemembered + 1, Len(entries))
Remember(token, since) ==
  LET entries == Append(Forget(token), [token |-> token, until |-> since + TTL])
  IN  remembered' = IF Len(entries) > MaxRemembered THEN Newest(entries) ELSE entries

\* Only a request that changes nothing is answered from memory.
MayReuse(kind) == kind = "read"

\* actorFromRequest, up to what it has to ask the provider.
Arrive(q, kind) ==
  /\ service = "up" /\ visits[q].at = "no"
  /\ LET known == MayReuse(kind) /\ Recalled(Bearer[q]) IN
     visits' = [visits EXCEPT ![q] =
                  [at |-> IF known THEN "named" ELSE "asking",
                   kind |-> kind, since |-> clock, word |-> "none"]]
  /\ remembered' = IF MayReuse(kind) THEN ForgetExpired(Bearer[q]) ELSE remembered
  /\ UNCHANGED <<book, service, clock, revoked, resets, restarts>>

\* The provider's userinfo endpoint looks at the token now and its word is on
\* its way; a limit, a fault or an outage is no word for it either.
Vouch(q) ==
  /\ visits[q].at = "asking" /\ visits[q].word = "none"
  /\ \/ revoked[Bearer[q]] = Never /\ visits' = [visits EXCEPT ![q].word = "good"]
     \/ visits' = [visits EXCEPT ![q].word = "no"]
  /\ UNCHANGED <<book, service, remembered, clock, revoked, resets, restarts>>

\* The rest of actorFromRequest.  The expiry counts from before the question.
ExpiresFromTheAnswer(visit) == clock
ExpiresFrom(visit) == visit.since
Resolve(q) ==
  /\ visits[q].at = "asking" /\ visits[q].word # "none"
  /\ \/ /\ visits[q].word = "good"
        /\ Remember(Bearer[q], ExpiresFrom(visits[q]))
        /\ visits' = [visits EXCEPT ![q].at = "named"]
     \/ /\ visits[q].word # "good"
        /\ remembered' = Forget(Bearer[q])
        /\ visits' = [visits EXCEPT ![q].at = "failed"]
  /\ UNCHANGED <<book, service, clock, revoked, resets, restarts>>

\* recordDecision: the row and the status in one transaction; nothing looks at
\* the status the loan had.
RecordDecision(q) ==
  book' = [book EXCEPT !.rows = Append(@, [by |-> q, decision |-> visits[q].kind]),
                       !.status = visits[q].kind]

\* The rest of handleLoans; a body or an id it does not know changes nothing.
Serve(q) ==
  /\ visits[q].at = "named"
  /\ \/ /\ visits[q].kind = "read" /\ UNCHANGED book
        /\ visits' = [visits EXCEPT ![q].at = "served"]
     \/ /\ visits[q].kind \in Decisions /\ RecordDecision(q)
        /\ visits' = [visits EXCEPT ![q].at = "served"]
     \/ /\ UNCHANGED book
        /\ visits' = [visits EXCEPT ![q].at = "failed"]
  /\ UNCHANGED <<service, remembered, clock, revoked, resets, restarts>>

-----------------------------------------------------------------------------
(* Around it.                                                              *)

Revoke(token) ==
  /\ revoked[token] = Never /\ MayIntervene
  /\ revoked' = [revoked EXCEPT ![token] = clock]
  /\ UNCHANGED <<book, service, remembered, visits, clock, resets, restarts>>

Tick ==
  /\ clock < MaxClock /\ clock' = clock + 1
  /\ UNCHANGED <<book, service, remembered, visits, revoked, resets, restarts>>

\* The bank's own steps; the arrival of a request is its sender's.
BankStep ==
  \/ OpenLoanBook
  \/ \E q \in Requests : Vouch(q) \/ Resolve(q) \/ Serve(q)

\* What happens to it.
Meanwhile ==
  \/ Restart \/ ResetLoanBook \/ Tick
  \/ \E token \in Tokens : Revoke(token)

-----------------------------------------------------------------------------
(* What the bank promises.                                                 *)

Visit == [at : {"no", "asking", "named", "served", "failed"}, kind : {"read"} \cup Decisions,
          since : 0..MaxClock, word : {"none", "good", "no"}]

LoanTypeOK ==
  /\ book \in File /\ service \in {"down", "up", "refused"}
  /\ remembered \in Seq([token : Tokens, until : Int])
  /\ visits \in [Requests -> Visit]
  /\ clock \in 0..MaxClock
  /\ revoked \in [Tokens -> 0..Never]
  /\ resets \in Nat /\ restarts \in Nat

\* A token the provider stopped vouching for names nobody in a decision that
\* arrives later, and nobody in a read that arrives TTL later, however late the
\* provider's answers come (actor.ts, Staleness bound).
Named(q) == visits[q].at \in {"named", "served"}
NamedWhileVouched ==
  \A q \in Requests : Named(q) =>
    LET until == revoked[Bearer[q]] IN
    IF visits[q].kind = "read" THEN visits[q].since < until + TTL ELSE visits[q].since <= until

\* What that rests on: an entry is no older than the last time its token was good,
\* and neither is the provider's word on its way.
Remembrance ==
  \A i \in DOMAIN remembered :
    LET entry == remembered[i] IN
    entry.until <= clock + TTL /\ entry.until <= revoked[entry.token] + TTL

WordIsTimely ==
  \A q \in Requests :
    /\ visits[q].since <= clock
    /\ visits[q].at = "asking" /\ visits[q].word = "good" => visits[q].since <= revoked[Bearer[q]]

\* Nothing is asked of a file that was not opened, and a decision that was served
\* has its row, up to a reset.
DecisionsStand ==
  /\ service = "up" => book.version = SchemaVersion
  /\ \A q \in Requests :
       /\ visits[q].at # "no" => book.version = SchemaVersion
       /\ visits[q].at = "served" /\ visits[q].kind \in Decisions =>
            resets > 0 \/ \E i \in DOMAIN book.rows : book.rows[i].by = q

LoanInv == LoanTypeOK /\ Remembrance /\ WordIsTimely /\ NamedWhileVouched /\ DecisionsStand
=============================================================================
