--------------------------- MODULE ApprovalGrants ---------------------------
(***************************************************************************)
(* The approval flow of apps/hooks over governance.db: the two tables      *)
(* approval_requests and grants, the /pre decisions that read and write    *)
(* them, and the store endpoint that records a decision.                   *)
(*                                                                         *)
(* /pre runs before the tool it governs, and the tool's own write arrives  *)
(* later as POST /approvals/{id}/decision, if it arrives at all; any other *)
(* call may run in between.  Each handler is one synchronous block over    *)
(* SQLite, so each is one step here.  A handler may also finish its writes *)
(* and still answer a denial: the budget is checked and the audit row      *)
(* written after the policy was evaluated, and a failure there, or the     *)
(* loss of the response, is a refusal to the caller.                       *)
(***************************************************************************)
EXTENDS GrantChecker

CONSTANTS
  Accounts,    \* user ids as Arcade puts them on a payload, casing included
  Owner,       \* Owner[a]: the roster's user_id for a, once case is ignored
  Clearance,   \* Clearance[s]: the authority of roster entry s
  Requests,    \* approval request ids, minted by the store
  Loans,       \* what a request can be about
  Amounts,     \* the amounts a call can carry
  GrantTtl,    \* GRANT_TTL_SECONDS, in clock ticks
  MaxTime      \* bound of the clock

Subjects == {Owner[a] : a \in Accounts}

ASSUME AccountsAssumption ==
  /\ Owner \in [Accounts -> Accounts]
  /\ \A a \in Accounts : Owner[Owner[a]] = Owner[a]
  /\ Clearance \in [Subjects -> Nat]
  /\ Amounts \subseteq Nat
  /\ GrantTtl \in Nat \ {0}
  /\ MaxTime \in Nat
  /\ Null \notin Accounts \cup Loans \cup Requests \cup Int
  /\ Null \notin [input : {"amount"}, max : Amounts]

VARIABLES
  requests,    \* approval_requests, by id
  grants,      \* the rows of grants
  posts,       \* every decision a Decide run was let through to record
  lifts,       \* by request: the over-authority calls answered OK, in order
  now          \* the clock the handlers read

vars == <<requests, grants, posts, lifts, now>>

ASSUME WildcardAssumption == Wildcard \notin {"Loan", "ApproveLoan"}

ApproveLoan == [toolkit |-> "Loan", tool |-> "ApproveLoan"]

Statuses == {"unused", "pending", "approved", "denied", "erased"}
Decisions == {"approved", "denied"}

Request == [status : Statuses, requester_id : Accounts \cup {Null},
            resource_id : Loans \cup {Null}, amount : Amounts \cup {Null},
            decided_by : Accounts \cup {Null}, decided_at : Nat \cup {Null}]

Grant == [request_id : Requests, subject_id : Accounts, granted_by : Accounts,
          match : {ApproveLoan}, resource_id : Loans,
          pinned_inputs : [{"loan_id"} -> Loans],
          ceiling : [input : {"amount"}, max : Amounts],
          issued_at : Nat, expires_at : Nat,
          uses_remaining : {0, 1}, revoked_at : Nat \cup {Null}]

\* A row of grants: the grant itself and its lifecycle column.
StoredGrant == [grant : Grant, lifecycle : {"pending", "active", "void"}]

Post == [request_id : Requests, decision : Decisions, decided_by : Accounts]

Lift == [user : Subjects, resource_id : Loans, amount : Amounts, at : Nat]

TypeOK ==
  /\ requests \in [Requests -> Request]
  /\ grants \subseteq StoredGrant
  /\ posts \subseteq Post
  /\ lifts \in [Requests -> Seq(Lift)]
  /\ now \in Nat

UnusedRequest ==
  [status |-> "unused", requester_id |-> Null, resource_id |-> Null,
   amount |-> Null, decided_by |-> Null, decided_at |-> Null]

Init ==
  /\ requests = [r \in Requests |-> UnusedRequest]
  /\ grants = {}
  /\ posts = {}
  /\ lifts = [r \in Requests |-> <<>>]
  /\ now = 0

-----------------------------------------------------------------------------
(* Approvals.RequestApproval: the toolkit routes, the store records.       *)

\* Everyone on the roster but the requester, compared exactly, whose
\* authority covers the amount.
Candidates(account, amount) ==
  {s \in Subjects : s # account /\ Clearance[s] >= amount}

\* The row POST /approvals inserts.
PendingRequest(account, loan, amount) ==
  [status |-> "pending", requester_id |-> account, resource_id |-> loan,
   amount |-> amount, decided_by |-> Null, decided_at |-> Null]

\* POST /approvals: one insert under a fresh id.  A malformed body, an
\* unavailable policy or an action no binding resolves is answered before it.
CreateApproval(r, account, loan, amount) ==
  /\ requests[r].status = "unused"
  /\ requests' = [requests EXCEPT ![r] = PendingRequest(account, loan, amount)]
  /\ UNCHANGED <<grants, posts, lifts, now>>

RequestApproval(r, account, loan, amount) ==
  /\ Candidates(account, amount) # {}
  /\ CreateApproval(r, account, loan, amount)

-----------------------------------------------------------------------------
(* /pre for Approvals.Decide.                                              *)

\* Mutant: requester and decider compared with their casing.
MayDecideCaseSensitive(account, r) ==
  /\ requests[r].status = "pending"
  /\ requests[r].requester_id # account
  /\ requests[r].amount <= Clearance[Owner[account]]

\* The four pre.decide-* rules over the facts resolved from the store.
MayDecide(account, r) ==
  /\ requests[r].status = "pending"
  /\ Owner[requests[r].requester_id] # Owner[account]
  /\ requests[r].amount <= Clearance[Owner[account]]

\* The grant an approval issues, every field from the stored record.
GrantFrom(r, granted_by) ==
  [request_id |-> r, subject_id |-> requests[r].requester_id,
   granted_by |-> granted_by, match |-> ApproveLoan,
   resource_id |-> requests[r].resource_id,
   pinned_inputs |-> [k \in {"loan_id"} |-> requests[r].resource_id],
   ceiling |-> [input |-> "amount", max |-> requests[r].amount],
   issued_at |-> now, expires_at |-> now + GrantTtl,
   uses_remaining |-> 1, revoked_at |-> Null]

\* The unique index over request_id.
HasGrant(r) == \E g \in grants : g.grant.request_id = r

InsertGrant(grant) ==
  grants \cup (IF HasGrant(grant.request_id) THEN {}
               ELSE {[grant |-> grant, lifecycle |-> "pending"]})

\* answered: the OK reached the caller, so the tool will run.
PreDecide(account, r, decision, answered) ==
  /\ MayDecide(account, r)
  /\ grants' = IF decision = "approved"
               THEN InsertGrant(GrantFrom(r, Owner[account]))
               ELSE grants
  /\ posts' = IF answered
              THEN posts \cup {[request_id |-> r, decision |-> decision,
                                decided_by |-> account]}
              ELSE posts
  /\ UNCHANGED <<requests, lifts, now>>

-----------------------------------------------------------------------------
(* POST /approvals/{id}/decision.                                          *)

ActivatePendingGrants(r) ==
  {IF g.grant.request_id = r /\ g.lifecycle = "pending"
   THEN [g EXCEPT !.lifecycle = "active"] ELSE g : g \in grants}

\* Mutant: a denial leaves its pending grant where it is.
VoidNothing(r) == grants

VoidPendingGrants(r) ==
  {IF g.grant.request_id = r /\ g.lifecycle = "pending"
   THEN [g EXCEPT !.lifecycle = "void", !.grant.revoked_at = now] ELSE g :
   g \in grants}

\* The compare-and-swap and what it settles, in one transaction.
RecordDecision(p) ==
  /\ requests[p.request_id].status = "pending"
  /\ requests' = [requests EXCEPT ![p.request_id].status = p.decision,
                                  ![p.request_id].decided_by = p.decided_by,
                                  ![p.request_id].decided_at = now]
  /\ grants' = IF p.decision = "approved"
               THEN ActivatePendingGrants(p.request_id)
               ELSE VoidPendingGrants(p.request_id)
  /\ UNCHANGED <<posts, lifts, now>>

\* 404 and 409: the request is gone, or decided already.
RefuseDecision(p) ==
  /\ requests[p.request_id].status # "pending"
  /\ UNCHANGED vars

Decide(p) == RecordDecision(p) \/ RefuseDecision(p)

-----------------------------------------------------------------------------
(* /pre for Loan.ApproveLoan, the call a grant can lift the denial of.     *)

\* Mutant: a payload's user id is joined to the roster as it is spelt.
FindSubjectAsSpelt(account) == {s \in Subjects : s = account}

\* findSubject: the roster entry an account names, once case is ignored.
FindSubject(account) == {s \in Subjects : s = Owner[account]}

\* grantsFor joins on the roster's spelling, exactly.
GrantsFor(subject, tool) ==
  {g \in grants : g.grant.subject_id = subject /\ g.grant.match = tool}

\* whyUnusable answers null: activated, and its request reads approved.
Usable(g) ==
  /\ g.lifecycle = "active"
  /\ requests[g.grant.request_id].status = "approved"

ApproveCall(subject, loan, amount) ==
  [user |-> subject, tool |-> ApproveLoan,
   inputs |-> [k \in {"loan_id", "amount"} |->
                 IF k = "loan_id" THEN loan ELSE amount]]

Valid(subject, loan, amount) ==
  {g \in GrantsFor(subject, ApproveLoan) :
     Usable(g) /\ Authorises(g.grant, ApproveCall(subject, loan, amount), now)}

\* selectGrant takes the first in issued_at order; ids break a tie at random.
Selected(subject, loan, amount) ==
  {g \in Valid(subject, loan, amount) :
     \A h \in Valid(subject, loan, amount) : g.grant.issued_at <= h.grant.issued_at}

\* pre.approve-within-clearance does not deny the call.
WithinClearance(subject, amount) == amount <= Clearance[subject]

\* Mutant: the spent grant is returned and never written back.
ConsumeUseInMemory(g) == grants

ConsumeUse(g) == (grants \ {g}) \cup {[g EXCEPT !.grant = ConsumeGrant(g.grant)]}

\* The call is over the caller's authority and a grant turns the denial into
\* an allow.  A call within authority spends nothing, whatever is held.
PreApproveLoan(account, loan, amount, answered) ==
  \E subject \in FindSubject(account) :
    /\ ~WithinClearance(subject, amount)
    /\ \E g \in Selected(subject, loan, amount) :
         /\ grants' = ConsumeUse(g)
         /\ lifts' = IF answered
                     THEN [lifts EXCEPT ![g.grant.request_id] = Append(@,
                             [user |-> subject, resource_id |-> loan,
                              amount |-> amount, at |-> now])]
                     ELSE lifts
    /\ UNCHANGED <<requests, posts, now>>

-----------------------------------------------------------------------------
(* POST /admin/reset with mode demo, and the passage of time.            *)

\* Both tables are emptied in one transaction; ids are random and never reused.
DemoReset ==
  /\ requests' = [r \in Requests |->
       IF requests[r].status = "unused" THEN requests[r]
       ELSE [requests[r] EXCEPT !.status = "erased"]]
  /\ grants' = {}
  /\ UNCHANGED <<posts, lifts, now>>

Tick ==
  /\ now < MaxTime
  /\ now' = now + 1
  /\ UNCHANGED <<requests, grants, posts, lifts>>

-----------------------------------------------------------------------------

Next ==
  \/ \E r \in Requests, a \in Accounts, l \in Loans, n \in Amounts :
       RequestApproval(r, a, l, n)
  \/ \E r \in Requests, a \in Accounts, d \in Decisions, ok \in BOOLEAN :
       PreDecide(a, r, d, ok)
  \/ \E p \in posts : Decide(p)
  \/ \E a \in Accounts, l \in Loans, n \in Amounts, ok \in BOOLEAN :
       PreApproveLoan(a, l, n, ok)
  \/ DemoReset
  \/ Tick

Spec == Init /\ [][Next]_vars
-----------------------------------------------------------------------------
(* Properties.                                                             *)

\* The two tables tell one story: a pending grant belongs to an undecided
\* request, an active one to an approved request and a void one to a denied
\* request, whichever way concurrent decisions interleave; and an approval was
\* never recorded without the grant it turned on.
OutcomeGovernsGrant ==
  /\ \A g \in grants :
       /\ g.lifecycle = "pending" => requests[g.grant.request_id].status = "pending"
       /\ g.lifecycle = "active" => requests[g.grant.request_id].status = "approved"
       /\ g.lifecycle = "void" => /\ requests[g.grant.request_id].status = "denied"
                                 /\ g.grant.revoked_at # Null
  /\ \A r \in Requests : requests[r].status = "approved" =>
       \E g \in grants : g.grant.request_id = r /\ g.lifecycle = "active"

\* One approval, one grant: two Decide calls let through for one request, or a
\* Decide replayed before its outcome was recorded, mint once.
OneGrantPerRequest ==
  \A g, h \in grants : g.grant.request_id = h.grant.request_id => g = h

\* Whatever was recorded was recorded for a person other than the requester
\* whose authority covers the amount, although the store endpoint that writes
\* it checks neither: the check was /pre's, in an earlier step.
DecidedByAnotherWithAuthority ==
  \A r \in Requests : requests[r].status \in Decisions =>
    /\ Owner[requests[r].decided_by] # Owner[requests[r].requester_id]
    /\ requests[r].amount <= Clearance[Owner[requests[r].decided_by]]

\* An approval is spent at most once, also across lost answers, retries and a
\* reset between them.
SingleUse == \A r \in Requests : Len(lifts[r]) <= 1

\* Every over-authority call that was let through was the requester's, on the
\* resource approved, at or below the amount approved and above their own
\* authority, after the decision and before a lifetime had passed since.
LiftedAsApproved ==
  \A r \in Requests : \A i \in DOMAIN lifts[r] :
    LET lift == lifts[r][i]
    IN /\ lift.user = Owner[requests[r].requester_id]
       /\ lift.resource_id = requests[r].resource_id
       /\ lift.amount <= requests[r].amount
       /\ lift.amount > Clearance[lift.user]
       /\ requests[r].decided_at <= lift.at
       /\ lift.at < requests[r].decided_at + GrantTtl

\* What LiftedAsApproved permits is also had: while an approval is unused and its
\* grant's lifetime lasts, the approved call at or below the approved amount finds a
\* grant, under whichever spelling its requester comes this time and whatever
\* spent, void, expired or foreign rows lie before it.  Of a requester the roster
\* spells as the request did: grantFrom keeps the request's spelling.
ApprovalStands ==
  \A g \in grants, a \in Accounts, n \in Amounts :
    LET request == requests[g.grant.request_id] IN
    /\ request.status = "approved" /\ g.grant.uses_remaining = 1
    /\ now < g.grant.issued_at + GrantTtl
    /\ Owner[a] = request.requester_id /\ n <= request.amount
    => \E subject \in FindSubject(a) : Selected(subject, request.resource_id, n) # {}

\* A decision is final: once approved or denied, a request keeps its outcome
\* and its decider until it is erased.
DecisionIsFinal ==
  [][\A r \in Requests : requests[r].status \in Decisions =>
       \/ requests'[r] = requests[r]
       \/ requests'[r].status = "erased"]_vars

-----------------------------------------------------------------------------
(* What the properties above rest on: with them, an inductive invariant.   *)

\* A row carries what its status says it carries.
RequestsComplete ==
  \A r \in Requests :
    /\ requests[r].status # "unused" =>
         /\ requests[r].requester_id \in Accounts
         /\ requests[r].resource_id \in Loans
         /\ requests[r].amount \in Amounts
    /\ requests[r].status \in Decisions =>
         /\ requests[r].decided_by \in Accounts
         /\ requests[r].decided_at \in Nat
         /\ requests[r].decided_at <= now

\* A grant is the stored request's, and older than the decision it waits for.
GrantsAsRequested ==
  \A g \in grants :
    LET request == requests[g.grant.request_id]
    IN /\ request.status \in {"pending", "approved", "denied"}
       /\ g.grant.subject_id = request.requester_id
       /\ g.grant.resource_id = request.resource_id
       /\ g.grant.pinned_inputs["loan_id"] = request.resource_id
       /\ g.grant.ceiling.max = request.amount
       /\ g.grant.expires_at = g.grant.issued_at + GrantTtl
       /\ g.grant.issued_at <= now
       /\ request.status = "approved" => g.grant.issued_at <= request.decided_at

\* A grant is of two people, and only one that was voided is revoked.
GrantsStand ==
  \A g \in grants :
    /\ g.grant.granted_by # g.grant.subject_id
    /\ g.lifecycle # "void" => g.grant.revoked_at = Null

\* A decision on its way to the store was /pre's to allow, and an approval on
\* its way has its grant waiting.
PostsAuthorised ==
  \A p \in posts :
    LET request == requests[p.request_id]
    IN /\ request.status # "unused"
       /\ Owner[p.decided_by] # Owner[request.requester_id]
       /\ request.amount <= Clearance[Owner[p.decided_by]]
       /\ p.decision = "approved" /\ request.status = "pending" =>
            \E g \in grants : g.grant.request_id = p.request_id
                             /\ g.lifecycle = "pending"

\* A call let through is a use gone from the one grant it came from.
LiftsSpendTheGrant ==
  \A r \in Requests : lifts[r] # <<>> =>
    /\ Len(lifts[r]) = 1
    /\ requests[r].status \in {"approved", "erased"}
    /\ requests[r].decided_at \in Nat
    /\ \A g \in grants : g.grant.request_id = r => g.grant.uses_remaining = 0

IInv ==
  /\ TypeOK
  /\ RequestsComplete
  /\ GrantsAsRequested
  /\ OutcomeGovernsGrant
  /\ OneGrantPerRequest
  /\ PostsAuthorised
  /\ DecidedByAnotherWithAuthority
  /\ LiftsSpendTheGrant
  /\ LiftedAsApproved

-----------------------------------------------------------------------------
(* The abstract specification.                                             *)

Authority == INSTANCE ApprovalAuthority WITH requests <- requests, lifts <- lifts, now <- now

\* The flow implements its abstract promise: every step is one of Authority's
\* steps on requests, lifts and the clock, or leaves the three alone.
ImplementsAuthority == Authority!Spec

=============================================================================
