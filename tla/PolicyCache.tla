----------------------------- MODULE PolicyCache ----------------------------
(***************************************************************************)
(* The policy apps/hooks serves from memory, and the rows it came from:    *)
(* governance.db, the poller that follows its revision, the comparison     *)
(* with the shipped fixture, the reset, and the recovery a boot runs.      *)
(*                                                                         *)
(* The process is synchronous, but the file is not its own: a sqlite3      *)
(* shell commits between any two of its statements.  So a reload is as     *)
(* many steps as it has transactions, one SELECT per table compared and    *)
(* one transaction that reads the policy.  A policy is what each table     *)
(* holds; the constants say which ones parse and which compile.            *)
(***************************************************************************)
EXTENDS Naturals

CONSTANTS
  None,             \* no revision, no policy in memory
  Tables,           \* POLICY_TABLES
  Contents,         \* what one table may hold
  Fixture,          \* the rows shipped in this image
  Parsing,          \* the policies whose rows all conform to the schema
  Compiling,        \* the policies compilePolicy and compileOutputPolicy accept
  MaxPollFailures,  \* maxPollFailures
  MaxEdits,         \* bound: commits from a shell, and resets
  MaxFaults,        \* bound: reads and writes that fail for a reason of their own
  MaxRestarts       \* bound: times the process is started again

Policies == [Tables -> Contents]

ASSUME PolicyAssumption ==
  /\ Tables # {}
  /\ Fixture \in Policies
  /\ Compiling \subseteq Parsing /\ Parsing \subseteq Policies
  /\ None \notin Policies \cup Nat

ASSUME BoundsAssumption ==
  /\ MaxPollFailures \in Nat \ {0}
  /\ {MaxEdits, MaxFaults, MaxRestarts} \subseteq Nat

VARIABLES
  db,            \* governance.db: policy_revision and the rows of the tables
  cache,         \* CacheState: what current() returns
  drift,         \* the tables that differ from the fixture; {} is the code's null
  pollFailures,  \* consecutive ticks that could not read the revision
  proc,          \* where the process is, who called reload, and its digest so far
  staleTicks,    \* observed: ticks spent serving rows that are no longer there
  disturbed,     \* observed: an edit or a fault since the process started
  edits, faults, restarts

vars == <<db, cache, drift, pollFailures, proc, staleTicks, disturbed,
          edits, faults, restarts>>

Cold == [status |-> "cold", revision |-> None, policy |-> None]

\* A failed cache holds no policy: it is not the last good one.
FailedAt(revision) ==
  [status |-> "failed", revision |-> revision, policy |-> None]

TypeOK ==
  /\ db \in [revision : Nat, policy : Policies]
  /\ \/ cache = Cold
     \/ cache \in [status : {"failed"}, revision : Nat \cup {None}, policy : {None}]
     \/ cache \in [status : {"ready"}, revision : Nat, policy : Policies]
  /\ drift \subseteq Tables
  /\ pollFailures \in Nat
  /\ proc \in [at : {"comparing", "reading", "recovering", "running"},
               caller : {"start", "recover", "reset", "poll"},
               left : SUBSET Tables, differs : SUBSET Tables]
  /\ staleTicks \in Nat
  /\ disturbed \in BOOLEAN
  /\ edits \in 0..MaxEdits /\ faults \in 0..MaxFaults /\ restarts \in 0..MaxRestarts

\* reload, on its first statement.
Reloading(caller) ==
  [at |-> "comparing", caller |-> caller, left |-> Tables, differs |-> {}]

\* The disk is whatever an earlier image and its stage edits left on it.
Init ==
  /\ db \in [revision : {1}, policy : Policies]
  /\ cache = Cold
  /\ drift = {}
  /\ pollFailures = 0
  /\ proc = Reloading("start")
  /\ staleTicks = 0
  /\ disturbed = FALSE
  /\ edits = 0 /\ faults = 0 /\ restarts = 0

-----------------------------------------------------------------------------
(* governance.db                                                           *)

Differing(policy) == {t \in Tables : policy[t] # Fixture[t]}

\* Mutant of Bumped: replacing the tables drops their triggers with them.
BumpedUnlessReplaced(policy) == IF policy = Fixture THEN db.revision ELSE db.revision + 1

\* Every row written bumps the revision, in the transaction that writes it.
Bumped(policy) == db.revision + 1

Commit(policy) == db' = [revision |-> Bumped(policy), policy |-> policy]

\* An operator's sqlite3, from another process, at any moment.
Edit(policy) ==
  /\ edits < MaxEdits
  /\ Commit(policy)
  /\ edits' = edits + 1
  /\ disturbed' = TRUE
  /\ UNCHANGED <<cache, drift, pollFailures, proc, staleTicks, faults, restarts>>

Fault ==
  /\ faults < MaxFaults
  /\ faults' = faults + 1
  /\ disturbed' = TRUE

-----------------------------------------------------------------------------
(* reload: checkDrift, then readPolicy and the compilers.                  *)

\* digestPolicy: one SELECT per table, each its own transaction.
CompareTable(t) ==
  /\ proc.at = "comparing" /\ t \in proc.left
  /\ LET differs == IF t \in Differing(db.policy)
                    THEN proc.differs \cup {t} ELSE proc.differs
     IN IF proc.left = {t}
        THEN /\ proc' = [proc EXCEPT !.at = "reading", !.left = {}, !.differs = {}]
             /\ drift' = differs
        ELSE /\ proc' = [proc EXCEPT !.left = @ \ {t}, !.differs = differs]
             /\ UNCHANGED drift
  /\ UNCHANGED <<db, cache, pollFailures, staleTicks, disturbed, edits, faults, restarts>>

\* The comparison throws, which is nobody's failure: drift is null.
CompareThrows ==
  /\ proc.at = "comparing"
  /\ Fault
  /\ drift' = {}
  /\ proc' = [proc EXCEPT !.at = "reading", !.left = {}, !.differs = {}]
  /\ UNCHANGED <<db, cache, pollFailures, staleTicks, edits, restarts>>

\* Where reload returns to.
Returned ==
  [proc EXCEPT !.at = IF proc.caller = "start" THEN "recovering" ELSE "running"]

\* Mutant of Loaded: a policy that does not load leaves the last good one.
LoadedOrLastGood ==
  IF db.policy \in Compiling
  THEN [status |-> "ready", revision |-> db.revision, policy |-> db.policy]
  ELSE IF cache.status = "ready" THEN cache
       ELSE FailedAt(IF db.policy \in Parsing THEN db.revision ELSE None)

\* The state reload assigns when its transaction could be read.  A row that
\* does not parse throws before the revision is known; one that does not
\* compile, after.
Loaded ==
  IF db.policy \in Compiling
  THEN [status |-> "ready", revision |-> db.revision, policy |-> db.policy]
  ELSE FailedAt(IF db.policy \in Parsing THEN db.revision ELSE None)

ReadPolicy ==
  /\ proc.at = "reading"
  /\ cache' = Loaded
  /\ staleTicks' = 0
  /\ proc' = Returned
  /\ UNCHANGED <<db, drift, pollFailures, disturbed, edits, faults, restarts>>

ReadPolicyThrows ==
  /\ proc.at = "reading"
  /\ Fault
  /\ cache' = FailedAt(None)
  /\ staleTicks' = 0
  /\ proc' = Returned
  /\ UNCHANGED <<db, drift, pollFailures, edits, restarts>>

-----------------------------------------------------------------------------
(* The poller.                                                             *)

\* The tick reads the revision and reloads when it moved.
Poll ==
  /\ proc.at = "running"
  /\ pollFailures' = 0
  /\ proc' = IF db.revision # cache.revision THEN Reloading("poll") ELSE proc
  /\ UNCHANGED <<db, cache, drift, staleTicks, disturbed, edits, faults, restarts>>

\* Mutant of GivesUp: one tick later.
GivesUpLate(failures) == failures > MaxPollFailures

\* The revision unreadable this often is an edit that would go unnoticed.
GivesUp(failures) == failures >= MaxPollFailures

Stale == cache.status = "ready" /\ cache.revision # db.revision

PollThrows ==
  /\ proc.at = "running"
  /\ Fault
  /\ pollFailures' = pollFailures + 1
  /\ cache' = IF GivesUp(pollFailures') /\ cache.status # "failed"
              THEN FailedAt(None) ELSE cache
  /\ staleTicks' = IF Stale THEN staleTicks + 1 ELSE 0
  /\ UNCHANGED <<db, drift, proc, edits, restarts>>

-----------------------------------------------------------------------------
(* POST /admin/reset, and a boot's recovery.                               *)

\* replacePolicy in one transaction, then a reload before the response.
Reset ==
  /\ proc.at = "running"
  /\ edits < MaxEdits
  /\ Commit(Fixture)
  /\ edits' = edits + 1
  /\ proc' = Reloading("reset")
  /\ UNCHANGED <<cache, drift, pollFailures, staleTicks, disturbed, faults, restarts>>

\* Mutants of Recoverable: any drift; only rows that parse.
RecoverableByDrift == drift # {}
RecoverableWhenParsed == cache.status = "failed" /\ cache.revision # None /\ drift # {}

\* recoverStalePolicy replaces the tables when the load failed and the rows
\* were not the fixture's.
Recoverable == cache.status = "failed" /\ drift # {}

RecoverReplaces ==
  /\ proc.at = "recovering" /\ Recoverable
  /\ Commit(Fixture)
  /\ proc' = Reloading("recover")
  /\ UNCHANGED <<cache, drift, pollFailures, staleTicks, disturbed, edits, faults, restarts>>

RecoverThrows ==
  /\ proc.at = "recovering" /\ Recoverable
  /\ Fault
  /\ proc' = [proc EXCEPT !.at = "running"]
  /\ UNCHANGED <<db, cache, drift, pollFailures, staleTicks, edits, restarts>>

RecoverNothing ==
  /\ proc.at = "recovering" /\ ~Recoverable
  /\ proc' = [proc EXCEPT !.at = "running"]
  /\ UNCHANGED <<db, cache, drift, pollFailures, staleTicks, disturbed,
                 edits, faults, restarts>>

\* The process dies at any step and is started again on the same disk.
Restart ==
  /\ restarts < MaxRestarts
  /\ restarts' = restarts + 1
  /\ cache' = Cold
  /\ drift' = {}
  /\ pollFailures' = 0
  /\ proc' = Reloading("start")
  /\ staleTicks' = 0
  /\ disturbed' = FALSE
  /\ UNCHANGED <<db, edits, faults>>

-----------------------------------------------------------------------------

Next ==
  \/ \E p \in Policies : Edit(p)
  \/ \E t \in Tables : CompareTable(t)
  \/ CompareThrows
  \/ ReadPolicy \/ ReadPolicyThrows
  \/ Poll \/ PollThrows
  \/ Reset
  \/ RecoverReplaces \/ RecoverThrows \/ RecoverNothing
  \/ Restart

\* Synchronous code goes on by itself, and the interval timer ticks.  Edits,
\* resets, faults and restarts are nobody's obligation.
Fairness ==
  /\ WF_vars(\E t \in Tables : CompareTable(t))
  /\ WF_vars(ReadPolicy)
  /\ WF_vars(Poll)
  /\ WF_vars(RecoverReplaces) /\ WF_vars(RecoverNothing)

Spec == Init /\ [][Next]_vars /\ Fairness
-----------------------------------------------------------------------------
(* Properties.                                                             *)

\* The revision is enough to compare: a ready cache at the database's revision
\* serves the database's rows, and only rows that compile are ever served.
ServesTheRevision ==
  cache.status = "ready" =>
    /\ cache.policy \in Compiling
    /\ cache.revision <= db.revision
    /\ cache.revision = db.revision => cache.policy = db.policy

\* An edit is not missed for long: fewer than MaxPollFailures ticks pass while
\* hooks are served rows that are no longer on disk.
BoundedStaleness == Stale => staleTicks < MaxPollFailures

\* When edits and faults stop, what compiles is served at its revision, and
\* what does not compile is refused.
Settles ==
  <>[](IF db.policy \in Compiling
       THEN cache.status = "ready" /\ cache.revision = db.revision
       ELSE cache.status = "failed")

\* Left alone, a boot over any rows this image knows how to replace opens the
\* port with a policy to serve.
BootRecovers ==
  [][proc.at # "running" /\ proc'.at = "running"
       /\ proc.caller \in {"start", "recover"}
       /\ ~disturbed' /\ Fixture \in Compiling
     => cache'.status = "ready"]_vars

\* Left alone, a boot replaces only rows that do not compile and are not the
\* fixture's: a stage edit that works survives, and no boot rewrites the
\* fixture over itself.
RecoveryIsNarrow ==
  [][proc.at = "recovering" /\ db' # db /\ edits' = edits /\ ~disturbed
     => db.policy \notin Compiling \cup {Fixture}]_vars

-----------------------------------------------------------------------------
(* The inductive invariant the proofs need.                                *)

\* Ticks spent on rows that are gone are ticks that failed, and none are spent
\* before the process polls.
StaleTicksFailed ==
  cache.status = "ready" =>
    /\ staleTicks < MaxPollFailures
    /\ ~Stale => staleTicks = 0
    /\ proc.at = "recovering" => staleTicks = 0
    /\ proc.at = "running" => staleTicks <= pollFailures

\* The digest of a reload nothing interrupted says what differs on disk, and a
\* boot nothing disturbed stands where it left off.
BootUndisturbed ==
  ~disturbed =>
    /\ proc.at = "comparing" =>
         proc.differs = Differing(db.policy) \ proc.left
    /\ proc.at = "reading" => drift = Differing(db.policy)
    /\ proc.at = "recovering" =>
         drift = Differing(db.policy) /\ cache = Loaded
    /\ proc.caller = "recover" /\ proc.at \in {"comparing", "reading"} =>
         db.policy = Fixture

ReloadsAreCalled ==
  /\ proc.at = "recovering" => proc.caller = "start"
  /\ proc.at = "comparing" => proc.left # {}
  /\ proc.at \in {"comparing", "reading"} /\ proc.caller = "start" => cache = Cold

IInv ==
  /\ TypeOK
  /\ ServesTheRevision
  /\ StaleTicksFailed
  /\ BootUndisturbed
  /\ ReloadsAreCalled

=============================================================================
