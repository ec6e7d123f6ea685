---------------------------- MODULE Policy_proofs ----------------------------
(***************************************************************************)
(* The policy in memory and what it decides.  First the safety of the      *)
(* cache for every set of tables and contents, whichever policies parse    *)
(* and compile, and every poll limit.                                      *)
(*                                                                         *)
(* Then what a compiled policy decides, for every table, rule, catalogue   *)
(* and call: the order of the rules (Place numbers the enabled rows        *)
(* without gap or repetition, so Sorted lists each once), what compiling   *)
(* checked of each rule, and what that leaves true of a call.              *)
(***************************************************************************)
EXTENDS PolicyCache, PolicyDecisions, FiniteSetTheorems, WellFoundedInduction, TLAPS

-----------------------------------------------------------------------------
(* The cache.                                                              *)

Ready == [status : {"ready"}, revision : Nat, policy : Policies]
Failed == [status : {"failed"}, revision : Nat \cup {None}, policy : {None}]

\* A count that is below its bound, one more, and none, are within it.
LEMMA CountsStayBounded ==
  ASSUME NEW bound \in {MaxEdits, MaxFaults, MaxRestarts}
  PROVE  /\ 0 \in 0..bound
         /\ \A n \in 0..bound : n < bound => n + 1 \in 0..bound
  BY BoundsAssumption

\* What a reload leaves in the cache.
LEMMA LoadedIsTyped ==
  ASSUME TypeOK
  PROVE  /\ Loaded \in Ready \cup Failed
         /\ Loaded.status = "ready" <=> db.policy \in Compiling
         /\ Loaded.status = "ready" =>
              Loaded.revision = db.revision /\ Loaded.policy = db.policy
  BY PolicyAssumption DEF TypeOK, Loaded, FailedAt, Ready, Failed

\* A failed cache serves nothing.
LEMMA FailedIsTyped ==
  ASSUME NEW r \in Nat \cup {None}
  PROVE  FailedAt(r) \in Failed /\ FailedAt(r).status # "ready"
  BY DEF FailedAt, Failed

\* No table differs only when every row is the fixture's.
LEMMA NoDifferenceIsTheFixture ==
  ASSUME NEW p \in Policies
  PROVE  Differing(p) = {} <=> p = Fixture
  BY PolicyAssumption DEF Policies, Differing

\* A commit is a later revision.
LEMMA CommitAdvances ==
  ASSUME TypeOK, NEW p \in Policies, Commit(p)
  PROVE  /\ db' \in [revision : Nat, policy : Policies]
         /\ db'.revision = db.revision + 1
         /\ db'.policy = p
  BY DEF TypeOK, Commit, Bumped

\* A reload starts with every table left to compare.
LEMMA ReloadingIsTyped ==
  ASSUME NEW c \in {"start", "recover", "reset", "poll"}
  PROVE  /\ Reloading(c) \in [at : {"comparing", "reading", "recovering", "running"},
                              caller : {"start", "recover", "reset", "poll"},
                              left : SUBSET Tables, differs : SUBSET Tables]
         /\ Reloading(c).at = "comparing" /\ Reloading(c).caller = c
         /\ Reloading(c).left = Tables /\ Reloading(c).differs = {}
         /\ \A p : Differing(p) \ Reloading(c).left = {}
  BY DEF Reloading, Differing

-----------------------------------------------------------------------------

LEMMA InitIInv == Init => IInv
<1>. SUFFICES ASSUME Init PROVE IInv
  OBVIOUS
<1>. USE DEF Init
<1>1. TypeOK
  <2>1. edits \in 0..MaxEdits /\ faults \in 0..MaxFaults /\ restarts \in 0..MaxRestarts
    BY CountsStayBounded
  <2>2. db \in [revision : Nat, policy : Policies]
    OBVIOUS
  <2>. QED
    BY <2>1, <2>2, ReloadingIsTyped DEF TypeOK
<1>2. cache.status = "cold" /\ proc.at = "comparing" /\ proc.caller = "start"
  BY DEF Cold, Reloading
<1>3. proc.differs = Differing(db.policy) \ proc.left /\ proc.left = Tables
  BY DEF Reloading, Differing
<1>. QED
  BY <1>1, <1>2, <1>3, PolicyAssumption
  DEF IInv, ServesTheRevision, StaleTicksFailed, BootUndisturbed, ReloadsAreCalled

\* A commit by another process moves the database past the cache.
LEMMA EditIInv == ASSUME IInv, NEW p \in Policies, Edit(p) PROVE IInv'
<1>. USE DEF IInv, Edit
<1>1. /\ db' \in [revision : Nat, policy : Policies]
      /\ db'.revision = db.revision + 1
  BY CommitAdvances
<1>2. TypeOK'
  BY <1>1, BoundsAssumption DEF TypeOK
<1>3. cache.status = "ready" => cache.revision < db'.revision
  BY <1>1 DEF TypeOK, ServesTheRevision, Cold
<1>4. ServesTheRevision'
  BY <1>1, <1>3 DEF ServesTheRevision, TypeOK, Cold
<1>5. StaleTicksFailed'
  BY <1>1, <1>3 DEF StaleTicksFailed, Stale, TypeOK, Cold
<1>6. BootUndisturbed' /\ ReloadsAreCalled'
  BY DEF BootUndisturbed, ReloadsAreCalled, TypeOK
<1>. QED
  BY <1>2, <1>4, <1>5, <1>6

LEMMA CompareTableIInv == ASSUME IInv, NEW t \in Tables, CompareTable(t) PROVE IInv'
<1>. USE DEF IInv
<1>. DEFINE differs == IF t \in Differing(db.policy)
                       THEN proc.differs \cup {t} ELSE proc.differs
<1>1. differs \subseteq Tables
  BY DEF TypeOK
<1>. HIDE DEF differs
<1>2. /\ proc.at = "comparing" /\ t \in proc.left
      /\ \/ /\ proc.left = {t} /\ drift' = differs
            /\ proc' = [proc EXCEPT !.at = "reading", !.left = {}, !.differs = {}]
         \/ /\ proc.left # {t} /\ drift' = drift
            /\ proc' = [proc EXCEPT !.left = @ \ {t}, !.differs = differs]
      /\ UNCHANGED <<db, cache, pollFailures, staleTicks, disturbed, edits, faults, restarts>>
  BY DEF CompareTable, differs
<1>3. /\ proc' \in [at : {"comparing", "reading", "recovering", "running"},
                   caller : {"start", "recover", "reset", "poll"},
                   left : SUBSET Tables, differs : SUBSET Tables]
      /\ proc'.at \in {"comparing", "reading"}
      /\ drift' \subseteq Tables
  BY <1>1, <1>2 DEF TypeOK
<1>4. TypeOK'
  BY <1>2, <1>3 DEF TypeOK
<1>5. ServesTheRevision'
  BY <1>2 DEF ServesTheRevision
<1>6. StaleTicksFailed'
  BY <1>2, <1>3 DEF StaleTicksFailed, Stale
<1>. USE DEF CompareTable, differs
<1>7. ~disturbed => differs = Differing(db.policy) \ (proc.left \ {t})
  BY DEF BootUndisturbed, TypeOK
<1>8. BootUndisturbed'
  <2>1. CASE proc.left = {t}
    BY <1>7, <2>1 DEF BootUndisturbed, TypeOK
  <2>2. CASE proc.left # {t}
    BY <1>7, <2>2 DEF BootUndisturbed, TypeOK, Differing
  <2>. QED
    BY <2>1, <2>2
<1>9. ReloadsAreCalled'
  <2>1. CASE proc.left = {t}
    BY <2>1 DEF ReloadsAreCalled, TypeOK
  <2>2. CASE proc.left # {t}
    <3>1. proc.left \ {t} # {}
      BY <2>2
    <3>. QED
      BY <2>2, <3>1 DEF ReloadsAreCalled, TypeOK
  <2>. QED
    BY <2>1, <2>2
<1>. QED
  BY <1>4, <1>5, <1>6, <1>8, <1>9

LEMMA CompareThrowsIInv == ASSUME IInv, CompareThrows PROVE IInv'
<1>. USE DEF IInv, CompareThrows, Fault
<1>1. TypeOK'
  <2>1. faults' \in 0..MaxFaults
    BY CountsStayBounded DEF TypeOK
  <2>. QED
    BY <2>1 DEF TypeOK
<1>2. ServesTheRevision' /\ StaleTicksFailed'
  BY DEF ServesTheRevision, StaleTicksFailed, Stale, TypeOK
<1>3. BootUndisturbed' /\ ReloadsAreCalled'
  BY DEF BootUndisturbed, ReloadsAreCalled, TypeOK
<1>. QED
  BY <1>1, <1>2, <1>3

\* One transaction gives the revision and its rows.
LEMMA ReadPolicyIInv == ASSUME IInv, ReadPolicy PROVE IInv'
<1>. USE DEF IInv, ReadPolicy
<1>1. proc' = [proc EXCEPT !.at = proc'.at] /\ proc'.at \in {"recovering", "running"}
  BY DEF Returned, TypeOK
<1>2. Loaded \in Ready \cup Failed
  BY LoadedIsTyped
<1>3. TypeOK'
  BY <1>1, <1>2 DEF TypeOK, Ready, Failed
<1>4. ServesTheRevision'
  BY LoadedIsTyped DEF ServesTheRevision, TypeOK
<1>5. StaleTicksFailed'
  BY LoadedIsTyped, BoundsAssumption DEF StaleTicksFailed, Stale, TypeOK
<1>6. BootUndisturbed'
  BY <1>1 DEF BootUndisturbed, Loaded, TypeOK
<1>7. ReloadsAreCalled'
  BY DEF ReloadsAreCalled, Returned, TypeOK
<1>. QED
  BY <1>3, <1>4, <1>5, <1>6, <1>7

LEMMA ReadPolicyThrowsIInv == ASSUME IInv, ReadPolicyThrows PROVE IInv'
<1>. USE DEF IInv, ReadPolicyThrows, Fault
<1>1. FailedAt(None) \in Failed /\ FailedAt(None).status # "ready"
  BY FailedIsTyped
<1>2. proc' = [proc EXCEPT !.at = proc'.at] /\ proc'.at \in {"recovering", "running"}
  BY DEF Returned, TypeOK
<1>3. TypeOK'
  BY <1>1, <1>2, BoundsAssumption DEF TypeOK, Failed
<1>4. ServesTheRevision' /\ StaleTicksFailed' /\ BootUndisturbed'
  BY <1>1 DEF ServesTheRevision, StaleTicksFailed, BootUndisturbed
<1>5. ReloadsAreCalled'
  BY DEF ReloadsAreCalled, Returned, TypeOK
<1>. QED
  BY <1>3, <1>4, <1>5

LEMMA PollIInv == ASSUME IInv, Poll PROVE IInv'
<1>. USE DEF IInv, Poll
<1>1. CASE db.revision = cache.revision
  <2>1. TypeOK'
    BY <1>1 DEF TypeOK
  <2>2. StaleTicksFailed'
    BY <1>1 DEF StaleTicksFailed, Stale, TypeOK
  <2>3. ServesTheRevision' /\ BootUndisturbed' /\ ReloadsAreCalled'
    BY <1>1 DEF ServesTheRevision, BootUndisturbed, ReloadsAreCalled, Differing, Loaded, FailedAt
  <2>. QED
    BY <2>1, <2>2, <2>3
<1>2. CASE db.revision # cache.revision
  <2>1. proc' = Reloading("poll")
    BY <1>2
  <2>2. TypeOK'
    BY <2>1, ReloadingIsTyped DEF TypeOK
  <2>3. ServesTheRevision' /\ StaleTicksFailed'
    BY <2>1, ReloadingIsTyped DEF ServesTheRevision, StaleTicksFailed, Stale
  <2>4. BootUndisturbed' /\ ReloadsAreCalled'
    BY <2>1, ReloadingIsTyped, PolicyAssumption DEF BootUndisturbed, ReloadsAreCalled
  <2>. QED
    BY <2>2, <2>3, <2>4
<1>. QED
  BY <1>1, <1>2

\* A tick that fails adds one to both counts, or ends the serving.
LEMMA PollThrowsIInv == ASSUME IInv, PollThrows PROVE IInv'
<1>. USE DEF IInv, PollThrows, Fault
<1>1. FailedAt(None) \in Failed /\ FailedAt(None).status # "ready"
  BY FailedIsTyped
<1>2. TypeOK'
  BY <1>1, BoundsAssumption DEF TypeOK, Failed
<1>3. CASE cache' = FailedAt(None)
  BY <1>1, <1>2, <1>3 DEF ServesTheRevision, StaleTicksFailed, BootUndisturbed, ReloadsAreCalled
<1>4. CASE cache' = cache
  <2>1. cache.status = "ready" => pollFailures + 1 < MaxPollFailures
    <3>1. cache.status = "ready" => ~GivesUp(pollFailures')
      BY <1>1, <1>4
    <3>. QED
      BY <3>1, BoundsAssumption DEF GivesUp, TypeOK
  <2>2. StaleTicksFailed'
    BY <1>4, <2>1, BoundsAssumption DEF StaleTicksFailed, Stale, TypeOK
  <2>3. ServesTheRevision' /\ BootUndisturbed' /\ ReloadsAreCalled'
    BY <1>4 DEF ServesTheRevision, BootUndisturbed, ReloadsAreCalled
  <2>. QED
    BY <1>2, <2>2, <2>3
<1>. QED
  BY <1>3, <1>4

\* The two replacements: later revision, the fixture's rows, a reload.
LEMMA ReplacedIInv ==
  ASSUME IInv, Commit(Fixture), NEW c \in {"reset", "recover"}, proc' = Reloading(c),
         edits' \in 0..MaxEdits,
         UNCHANGED <<cache, drift, pollFailures, staleTicks, disturbed, faults, restarts>>
  PROVE  IInv'
<1>. USE DEF IInv
<1>1. /\ db' \in [revision : Nat, policy : Policies]
      /\ db'.revision = db.revision + 1
      /\ db'.policy = Fixture
  BY CommitAdvances, PolicyAssumption
<1>2. TypeOK'
  BY <1>1, ReloadingIsTyped DEF TypeOK
<1>3. cache.status = "ready" => cache.revision < db'.revision
  BY <1>1 DEF TypeOK, ServesTheRevision, Cold
<1>4. ServesTheRevision'
  BY <1>1, <1>3 DEF ServesTheRevision, TypeOK, Cold
<1>5. StaleTicksFailed'
  BY <1>1, <1>3, ReloadingIsTyped DEF StaleTicksFailed, Stale, TypeOK, Cold
<1>6. BootUndisturbed'
  BY <1>1, ReloadingIsTyped DEF BootUndisturbed
<1>7. ReloadsAreCalled'
  BY ReloadingIsTyped, PolicyAssumption DEF ReloadsAreCalled
<1>. QED
  BY <1>2, <1>4, <1>5, <1>6, <1>7

LEMMA RecoverThrowsIInv == ASSUME IInv, RecoverThrows PROVE IInv'
<1>. USE DEF IInv, RecoverThrows, Fault
<1>1. TypeOK'
  <2>1. faults' \in 0..MaxFaults
    BY CountsStayBounded DEF TypeOK
  <2>. QED
    BY <2>1 DEF TypeOK
<1>2. ServesTheRevision' /\ StaleTicksFailed'
  BY DEF ServesTheRevision, StaleTicksFailed, Stale, TypeOK
<1>3. BootUndisturbed' /\ ReloadsAreCalled'
  BY DEF BootUndisturbed, ReloadsAreCalled, TypeOK
<1>. QED
  BY <1>1, <1>2, <1>3

LEMMA RecoverNothingIInv == ASSUME IInv, RecoverNothing PROVE IInv'
<1>. USE DEF IInv, RecoverNothing
<1>1. TypeOK'
  BY DEF TypeOK
<1>2. ServesTheRevision' /\ StaleTicksFailed'
  BY DEF ServesTheRevision, StaleTicksFailed, Stale, TypeOK
<1>3. BootUndisturbed' /\ ReloadsAreCalled'
  BY DEF BootUndisturbed, ReloadsAreCalled, TypeOK
<1>. QED
  BY <1>1, <1>2, <1>3

LEMMA RestartIInv == ASSUME IInv, Restart PROVE IInv'
<1>. USE DEF IInv, Restart
<1>1. TypeOK'
  <2>1. restarts' \in 0..MaxRestarts
    BY CountsStayBounded DEF TypeOK
  <2>. QED
    BY <2>1, ReloadingIsTyped DEF TypeOK
<1>2. cache'.status = "cold"
  BY DEF Cold
<1>3. ServesTheRevision' /\ StaleTicksFailed'
  BY <1>2 DEF ServesTheRevision, StaleTicksFailed
<1>4. BootUndisturbed' /\ ReloadsAreCalled'
  BY ReloadingIsTyped, PolicyAssumption DEF BootUndisturbed, ReloadsAreCalled
<1>. QED
  BY <1>1, <1>3, <1>4

LEMMA StutterIInv == ASSUME IInv, UNCHANGED vars PROVE IInv'
  BY DEF IInv, vars, TypeOK, ServesTheRevision, StaleTicksFailed, Stale,
     BootUndisturbed, ReloadsAreCalled, Differing, Loaded, FailedAt

LEMMA Inductive == Spec => []IInv
<1>1. IInv /\ [Next]_vars => IInv'
  <2>. SUFFICES ASSUME IInv, [Next]_vars PROVE IInv'
    OBVIOUS
  <2>1. CASE \E p \in Policies : Edit(p)
    BY <2>1, EditIInv
  <2>2. CASE \E t \in Tables : CompareTable(t)
    BY <2>2, CompareTableIInv
  <2>3. CASE Reset
    BY <2>3, ReplacedIInv, BoundsAssumption DEF Reset, IInv, TypeOK
  <2>4. CASE RecoverReplaces
    BY <2>4, ReplacedIInv DEF RecoverReplaces, IInv, TypeOK
  <2>. QED
    BY <2>1, <2>2, <2>3, <2>4, CompareThrowsIInv, ReadPolicyIInv, ReadPolicyThrowsIInv,
       PollIInv, PollThrowsIInv, RecoverThrowsIInv, RecoverNothingIInv, RestartIInv, StutterIInv DEF Next
<1>. QED
  BY <1>1, InitIInv, PTL DEF Spec

-----------------------------------------------------------------------------

\* The cache, the poller and the recovery keep their types.
THEOREM TypeCorrect == Spec => []TypeOK
<1>1. IInv => TypeOK
  BY DEF IInv
<1>. QED
  BY <1>1, Inductive, PTL

\* A ready cache at the database's revision serves the database's rows, and
\* only rows that compile are served.
THEOREM RevisionIdentifiesPolicy == Spec => []ServesTheRevision
<1>1. IInv => ServesTheRevision
  BY DEF IInv
<1>. QED
  BY <1>1, Inductive, PTL

\* Fewer than maxPollFailures ticks pass over rows that are no longer on disk.
THEOREM StalenessIsBounded == Spec => []BoundedStaleness
<1>1. IInv => BoundedStaleness
  BY DEF IInv, StaleTicksFailed, BoundedStaleness, Stale
<1>. QED
  BY <1>1, Inductive, PTL

\* A boot left alone replaces only rows that neither compile nor are the
\* fixture's.
THEOREM NarrowRecovery == Spec => RecoveryIsNarrow
<1>1. ASSUME IInv, [Next]_vars,
             proc.at = "recovering", db' # db, edits' = edits, ~disturbed
      PROVE  db.policy \notin Compiling \cup {Fixture}
  <2>1. \A p : ~Edit(p)
    BY <1>1, BoundsAssumption DEF Edit, IInv, TypeOK
  <2>2. RecoverReplaces
    BY <1>1, <2>1 DEF Next, vars, CompareTable, CompareThrows, ReadPolicy,
       ReadPolicyThrows, Poll, PollThrows, Reset, RecoverThrows, RecoverNothing, Restart
  <2>3. cache.status = "failed" /\ drift # {}
    BY <2>2 DEF RecoverReplaces, Recoverable
  <2>4. drift = Differing(db.policy) /\ cache = Loaded
    BY <1>1 DEF IInv, BootUndisturbed
  <2>. QED
    BY <1>1, <2>3, <2>4, LoadedIsTyped, NoDifferenceIsTheFixture DEF IInv, TypeOK
<1>. QED
  BY <1>1, Inductive, PTL DEF Spec, RecoveryIsNarrow

\* A boot left alone opens the port with a policy to serve, whatever rows it
\* found, if its own fixture compiles.
THEOREM UndisturbedBoot == Spec => BootRecovers
<1>1. ASSUME IInv, [Next]_vars, proc.at # "running", proc'.at = "running",
             proc.caller \in {"start", "recover"}, ~disturbed', Fixture \in Compiling
      PROVE  cache'.status = "ready"
  <2>1. proc' # proc /\ disturbed' # TRUE
    BY <1>1
  <2>2. ~(\E p \in Policies : Edit(p)) /\ ~CompareThrows /\ ~ReadPolicyThrows
        /\ ~PollThrows /\ ~RecoverThrows
    BY <2>1 DEF Edit, CompareThrows, ReadPolicyThrows, PollThrows, RecoverThrows, Fault
  <2>3. ~Reset /\ ~RecoverReplaces /\ ~Restart /\ ~Poll
    BY <1>1 DEF Reset, RecoverReplaces, Restart, Poll, Reloading
  <2>4. \A t \in Tables : ~CompareTable(t)
    BY <1>1 DEF CompareTable, IInv, TypeOK
  <2>5. ReadPolicy \/ RecoverNothing
    BY <1>1, <2>1, <2>2, <2>3, <2>4 DEF Next, vars
  <2>6. CASE ReadPolicy
    <3>1. proc.caller = "recover" /\ ~disturbed
      BY <1>1, <2>6 DEF ReadPolicy, Returned, IInv, TypeOK
    <3>2. db.policy = Fixture
      BY <3>1, <2>6, <1>1 DEF ReadPolicy, IInv, BootUndisturbed
    <3>. QED
      BY <1>1, <2>6, <3>2, LoadedIsTyped DEF ReadPolicy, IInv
  <2>7. CASE RecoverNothing
    <3>1. drift = Differing(db.policy) /\ cache = Loaded
      BY <1>1, <2>7 DEF RecoverNothing, IInv, BootUndisturbed
    <3>2. cache.status = "ready" \/ drift = {}
      BY <1>1, <2>7, <3>1, LoadedIsTyped
      DEF RecoverNothing, Recoverable, Ready, Failed, IInv
    <3>3. drift = {} => cache.status = "ready"
      BY <1>1, <3>1, LoadedIsTyped, NoDifferenceIsTheFixture DEF IInv, TypeOK
    <3>. QED
      BY <2>7, <3>2, <3>3 DEF RecoverNothing
  <2>. QED
    BY <2>5, <2>6, <2>7
<1>2. IInv /\ [Next]_vars =>
        (proc.at # "running" /\ proc'.at = "running"
           /\ proc.caller \in {"start", "recover"}
           /\ ~disturbed' /\ Fixture \in Compiling
         => cache'.status = "ready")
  BY <1>1
<1>. QED
  BY <1>2, Inductive, PTL DEF Spec, BootRecovers

-----------------------------------------------------------------------------
(* The order of rules.                                                     *)

\* Rows whose priorities and ids can be compared, all that sorting needs.
Comparable(rows) ==
  /\ \E n \in Nat : DOMAIN rows = 1..n
  /\ \A i \in DOMAIN rows : rows[i].priority \in Int /\ rows[i].id \in Nat

Listed(rows, i) == {j \in Enabled(rows) : AtOrBefore(rows, j, i)}

\* A non-empty set of naturals has a least element.
LEMMA LeastExists ==
  ASSUME NEW T \in SUBSET Nat, T # {}
  PROVE  \E x \in T : \A y \in T : x <= y
<1>1. PICK x \in T : \A y \in T : <<y, x>> \notin OpToRel(<, Nat)
  BY NatLessThanWellFounded, WFMin
<1>2. \A y \in T : ~(y < x)
  BY <1>1 DEF OpToRel
<1>. QED
  BY <1>2

LEMMA RowsComparable ==
  ASSUME NEW rows \in Seq(Rules)
  PROVE  Comparable(rows)
BY TablesAssumption DEF Comparable

LEMMA TotalOrder ==
  ASSUME NEW rows, Comparable(rows),
         NEW i \in DOMAIN rows, NEW j \in DOMAIN rows, NEW k \in DOMAIN rows
  PROVE  /\ AtOrBefore(rows, i, i)
         /\ AtOrBefore(rows, i, j) \/ AtOrBefore(rows, j, i)
         /\ AtOrBefore(rows, i, j) /\ AtOrBefore(rows, j, i) => i = j
         /\ AtOrBefore(rows, i, j) /\ AtOrBefore(rows, j, k) => AtOrBefore(rows, i, k)
<1>1. i \in Int /\ j \in Int /\ k \in Int
  BY DEF Comparable
<1>2. /\ rows[i].priority \in Int /\ rows[j].priority \in Int /\ rows[k].priority \in Int
      /\ rows[i].id \in Int /\ rows[j].id \in Int /\ rows[k].id \in Int
  BY DEF Comparable
<1>. QED
  BY <1>1, <1>2 DEF AtOrBefore, Before

LEMMA EnabledFinite ==
  ASSUME NEW rows, Comparable(rows)
  PROVE  /\ IsFiniteSet(Enabled(rows)) /\ Cardinality(Enabled(rows)) \in Nat
         /\ Enabled(rows) \subseteq DOMAIN rows
<1>1. PICK n \in Nat : DOMAIN rows = 1..n
  BY DEF Comparable
<1>2. IsFiniteSet(1..n)
  <2>1. 1 \in Int /\ n \in Int
    OBVIOUS
  <2>. QED
    BY <2>1, FS_Interval
<1>3. Enabled(rows) \in SUBSET (1..n)
  BY <1>1 DEF Enabled
<1>4. IsFiniteSet(Enabled(rows))
  BY <1>2, <1>3, FS_Subset
<1>. QED
  BY <1>1, <1>3, <1>4, FS_CardinalityType

LEMMA PlaceInRange ==
  ASSUME NEW rows, Comparable(rows), NEW i \in Enabled(rows)
  PROVE  /\ IsFiniteSet(Listed(rows, i)) /\ Place(rows, i) = Cardinality(Listed(rows, i))
         /\ Place(rows, i) \in 1..Cardinality(Enabled(rows))
<1>. DEFINE E == Enabled(rows)
<1>1. IsFiniteSet(E) /\ Cardinality(E) \in Nat /\ E \subseteq DOMAIN rows
  BY EnabledFinite
<1>2. Listed(rows, i) \in SUBSET E /\ Place(rows, i) = Cardinality(Listed(rows, i))
  BY DEF Listed, Place
<1>3. i \in Listed(rows, i)
  BY <1>1, TotalOrder DEF Listed
<1>4. IsFiniteSet(Listed(rows, i)) /\ Cardinality(Listed(rows, i)) <= Cardinality(E)
  BY <1>1, <1>2, FS_Subset
<1>5. Cardinality(Listed(rows, i)) \in Nat /\ Cardinality(Listed(rows, i)) # 0
  BY <1>3, <1>4, FS_CardinalityType, FS_EmptySet
<1>. QED
  BY <1>1, <1>2, <1>4, <1>5

\* Rows further back have strictly greater places.
LEMMA PlaceIncreases ==
  ASSUME NEW rows, Comparable(rows), NEW i \in Enabled(rows), NEW j \in Enabled(rows),
         i # j, AtOrBefore(rows, i, j)
  PROVE  Place(rows, i) < Place(rows, j)
<1>1. i \in DOMAIN rows /\ j \in DOMAIN rows
  BY EnabledFinite
<1>2. Listed(rows, i) \in SUBSET Listed(rows, j)
  <2>1. SUFFICES ASSUME NEW k \in Listed(rows, i) PROVE k \in Listed(rows, j)
    OBVIOUS
  <2>2. k \in Enabled(rows) /\ k \in DOMAIN rows /\ AtOrBefore(rows, k, i)
    BY EnabledFinite DEF Listed
  <2>3. AtOrBefore(rows, k, j)
    BY <1>1, <2>2, TotalOrder
  <2>. QED
    BY <2>2, <2>3 DEF Listed
<1>3. j \in Listed(rows, j) /\ j \notin Listed(rows, i)
  BY <1>1, TotalOrder DEF Listed
<1>4. /\ IsFiniteSet(Listed(rows, i)) /\ IsFiniteSet(Listed(rows, j))
      /\ Place(rows, i) = Cardinality(Listed(rows, i))
      /\ Place(rows, j) = Cardinality(Listed(rows, j))
      /\ Place(rows, i) \in Int /\ Place(rows, j) \in Int
  BY PlaceInRange
<1>. QED
  BY <1>2, <1>3, <1>4, FS_Subset

\* Place is a bijection from the enabled rows onto the places.
LEMMA PlacesFilledOnce ==
  ASSUME NEW rows, Comparable(rows)
  PROVE  /\ \A i, j \in Enabled(rows) : Place(rows, i) = Place(rows, j) => i = j
         /\ \A k \in 1..Cardinality(Enabled(rows)) :
              \E i \in Enabled(rows) : Place(rows, i) = k
<1>. DEFINE E == Enabled(rows)
            N == Cardinality(E)
            place == [i \in E |-> Place(rows, i)]
<1>1. IsFiniteSet(E) /\ N \in Nat /\ E \subseteq DOMAIN rows
  BY EnabledFinite
<1>2. ASSUME NEW i \in E, NEW j \in E, Place(rows, i) = Place(rows, j) PROVE i = j
  <2>1. SUFFICES ASSUME i # j PROVE FALSE
    OBVIOUS
  <2>2. i \in DOMAIN rows /\ j \in DOMAIN rows
    BY <1>1
  <2>3. Place(rows, i) \in Int
    BY PlaceInRange
  <2>4. AtOrBefore(rows, i, j) \/ AtOrBefore(rows, j, i)
    BY <2>2, TotalOrder
  <2>5. Place(rows, i) < Place(rows, j) \/ Place(rows, j) < Place(rows, i)
    BY <2>1, <2>4, PlaceIncreases
  <2>. QED
    BY <1>2, <2>3, <2>5
<1>3. IsFiniteSet(1..N) /\ Cardinality(1..N) = N
  <2>1. 1 \in Int /\ N \in Int
    BY <1>1
  <2>2. IsFiniteSet(1..N) /\ Cardinality(1..N) = IF 1 > N THEN 0 ELSE N-1+1
    BY <2>1, FS_Interval
  <2>. QED
    BY <1>1, <2>2
<1>4. place \in Injection(E, 1..N)
  <2>1. place \in [E -> 1..N]
    BY PlaceInRange
  <2>. QED
    BY <1>2, <2>1 DEF Injection, IsInjective
<1>5. place \in Surjection(E, 1..N)
  <2>. HIDE DEF place
  <2>. QED
    BY <1>1, <1>3, <1>4, FS_Injection
<1>. QED
  BY <1>2, <1>5 DEF Surjection

\* Sorted lists exactly the enabled rows, and row i at Place(i).
LEMMA SortedListsTheRows ==
  ASSUME NEW rows, Comparable(rows)
  PROVE  /\ DOMAIN Sorted(rows) = 1..Cardinality(Enabled(rows))
         /\ \A i \in Enabled(rows) : /\ Place(rows, i) \in DOMAIN Sorted(rows)
                                     /\ Sorted(rows)[Place(rows, i)] = rows[i]
         /\ \A k \in DOMAIN Sorted(rows) :
              \E i \in Enabled(rows) : Place(rows, i) = k /\ Sorted(rows)[k] = rows[i]
<1>1. DOMAIN Sorted(rows) = 1..Cardinality(Enabled(rows))
  BY DEF Sorted
<1>2. ASSUME NEW i \in Enabled(rows)
      PROVE  /\ Place(rows, i) \in DOMAIN Sorted(rows)
             /\ Sorted(rows)[Place(rows, i)] = rows[i]
  <2>1. Place(rows, i) \in 1..Cardinality(Enabled(rows))
    BY PlaceInRange
  <2>2. (CHOOSE j \in Enabled(rows) : Place(rows, j) = Place(rows, i)) = i
    BY PlacesFilledOnce
  <2>. QED
    BY <1>1, <2>1, <2>2 DEF Sorted
<1>. QED
  BY <1>1, <1>2, PlacesFilledOnce

-----------------------------------------------------------------------------
(* What was compiled.                                                      *)

WellFormed ==
  /\ table = [catalogue |-> table.catalogue, rows |-> table.rows]
  /\ table.rows \in Seq(Rules)
  /\ loaded # Null => loaded.rows \in Seq(Rules)

PolicyCompiled ==
  policy # Null =>
    /\ loaded.rows \in Seq(Rules)
    /\ Compiles(loaded.catalogue, loaded.rows)
    /\ policy = CompilePolicy(loaded.catalogue, loaded.rows)

CompiledInv == WellFormed /\ PolicyCompiled

LEMMA CompiledInvariant == DecisionsSpec => []CompiledInv
<1>1. DecisionsInit => CompiledInv
  BY TablesAssumption DEF DecisionsInit, CompiledInv, WellFormed, PolicyCompiled
<1>2. CompiledInv /\ [DecisionsNext]_decisionsVars => CompiledInv'
  <2>. SUFFICES ASSUME CompiledInv, [DecisionsNext]_decisionsVars PROVE CompiledInv'
    OBVIOUS
  <2>. USE DEF CompiledInv
  <2>1. CASE Reorder
    <3>1. PICK i, j \in DOMAIN table.rows :
            table' = [table EXCEPT !.rows = [@ EXCEPT ![i] = table.rows[j],
                                                      ![j] = table.rows[i]]]
      BY <2>1 DEF Reorder
    <3>2. [table.rows EXCEPT ![i] = table.rows[j], ![j] = table.rows[i]] \in Seq(Rules)
      BY DEF WellFormed
    <3>3. table' = [catalogue |-> table.catalogue,
                    rows |-> [table.rows EXCEPT ![i] = table.rows[j],
                                                ![j] = table.rows[i]]]
      BY <3>1 DEF WellFormed
    <3>. QED
      BY <2>1, <3>2, <3>3 DEF Reorder, WellFormed, PolicyCompiled
  <2>2. CASE Load
    BY <2>2 DEF Load, WellFormed, PolicyCompiled
  <2>3. CASE UNCHANGED decisionsVars
    BY <2>3 DEF decisionsVars, WellFormed, PolicyCompiled
  <2>. QED
    BY <2>1, <2>2, <2>3 DEF DecisionsNext
<1>. QED
  BY <1>1, <1>2, PTL DEF DecisionsSpec

\* Every rule of a compiled policy passed the checks, and its id is its own.
LEMMA CompiledRules ==
  ASSUME NEW catalogue, NEW rows \in Seq(Rules), Compiles(catalogue, rows)
  PROVE  LET rules == CompilePolicy(catalogue, rows).rules
         IN /\ rules \in Seq(CompiledRule)
            /\ DOMAIN rules \subseteq Nat
            /\ \A k \in DOMAIN rules : RuleCompiles(rules[k], catalogue)
            /\ \A k, l \in DOMAIN rules : rules[k].id = rules[l].id => k = l
<1>. DEFINE rules == CompilePolicy(catalogue, rows).rules
            N == Cardinality(Enabled(rows))
<1>1. rules = Sorted(rows)
  BY DEF CompilePolicy
<1>2. Comparable(rows)
  BY RowsComparable
<1>3. N \in Nat /\ DOMAIN rules = 1..N
  BY <1>1, <1>2, EnabledFinite, SortedListsTheRows
<1>4. ASSUME NEW k \in DOMAIN rules
      PROVE  \E i \in Enabled(rows) : Place(rows, i) = k /\ rules[k] = rows[i]
  BY <1>1, <1>2, SortedListsTheRows
<1>5. \A i \in Enabled(rows) : i \in DOMAIN rows /\ rows[i] \in Rules /\ rows[i].enabled
  BY DEF Enabled
<1>6. ASSUME NEW k \in DOMAIN rules
      PROVE  rules[k] \in CompiledRule /\ RuleCompiles(rules[k], catalogue)
  BY <1>4, <1>5 DEF Compiles, CompiledRule, RuleCompiles
<1>7. rules \in Seq(CompiledRule)
  <2>1. rules = [k \in 1..N |-> rules[k]]
    BY <1>1, <1>3 DEF Sorted
  <2>. HIDE DEF rules
  <2>. QED
    BY <1>3, <1>6, <2>1
<1>8. ASSUME NEW k \in DOMAIN rules, NEW l \in DOMAIN rules, rules[k].id = rules[l].id
      PROVE  k = l
  BY <1>4, <1>5, <1>8 DEF Compiles
<1>. QED
  BY <1>3, <1>6, <1>7, <1>8

\* The type invariant: what is served is rows of the table, enabled and with an
\* effect a rule may have, in a list without gaps.
THEOREM CompiledCorrect == DecisionsSpec => []CompiledOK
<1>1. CompiledInv => CompiledOK
  BY CompiledRules DEF CompiledInv, WellFormed, PolicyCompiled, CompiledOK
<1>. QED
  BY <1>1, CompiledInvariant, PTL

-----------------------------------------------------------------------------
(* One decision.                                                           *)

FirstSpeaking(k, rules, call) ==
  /\ k \in DOMAIN rules /\ Speaks(rules[k], call)
  /\ \A l \in DOMAIN rules : Speaks(rules[l], call) => k <= l

LEMMA DecideCases ==
  ASSUME NEW p, DOMAIN p.rules \subseteq Nat, NEW call
  PROVE  \/ /\ FailsClosed(call, p.catalogue)
            /\ Decide(call, p) = Decision("deny", Null, "fail_closed", Null)
         \/ /\ ~FailsClosed(call, p.catalogue)
            /\ \A k \in DOMAIN p.rules : ~Speaks(p.rules[k], call)
            /\ Decide(call, p) = Decision("allow", Null, "default", Null)
         \/ /\ ~FailsClosed(call, p.catalogue)
            /\ \E k \in DOMAIN p.rules : /\ FirstSpeaking(k, p.rules, call)
                                         /\ Decide(call, p) = RuleDecides(p.rules[k], call)
<1>. DEFINE speaking == {k \in DOMAIN p.rules : Speaks(p.rules[k], call)}
            first == CHOOSE k \in speaking : \A l \in speaking : k <= l
<1>1. Decide(call, p) =
        IF FailsClosed(call, p.catalogue) THEN Decision("deny", Null, "fail_closed", Null)
        ELSE IF speaking = {} THEN Decision("allow", Null, "default", Null)
        ELSE RuleDecides(p.rules[first], call)
  BY DEF Decide
<1>2. ASSUME speaking # {} PROVE FirstSpeaking(first, p.rules, call)
  <2>1. speaking \in SUBSET Nat
    OBVIOUS
  <2>2. \E k \in speaking : \A l \in speaking : k <= l
    <3>. HIDE DEF speaking
    <3>. QED
      BY <1>2, <2>1, LeastExists
  <2>3. first \in speaking /\ \A l \in speaking : first <= l
    <3>. HIDE DEF speaking
    <3>. QED
      BY <2>2
  <2>. QED
    BY <2>3 DEF FirstSpeaking
<1>3. CASE FailsClosed(call, p.catalogue)
  BY <1>1, <1>3
<1>4. CASE ~FailsClosed(call, p.catalogue) /\ speaking = {}
  BY <1>1, <1>4
<1>5. CASE ~FailsClosed(call, p.catalogue) /\ speaking # {}
  <2>1. FirstSpeaking(first, p.rules, call) /\ first \in DOMAIN p.rules
    BY <1>2, <1>5 DEF FirstSpeaking
  <2>2. Decide(call, p) = RuleDecides(p.rules[first], call)
    BY <1>1, <1>5
  <2>. HIDE DEF first
  <2>. QED
    BY <1>5, <2>1, <2>2
<1>. QED
  BY <1>3, <1>4, <1>5

LEMMA DecisionFields ==
  ASSUME NEW e, NEW id, NEW b, NEW a
  PROVE  /\ Decision(e, id, b, a).effect = e /\ Decision(e, id, b, a).rule_id = id
         /\ Decision(e, id, b, a).because = b /\ Decision(e, id, b, a).input = a
BY DEF Decision

\* Row i is the one that decides: enabled, speaking, and before all such rows.
DecidingRow(i, rows, call) ==
  /\ i \in DOMAIN rows /\ rows[i].enabled /\ Speaks(rows[i], call)
  /\ \A j \in DOMAIN rows :
       rows[j].enabled /\ Speaks(rows[j], call) /\ i # j => Before(rows[i], rows[j])

\* The first compiled rule that speaks is the deciding row of the table, for the
\* k-th compiled rule is the row whose place is k.
LEMMA FirstInTheTable ==
  ASSUME NEW catalogue, NEW rows \in Seq(Rules), Compiles(catalogue, rows), NEW call,
         NEW k, FirstSpeaking(k, CompilePolicy(catalogue, rows).rules, call)
  PROVE  \E i \in DOMAIN rows : /\ DecidingRow(i, rows, call)
                                /\ CompilePolicy(catalogue, rows).rules[k] = rows[i]
<1>1. CompilePolicy(catalogue, rows).rules = Sorted(rows)
  BY DEF CompilePolicy
<1>2. Comparable(rows)
  BY RowsComparable
<1>3. k \in DOMAIN Sorted(rows) /\ Speaks(Sorted(rows)[k], call)
  BY <1>1 DEF FirstSpeaking
<1>4. PICK i \in Enabled(rows) : Place(rows, i) = k /\ Sorted(rows)[k] = rows[i]
  BY <1>2, <1>3, SortedListsTheRows
<1>5. ASSUME NEW j \in DOMAIN rows, rows[j].enabled, Speaks(rows[j], call), i # j
      PROVE  Before(rows[i], rows[j])
  <2>1. i \in DOMAIN rows /\ j \in Enabled(rows)
    BY <1>5 DEF Enabled
  <2>2. Place(rows, j) \in DOMAIN Sorted(rows) /\ Sorted(rows)[Place(rows, j)] = rows[j]
    BY <1>2, <2>1, SortedListsTheRows
  <2>3. k <= Place(rows, j)
    BY <1>1, <1>5, <2>2 DEF FirstSpeaking
  <2>4. k \in Int /\ Place(rows, j) \in Int
    BY <1>2, <1>4, <2>1, PlaceInRange
  <2>5. ~AtOrBefore(rows, j, i)
    BY <1>2, <1>4, <1>5, <2>1, <2>3, <2>4, PlaceIncreases
  <2>6. AtOrBefore(rows, i, j)
    BY <1>2, <2>1, <2>5, TotalOrder
  <2>7. rows[i].id # rows[j].id
    BY <1>5, <2>1 DEF Compiles
  <2>8. /\ rows[i].priority \in Int /\ rows[j].priority \in Int
        /\ rows[i].id \in Int /\ rows[j].id \in Int
    BY <1>2, <2>1 DEF Comparable
  <2>. QED
    BY <2>6, <2>7, <2>8 DEF AtOrBefore, Before
<1>6. i \in DOMAIN rows /\ rows[i].enabled
  BY DEF Enabled
<1>. QED
  BY <1>1, <1>3, <1>4, <1>5, <1>6 DEF DecidingRow

\* First match wins whatever order the rows came in, for any table.
THEOREM FirstRuleDecides == DecisionsSpec => []DecidedByTheFirstRule
<1>1. ASSUME CompiledInv, policy # Null, NEW call \in Calls
      PROVE  LET decision == Decide(call, policy)
                 speaking == {i \in DOMAIN loaded.rows :
                                loaded.rows[i].enabled /\ Speaks(loaded.rows[i], call)}
             IN IF FailsClosed(call, loaded.catalogue)
                THEN decision.effect = "deny" /\ decision.rule_id = Null
                ELSE IF speaking = {}
                THEN decision.effect = "allow" /\ decision.rule_id = Null
                ELSE \E i \in speaking :
                       /\ decision = RuleDecides(loaded.rows[i], call)
                       /\ \A j \in speaking : i # j => Before(loaded.rows[i], loaded.rows[j])
  <2>. DEFINE rows == loaded.rows
              rules == CompilePolicy(loaded.catalogue, rows).rules
              speaking == {i \in DOMAIN rows : rows[i].enabled /\ Speaks(rows[i], call)}
  <2>1. /\ rows \in Seq(Rules) /\ Compiles(loaded.catalogue, rows)
        /\ policy.rules = rules /\ policy.catalogue = loaded.catalogue
    BY <1>1 DEF CompiledInv, PolicyCompiled, CompilePolicy
  <2>2. DOMAIN policy.rules \subseteq Nat
    BY <2>1, CompiledRules
  <2>3. CASE /\ FailsClosed(call, policy.catalogue)
             /\ Decide(call, policy) = Decision("deny", Null, "fail_closed", Null)
    BY <2>1, <2>3, DecisionFields
  <2>4. CASE /\ ~FailsClosed(call, policy.catalogue)
             /\ \A k \in DOMAIN policy.rules : ~Speaks(policy.rules[k], call)
             /\ Decide(call, policy) = Decision("allow", Null, "default", Null)
    <3>1. speaking = {}
      <4>1. SUFFICES ASSUME NEW i \in speaking PROVE FALSE
        OBVIOUS
      <4>2. i \in Enabled(rows) /\ Speaks(rows[i], call)
        BY DEF Enabled
      <4>3. Place(rows, i) \in DOMAIN rules /\ rules[Place(rows, i)] = rows[i]
        BY <2>1, <4>2, RowsComparable, SortedListsTheRows DEF CompilePolicy
      <4>. QED
        BY <2>1, <2>4, <4>2, <4>3
    <3>. QED
      BY <2>1, <2>4, <3>1, DecisionFields
  <2>5. CASE /\ ~FailsClosed(call, policy.catalogue)
             /\ \E k \in DOMAIN policy.rules :
                  /\ FirstSpeaking(k, policy.rules, call)
                  /\ Decide(call, policy) = RuleDecides(policy.rules[k], call)
    <3>1. PICK k : /\ FirstSpeaking(k, rules, call)
                   /\ Decide(call, policy) = RuleDecides(rules[k], call)
      BY <2>1, <2>5
    <3>2. PICK i \in DOMAIN rows : DecidingRow(i, rows, call) /\ rules[k] = rows[i]
      BY <2>1, <3>1, FirstInTheTable
    <3>3. i \in speaking /\ \A j \in speaking : i # j => Before(rows[i], rows[j])
      BY <3>2 DEF DecidingRow
    <3>. QED
      BY <2>1, <2>5, <3>1, <3>2, <3>3
  <2>. QED
    BY <2>2, <2>3, <2>4, <2>5, DecideCases
<1>2. CompiledInv => DecidedByTheFirstRule
  BY <1>1 DEF DecidedByTheFirstRule
<1>. QED
  BY <1>2, CompiledInvariant, PTL

-----------------------------------------------------------------------------
(* Grants.                                                                 *)

\* What the same call would be without its grants.
Bare(call) == [call EXCEPT !.grants = {}]

LEMMA BareFields ==
  ASSUME NEW call \in Calls
  PROVE  /\ Bare(call).hook = call.hook /\ Bare(call).subject = call.subject
         /\ Bare(call).tool = call.tool /\ Bare(call).inputs = call.inputs
         /\ Bare(call).grants = {}
BY TablesAssumption DEF Bare

LEMMA GrantsDoNotSpeak ==
  ASSUME NEW call \in Calls
  PROVE  /\ \A catalogue : FailsClosed(Bare(call), catalogue) <=> FailsClosed(call, catalogue)
         /\ \A rule : EvaluateConditions(rule, Bare(call)) = EvaluateConditions(rule, call)
         /\ \A rule : Stops(rule, Bare(call)) = Stops(rule, call)
         /\ \A rule : Speaks(rule, Bare(call)) <=> Speaks(rule, call)
<1>1. \A catalogue : FailsClosed(Bare(call), catalogue) <=> FailsClosed(call, catalogue)
  BY BareFields DEF FailsClosed, MissingInputs
<1>2. ASSUME NEW rule PROVE Stops(rule, Bare(call)) = Stops(rule, call)
  <2>. DEFINE stops(subject, inputs) ==
                LET failing == {k \in DOMAIN rule.conditions :
                                  EvaluateCondition(rule.conditions[k], subject, inputs)
                                    # "match"}
                IN IF failing = {} THEN 0
                   ELSE CHOOSE k \in failing : \A l \in failing : k <= l
  <2>1. /\ Stops(rule, call) = stops(call.subject, call.inputs)
        /\ Stops(rule, Bare(call)) = stops(Bare(call).subject, Bare(call).inputs)
    BY DEF Stops
  <2>. HIDE DEF stops
  <2>. QED
    BY <2>1, BareFields
<1>3. \A rule : EvaluateConditions(rule, Bare(call)) = EvaluateConditions(rule, call)
  BY <1>2, BareFields DEF EvaluateConditions
<1>. QED
  BY <1>1, <1>2, <1>3, BareFields DEF Speaks

\* A grant changes one thing, the denial of a rule at /pre, for any grants.
THEOREM GrantsLiftADenial == DecisionsSpec => []GrantsOnlyLift
<1>1. ASSUME CompiledInv, policy # Null, NEW call \in Calls,
             Decide(call, policy) # Decide(Bare(call), policy)
      PROVE  /\ call.hook = "pre"
             /\ Decide(Bare(call), policy).effect = "deny"
             /\ Decide(Bare(call), policy).because = "rule"
             /\ Decide(call, policy).effect = "allow"
             /\ Decide(call, policy).rule_id = Decide(Bare(call), policy).rule_id
             /\ \E grant \in call.grants : grant.subject_id = call.subject.user_id
  <2>1. DOMAIN policy.rules \subseteq Nat
    BY <1>1, CompiledRules DEF CompiledInv, PolicyCompiled
  <2>2. \A k : FirstSpeaking(k, policy.rules, Bare(call))
                 <=> FirstSpeaking(k, policy.rules, call)
    BY GrantsDoNotSpeak DEF FirstSpeaking
  <2>3. PICK k \in DOMAIN policy.rules :
          /\ FirstSpeaking(k, policy.rules, call)
          /\ Decide(call, policy) = RuleDecides(policy.rules[k], call)
          /\ Decide(Bare(call), policy) = RuleDecides(policy.rules[k], Bare(call))
    <3>1. \A k, l \in DOMAIN policy.rules :
            FirstSpeaking(k, policy.rules, call) /\ FirstSpeaking(l, policy.rules, call)
              => k = l
      BY <2>1 DEF FirstSpeaking
    <3>2. ~FailsClosed(call, policy.catalogue)
      BY <1>1, <2>1, DecideCases, GrantsDoNotSpeak
    <3>3. ~ \A k \in DOMAIN policy.rules : ~Speaks(policy.rules[k], call)
      BY <1>1, <2>1, <3>2, DecideCases, GrantsDoNotSpeak DEF FirstSpeaking
    <3>4. PICK k \in DOMAIN policy.rules :
            /\ FirstSpeaking(k, policy.rules, call)
            /\ Decide(call, policy) = RuleDecides(policy.rules[k], call)
      BY <2>1, <3>2, <3>3, DecideCases
    <3>5. PICK l \in DOMAIN policy.rules :
            /\ FirstSpeaking(l, policy.rules, Bare(call))
            /\ Decide(Bare(call), policy) = RuleDecides(policy.rules[l], Bare(call))
      BY <2>1, <3>2, <3>3, DecideCases, GrantsDoNotSpeak
    <3>. QED
      BY <2>2, <3>1, <3>4, <3>5
  <2>. DEFINE rule == policy.rules[k]
              grants == {grant \in call.grants : GrantApplies(grant, call)}
  <2>4. EvaluateConditions(rule, call) # "unevaluable"
    BY <1>1, <2>3, GrantsDoNotSpeak DEF RuleDecides
  <2>5. Decide(Bare(call), policy) = Decision(rule.effect, rule.id, "rule", Null)
    BY <2>3, <2>4, GrantsDoNotSpeak, BareFields DEF RuleDecides
  <2>6. rule.effect = "deny" /\ call.hook = "pre" /\ grants # {}
    BY <1>1, <2>3, <2>4, <2>5 DEF RuleDecides
  <2>7. Decide(call, policy) = Decision("allow", rule.id, "grant", Null)
    BY <2>3, <2>4, <2>6 DEF RuleDecides
  <2>8. \E grant \in call.grants : grant.subject_id = call.subject.user_id
    BY <2>6 DEF GrantApplies
  <2>. QED
    BY <2>5, <2>6, <2>7, <2>8, DecisionFields
<1>2. CompiledInv => GrantsOnlyLift
  BY <1>1 DEF GrantsOnlyLift, Bare
<1>. QED
  BY <1>2, CompiledInvariant, PTL

-----------------------------------------------------------------------------
(* Remediation.                                                            *)

\* A served tool a rule matches is among those its checks looked at.
LEMMA MatchedIsChecked ==
  ASSUME NEW catalogue, NEW match, NEW tool,
         Serves(catalogue, tool.toolkit, tool.name), MatchesTool(match, tool)
  PROVE  catalogue[tool.toolkit][tool.name] \in MatchedArguments(match, catalogue)
<1>. DEFINE t == tool.toolkit
            names == {m \in DOMAIN catalogue[t] :
                        MatchesTool(match, [toolkit |-> t, name |-> m])}
            matchedOf(u) == {catalogue[u][n] :
                               n \in {m \in DOMAIN catalogue[u] :
                                        MatchesTool(match, [toolkit |-> u, name |-> m])}}
<1>1. t \in DOMAIN catalogue /\ tool.name \in DOMAIN catalogue[t]
  BY DEF Serves
<1>2. MatchesTool(match, [toolkit |-> t, name |-> tool.name])
  BY DEF MatchesTool
<1>3. catalogue[t][tool.name] \in matchedOf(t)
  BY <1>1, <1>2
<1>4. MatchedArguments(match, catalogue) = UNION {matchedOf(u) : u \in DOMAIN catalogue}
  BY DEF MatchedArguments
<1>. HIDE DEF matchedOf
<1>. QED
  BY <1>1, <1>3, <1>4

\* What stopped an unevaluable rule is one of its conditions.
LEMMA StopsAtACondition ==
  ASSUME NEW rule \in Rules, NEW call, EvaluateConditions(rule, call) = "unevaluable"
  PROVE  Stops(rule, call) \in DOMAIN rule.conditions
<1>. DEFINE failing == {k \in DOMAIN rule.conditions :
                          EvaluateCondition(rule.conditions[k], call.subject, call.inputs)
                            # "match"}
            first == CHOOSE k \in failing : \A l \in failing : k <= l
<1>1. Stops(rule, call) = IF failing = {} THEN 0 ELSE first
  BY DEF Stops
<1>2. Stops(rule, call) # 0
  BY DEF EvaluateConditions
<1>3. failing \in SUBSET Nat /\ failing \subseteq DOMAIN rule.conditions
  BY TablesAssumption
<1>4. failing # {}
  <2>. HIDE DEF failing
  <2>. QED
    BY <1>1, <1>2
<1>5. \E k \in failing : \A l \in failing : k <= l
  <2>. HIDE DEF failing
  <2>. QED
    BY <1>3, <1>4, LeastExists
<1>6. first \in failing
  <2>. HIDE DEF failing
  <2>. QED
    BY <1>5
<1>. HIDE DEF failing, first
<1>. QED
  BY <1>1, <1>3, <1>4, <1>6

LEMMA RuleDecidesFields ==
  ASSUME NEW rule, NEW call
  PROVE  LET decision == RuleDecides(rule, call)
         IN /\ decision.rule_id = rule.id
            /\ decision.because = "rule" =>
                 /\ decision.effect = rule.effect
                 /\ EvaluateConditions(rule, call) # "unevaluable"
            /\ decision.because = "unevaluable" =>
                 /\ EvaluateConditions(rule, call) = "unevaluable"
                 /\ decision.input = rule.conditions[Stops(rule, call)].input
BY DecisionFields DEF RuleDecides

\* A call that is not refused outright carries what a checked reason quotes.
LEMMA QuotesAreThere ==
  ASSUME NEW call \in Calls, NEW catalogue, ~FailsClosed(call, catalogue),
         call.hook = "pre", NEW rule, CheckReason(rule, catalogue), Speaks(rule, call)
  PROVE  Filled(rule.reason, call)
<1>. DEFINE args == catalogue[call.tool.toolkit][call.tool.name]
<1>1. Serves(catalogue, call.tool.toolkit, call.tool.name) /\ MissingInputs(call, args) = {}
  BY DEF FailsClosed
<1>2. args \in MatchedArguments(rule.match, catalogue)
  BY <1>1, MatchedIsChecked DEF Speaks
<1>3. ASSUME NEW p \in rule.reason.placeholders, p.root = "inputs"
      PROVE  ReadPath(call.inputs, p.field) # Null
  <2>1. CheckPlaceholder(p, MatchedArguments(rule.match, catalogue))
    BY DEF CheckReason
  <2>2. p.field \in args.required
    BY <1>2, <1>3, <2>1 DEF CheckPlaceholder
  <2>. QED
    BY <1>1, <2>2 DEF MissingInputs
<1>. QED
  BY <1>3 DEF Filled

LEMMA FollowedFields ==
  ASSUME NEW call \in Calls, NEW i
  PROVE  /\ Followed(i, call).subject = call.subject
         /\ Followed(i, call).tool.toolkit = i.toolkit
         /\ Followed(i, call).tool.name = i.tool
         /\ Followed(i, call).inputs = [a \in i.given |-> 0]
<1>1. call = [hook |-> call.hook, subject |-> call.subject, tool |-> call.tool,
              inputs |-> call.inputs, grants |-> call.grants]
  BY TablesAssumption
<1>2. "subject" \in DOMAIN call /\ "tool" \in DOMAIN call /\ "inputs" \in DOMAIN call
  BY <1>1
<1>3. /\ Followed(i, call).subject = call.subject
      /\ Followed(i, call).tool = [toolkit |-> i.toolkit, name |-> i.tool]
      /\ Followed(i, call).inputs = [a \in i.given |-> 0]
  BY <1>2 DEF Followed
<1>. QED
  BY <1>3

\* A checked denial says to stop, or names calls that are complete.
LEMMA CheckedIsFollowable ==
  ASSUME NEW call \in Calls, NEW catalogue, call.subject # Null, call.hook = "pre",
         NEW reason, reason.stop \in BOOLEAN, CheckRemediation(reason, catalogue)
  PROVE  Followable(reason, catalogue, call)
<1>. DEFINE serves(k) == Serves(catalogue, reason.invocations[k].toolkit,
                                reason.invocations[k].tool)
            served == {k \in DOMAIN reason.invocations : serves(k)}
<1>1. reason.stop <=> served = {}
  BY DEF CheckRemediation
<1>2. ASSUME NEW k \in served
      PROVE  ~FailsClosed(Followed(reason.invocations[k], call), catalogue)
  <2>. DEFINE i == reason.invocations[k]
              next == Followed(i, call)
              args == catalogue[i.toolkit][i.tool]
  <2>1. CheckInvocation(i, catalogue) /\ Serves(catalogue, i.toolkit, i.tool)
    BY <1>1 DEF CheckRemediation
  <2>2. args.required \subseteq i.given
    BY <2>1 DEF CheckInvocation
  <2>3. next.inputs = [a \in i.given |-> 0]
    BY FollowedFields
  <2>4. MissingInputs(next, args) = {}
    <3>1. ASSUME NEW a \in args.required PROVE ReadPath(next.inputs, a) # Null
      <4>1. a \in DOMAIN next.inputs /\ next.inputs[a] = 0
        BY <2>2, <2>3
      <4>. QED
        BY <4>1, TablesAssumption DEF ReadPath
    <3>. HIDE DEF next, args
    <3>. QED
      BY <3>1 DEF MissingInputs
  <2>5. /\ next.subject # Null
        /\ Serves(catalogue, next.tool.toolkit, next.tool.name)
        /\ catalogue[next.tool.toolkit][next.tool.name] = args
    <3>1. next.subject = call.subject /\ next.tool.toolkit = i.toolkit
          /\ next.tool.name = i.tool
      BY FollowedFields
    <3>. HIDE DEF next
    <3>. QED
      BY <2>1, <3>1
  <2>6. ~FailsClosed(next, catalogue)
    <3>. HIDE DEF next, args
    <3>. QED
      BY <2>4, <2>5 DEF FailsClosed
  <2>. QED
    BY <2>6
<1>. QED
  BY <1>1, <1>2 DEF Followable

\* What a refused model is told can be done, for any policy that compiles.
THEOREM RefusalsCanBeActedOn == DecisionsSpec => []RemediationCanBeFollowed
<1>1. ASSUME CompiledInv, policy # Null, NEW call \in Calls, call.hook = "pre",
             NEW k \in DOMAIN policy.rules, FirstSpeaking(k, policy.rules, call),
             ~FailsClosed(call, policy.catalogue),
             Decide(call, policy) = RuleDecides(policy.rules[k], call)
      PROVE  LET decision == Decide(call, policy)
             IN /\ decision.because = "unevaluable" =>
                     decision.input \in
                       AllArguments(policy.catalogue[call.tool.toolkit][call.tool.name])
                /\ \A i \in DOMAIN policy.rules :
                     policy.rules[i].id = decision.rule_id /\ decision.because = "rule" =>
                       /\ Filled(policy.rules[i].reason, call)
                       /\ decision.effect = "deny" =>
                            Followable(policy.rules[i].reason, policy.catalogue, call)
  <2>. DEFINE rule == policy.rules[k]
              catalogue == policy.catalogue
              args == catalogue[call.tool.toolkit][call.tool.name]
              decision == Decide(call, policy)
  <2>1. /\ loaded.rows \in Seq(Rules) /\ Compiles(loaded.catalogue, loaded.rows)
        /\ policy.rules = CompilePolicy(loaded.catalogue, loaded.rows).rules
        /\ catalogue = loaded.catalogue
    BY <1>1 DEF CompiledInv, PolicyCompiled, CompilePolicy
  <2>2. /\ policy.rules \in Seq(CompiledRule) /\ RuleCompiles(rule, catalogue)
        /\ \A l \in DOMAIN policy.rules : policy.rules[l].id = rule.id => l = k
    BY <1>1, <2>1, CompiledRules
  <2>3. rule \in Rules
    BY <1>1, <2>2 DEF CompiledRule
  <2>4. Speaks(rule, call)
    BY <1>1 DEF FirstSpeaking
  <2>5. args \in MatchedArguments(rule.match, catalogue)
    BY <1>1, <2>4, MatchedIsChecked DEF FailsClosed, Speaks
  <2>6. ASSUME decision.because = "unevaluable" PROVE decision.input \in AllArguments(args)
    <3>1. /\ EvaluateConditions(rule, call) = "unevaluable"
          /\ decision.input = rule.conditions[Stops(rule, call)].input
      BY <1>1, <2>6, RuleDecidesFields
    <3>2. Stops(rule, call) \in DOMAIN rule.conditions
      BY <2>3, <3>1, StopsAtACondition
    <3>3. CheckCondition(rule.conditions[Stops(rule, call)],
                         MatchedArguments(rule.match, catalogue))
      BY <2>2, <3>2 DEF RuleCompiles
    <3>. QED
      BY <2>5, <3>1, <3>3 DEF CheckCondition
  <2>7. ASSUME NEW i \in DOMAIN policy.rules, policy.rules[i].id = decision.rule_id,
               decision.because = "rule"
        PROVE  /\ Filled(policy.rules[i].reason, call)
               /\ decision.effect = "deny" =>
                    Followable(policy.rules[i].reason, catalogue, call)
    <3>1. decision.rule_id = rule.id /\ decision.effect = rule.effect
      BY <1>1, <2>7, RuleDecidesFields
    <3>2. i = k
      BY <2>2, <2>7, <3>1
    <3>3. CheckReason(rule, catalogue)
      BY <2>2 DEF RuleCompiles
    <3>4. Filled(rule.reason, call)
      BY <1>1, <2>4, <3>3, QuotesAreThere
    <3>5. ASSUME rule.effect = "deny" PROVE Followable(rule.reason, catalogue, call)
      <4>1. rule.hook = "pre"
        BY <1>1, <2>4 DEF Speaks
      <4>2. CheckRemediation(rule.reason, catalogue)
        BY <3>3, <3>5, <4>1 DEF CheckReason
      <4>3. call.subject # Null /\ rule.reason.stop \in BOOLEAN
        BY <1>1, <2>3, TablesAssumption DEF FailsClosed
      <4>. QED
        BY <1>1, <4>2, <4>3, CheckedIsFollowable
    <3>. QED
      BY <3>1, <3>2, <3>4, <3>5
  <2>. QED
    BY <2>6, <2>7
<1>2. ASSUME CompiledInv, policy # Null, NEW call \in Calls, call.hook = "pre"
      PROVE  LET decision == Decide(call, policy)
             IN /\ decision.because = "unevaluable" =>
                     decision.input \in
                       AllArguments(policy.catalogue[call.tool.toolkit][call.tool.name])
                /\ \A i \in DOMAIN policy.rules :
                     policy.rules[i].id = decision.rule_id /\ decision.because = "rule" =>
                       /\ Filled(policy.rules[i].reason, call)
                       /\ decision.effect = "deny" =>
                            Followable(policy.rules[i].reason, policy.catalogue, call)
  <2>1. DOMAIN policy.rules \subseteq Nat
    BY <1>2, CompiledRules DEF CompiledInv, PolicyCompiled
  <2>2. CASE \/ Decide(call, policy) = Decision("deny", Null, "fail_closed", Null)
             \/ Decide(call, policy) = Decision("allow", Null, "default", Null)
    <3>1. Decide(call, policy).because \in {"fail_closed", "default"}
      BY <2>2, DecisionFields
    <3>. QED
      BY <3>1
  <2>3. CASE /\ ~FailsClosed(call, policy.catalogue)
             /\ \E k \in DOMAIN policy.rules :
                  /\ FirstSpeaking(k, policy.rules, call)
                  /\ Decide(call, policy) = RuleDecides(policy.rules[k], call)
    BY <1>1, <1>2, <2>3
  <2>. QED
    BY <2>1, <2>2, <2>3, DecideCases
<1>3. CompiledInv => RemediationCanBeFollowed
  BY <1>2 DEF RemediationCanBeFollowed
<1>. QED
  BY <1>3, CompiledInvariant, PTL
=============================================================================
