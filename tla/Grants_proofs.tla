---------------------------- MODULE Grants_proofs ----------------------------
(***************************************************************************)
(* Grants, one and many.  First checkGrant and selectGrant: they agree     *)
(* with what a grant authorises, for every list of grants and every call,  *)
(* and what a grant lets through is counted and bounded by what it says.   *)
(*                                                                         *)
(* Then the approval flow that issues them, for every set of people,       *)
(* requests, resources and amounts and every grant lifetime: IInv is       *)
(* inductive, and the invariants the runs check follow from it, and so     *)
(* does the refinement of ApprovalAuthority.                               *)
(***************************************************************************)
EXTENDS ApprovalGrants, GrantSelection, FiniteSetTheorems, WellFoundedInduction, TLAPS

-----------------------------------------------------------------------------
(* One grant, and a list of them.                                          *)

LEMMA RejectionsInOrder ==
  /\ DOMAIN Rejections = 1..13
  /\ \A reason \in {"unenforceable", "self_approved", "subject_mismatch",
                    "revoked", "not_yet_valid", "expired", "consumed",
                    "tool_mismatch", "resource_mismatch",
                    "pinned_input_mismatch", "ceiling_input_missing",
                    "ceiling_input_not_numeric", "ceiling_exceeded"} :
       \E i \in DOMAIN Rejections : Rejections[i] = reason
  /\ \A i \in DOMAIN Rejections : Rejections[i] # "valid"
<1>1. DOMAIN Rejections = 1..13
  BY DEF Rejections
<1>2. /\ Rejections[1] = "unenforceable" /\ Rejections[2] = "self_approved"
      /\ Rejections[3] = "subject_mismatch" /\ Rejections[4] = "revoked"
      /\ Rejections[5] = "not_yet_valid" /\ Rejections[6] = "expired"
      /\ Rejections[7] = "consumed" /\ Rejections[8] = "tool_mismatch"
      /\ Rejections[9] = "resource_mismatch"
      /\ Rejections[10] = "pinned_input_mismatch"
      /\ Rejections[11] = "ceiling_input_missing"
      /\ Rejections[12] = "ceiling_input_not_numeric"
      /\ Rejections[13] = "ceiling_exceeded"
  BY DEF Rejections
<1>. QED
  BY <1>1, <1>2

\* A non-empty set of naturals has a least element.
LEMMA LeastExists ==
  ASSUME NEW T \in SUBSET Nat, T # {}
  PROVE  \E x \in T : \A y \in T : x <= y
<1>1. PICK x \in T : \A y \in T : <<y, x>> \notin OpToRel(<, Nat)
  BY NatLessThanWellFounded, WFMin
<1>2. \A y \in T : ~(y < x)
  BY <1>1 DEF OpToRel
<1>. QED
  BY <1>2

\* checkGrant's reasons: the verdict is "valid" exactly when none applies.
LEMMA ValidMeansNoReason ==
  ASSUME NEW g, NEW call, NEW t
  PROVE  CheckGrant(g, call, t) = "valid"
           <=> \A i \in DOMAIN Rejections : ~Rejects(Rejections[i], g, call, t)
<1>. DEFINE rejecting == {i \in DOMAIN Rejections : Rejects(Rejections[i], g, call, t)}
<1>1. CASE rejecting = {}
  BY <1>1 DEF CheckGrant, FirstRejection
<1>2. CASE rejecting # {}
  <2>1. rejecting \in SUBSET Nat
    BY RejectionsInOrder
  <2>2. PICK i \in rejecting : \A j \in rejecting : i <= j
    <3>. HIDE DEF rejecting
    <3>. QED
      BY <1>2, <2>1, LeastExists
  <2>3. /\ i \in DOMAIN Rejections /\ Rejects(Rejections[i], g, call, t)
        /\ \A j \in 1..(i - 1) : ~Rejects(Rejections[j], g, call, t)
    BY <2>2, RejectionsInOrder
  <2>4. /\ FirstRejection(g, call, t) \in DOMAIN Rejections
    BY <2>3 DEF FirstRejection
  <2>5. CheckGrant(g, call, t) # "valid"
    BY <2>4, RejectionsInOrder DEF CheckGrant
  <2>. QED
    BY <1>2, <2>5
<1>. QED
  BY <1>1, <1>2

\* The verdict is what the checks say: no rejection is reported for a grant
\* that passes them all, and one is for any other.
LEMMA VerdictIsAuthority ==
  ASSUME NEW g, NEW call, NEW t \in Int,
         g.issued_at \in Int, g.expires_at \in Int,
         g.ceiling # Null => g.ceiling.max \in Int,
         g.uses_remaining \in Nat \cup {Null}
  PROVE  CheckGrant(g, call, t) = "valid" <=> Authorises(g, call, t)
<1>1. CheckGrant(g, call, t) = "valid" <=>
        \A reason \in {"unenforceable", "self_approved", "subject_mismatch",
                    "revoked", "not_yet_valid", "expired", "consumed",
                    "tool_mismatch", "resource_mismatch",
                    "pinned_input_mismatch", "ceiling_input_missing",
                    "ceiling_input_not_numeric", "ceiling_exceeded"} :
          ~Rejects(reason, g, call, t)
  BY ValidMeansNoReason, RejectionsInOrder DEF Rejections
<1>. DEFINE carried == ReadPath(call.inputs, g.ceiling.input)
<1>2. /\ ~Rejects("unenforceable", g, call, t) <=> Enforceable(g)
      /\ ~Rejects("self_approved", g, call, t) <=> NotSelfApproved(g)
      /\ ~Rejects("subject_mismatch", g, call, t) <=> IssuedToThisSubject(g, call)
      /\ ~Rejects("revoked", g, call, t) <=> NotRevoked(g)
      /\ ~Rejects("not_yet_valid", g, call, t) <=> ~(t < g.issued_at)
      /\ ~Rejects("expired", g, call, t) <=> ~(t >= g.expires_at)
      /\ ~Rejects("consumed", g, call, t) <=> UsesRemaining(g)
  BY DEF Rejects
<1>3. /\ ~Rejects("tool_mismatch", g, call, t) <=> ScopedToThisTool(g, call)
      /\ ~Rejects("resource_mismatch", g, call, t)
           <=> MismatchedInputs(g, call) \cap ResourceCarryingInputs(g) = {}
      /\ ~Rejects("pinned_input_mismatch", g, call, t) <=> MismatchedInputs(g, call) = {}
      /\ ~Rejects("ceiling_input_missing", g, call, t)
           <=> ~(g.ceiling # Null /\ carried = Null)
      /\ ~Rejects("ceiling_input_not_numeric", g, call, t)
           <=> ~(g.ceiling # Null /\ carried \notin Int)
      /\ ~Rejects("ceiling_exceeded", g, call, t)
           <=> ~(g.ceiling # Null /\ carried > g.ceiling.max)
  BY DEF Rejects
<1>4. WithinWindow(g, t) <=> ~(t < g.issued_at) /\ ~(t >= g.expires_at)
  BY DEF WithinWindow
<1>5. PinnedInputsMatch(g, call) <=> MismatchedInputs(g, call) = {}
  BY DEF PinnedInputsMatch, MismatchedInputs
<1>6. WithinCeiling(g, call) <=>
        /\ ~(g.ceiling # Null /\ carried = Null)
        /\ ~(g.ceiling # Null /\ carried \notin Int)
        /\ ~(g.ceiling # Null /\ carried > g.ceiling.max)
  <2>1. CASE g.ceiling = Null
    BY <2>1 DEF WithinCeiling
  <2>2. CASE g.ceiling # Null /\ carried \in Int
    BY <2>2, GrantsAssumption DEF WithinCeiling
  <2>3. CASE g.ceiling # Null /\ carried \notin Int
    BY <2>3 DEF WithinCeiling
  <2>. QED
    BY <2>1, <2>2, <2>3
<1>. QED
  BY <1>1, <1>2, <1>3, <1>4, <1>5, <1>6 DEF Authorises
-----------------------------------------------------------------------------
(* A list of grants.                                                       *)

\* A row is the grant that was issued, but for the uses it has left.
AsIssued(row, g) ==
  /\ row = [g EXCEPT !.uses_remaining = row.uses_remaining]
  /\ row.uses_remaining \in Nat \cup {Null}
  /\ row.uses_remaining = Null <=> g.uses_remaining = Null

\* The calls a row has let through.
LetBy(i) == {k \in DOMAIN accepted : accepted[k].row = i}

RowsAsIssued ==
  /\ issued \in Rows
  /\ DOMAIN rows = DOMAIN issued /\ rows = [i \in DOMAIN issued |-> rows[i]]
  /\ \A i \in DOMAIN issued : AsIssued(rows[i], issued[i])
  /\ clock \in Nat
  /\ accepted \in Seq([call : Calls, row : DOMAIN issued, at : Nat])

\* A use gone is a call let through.
UsesAreCounted ==
  \A i \in DOMAIN issued : issued[i].uses_remaining # Null =>
    /\ IsFiniteSet(LetBy(i))
    /\ Cardinality(LetBy(i)) + rows[i].uses_remaining = issued[i].uses_remaining

AcceptedWereAuthorised ==
  \A k \in DOMAIN accepted :
    Authorises([issued[accepted[k].row] EXCEPT !.uses_remaining = Null],
               accepted[k].call, accepted[k].at)

SInv == RowsAsIssued /\ UsesAreCounted /\ AcceptedWereAuthorised

LEMMA IssuedAreGrants ==
  ASSUME NEW s \in Rows
  PROVE  /\ \E n \in Nat : DOMAIN s = 1..n
         /\ \A i \in DOMAIN s : s[i] \in Grants
  BY GrantsAssumption

\* A row reads as the grant it was issued as, in every field a check looks at.
LEMMA RowReadsAsIssued ==
  ASSUME NEW g \in Grants, NEW row, AsIssued(row, g)
  PROVE  /\ row.subject_id = g.subject_id /\ row.granted_by = g.granted_by
         /\ row.match = g.match /\ row.resource_id = g.resource_id
         /\ row.pinned_inputs = g.pinned_inputs /\ row.ceiling = g.ceiling
         /\ row.issued_at = g.issued_at /\ row.expires_at = g.expires_at
         /\ row.revoked_at = g.revoked_at
         /\ row.uses_remaining \in Nat \cup {Null}
<1>1. g = [subject_id |-> g.subject_id, granted_by |-> g.granted_by,
           match |-> g.match, resource_id |-> g.resource_id,
           pinned_inputs |-> g.pinned_inputs, ceiling |-> g.ceiling,
           issued_at |-> g.issued_at, expires_at |-> g.expires_at,
           uses_remaining |-> g.uses_remaining, revoked_at |-> g.revoked_at]
  BY GrantsAssumption
<1>2. row = [g EXCEPT !.uses_remaining = row.uses_remaining]
  BY DEF AsIssued
<1>. QED
  BY <1>1, <1>2 DEF AsIssued

\* Rows of the table are as typed as the grants issued.
LEMMA VerdictOnRows ==
  ASSUME RowsAsIssued, NEW i \in DOMAIN rows, NEW call
  PROVE  CheckGrant(rows[i], call, clock) = "valid" <=> Authorises(rows[i], call, clock)
<1>1. issued[i] \in Grants /\ AsIssued(rows[i], issued[i])
  BY IssuedAreGrants DEF RowsAsIssued
<1>2. /\ rows[i].issued_at \in Int /\ rows[i].expires_at \in Int
      /\ rows[i].ceiling # Null => rows[i].ceiling.max \in Int
      /\ rows[i].uses_remaining \in Nat \cup {Null}
  BY <1>1, RowReadsAsIssued, GrantsAssumption
<1>. QED
  BY <1>2, VerdictIsAuthority DEF RowsAsIssued

\* selectGrant answers with the first row that authorises the call.
LEMMA SelectsFirst ==
  ASSUME RowsAsIssued, NEW call
  PROVE  LET authorising == {i \in DOMAIN rows : Authorises(rows[i], call, clock)}
             selected == SelectGrant(rows, call, clock)
         IN IF authorising = {} THEN selected = 0
            ELSE selected \in authorising /\ \A i \in authorising : selected <= i
<1>. DEFINE authorising == {i \in DOMAIN rows : Authorises(rows[i], call, clock)}
            valid == {i \in DOMAIN rows : CheckGrant(rows[i], call, clock) = "valid"}
<1>1. valid = authorising
  BY VerdictOnRows
<1>2. valid \in SUBSET Nat
  BY IssuedAreGrants DEF RowsAsIssued
<1>3. valid # {} => \E i \in valid : \A j \in valid : i <= j
  <2>. HIDE DEF valid
  <2>. QED
    BY <1>2, LeastExists
<1>4. SelectGrant(rows, call, clock) =
        IF valid = {} THEN 0 ELSE CHOOSE i \in valid : \A j \in valid : i <= j
  BY DEF SelectGrant
<1>. QED
  BY <1>1, <1>3, <1>4

-----------------------------------------------------------------------------

LEMMA InitSInv == SelectionInit => SInv
<1>. SUFFICES ASSUME SelectionInit PROVE SInv
  OBVIOUS
<1>. USE DEF SelectionInit
<1>1. DOMAIN issued = DOMAIN rows /\ \A i \in DOMAIN issued : issued[i] \in Grants
  BY IssuedAreGrants
<1>2. RowsAsIssued
  <2>1. rows = [i \in DOMAIN issued |-> rows[i]]
    BY GrantsAssumption
  <2>2. ASSUME NEW i \in DOMAIN issued PROVE AsIssued(rows[i], issued[i])
    <3>1. issued[i] = [issued[i] EXCEPT !.uses_remaining = issued[i].uses_remaining]
      BY <1>1, GrantsAssumption
    <3>. QED
      BY <1>1, <3>1, GrantsAssumption DEF AsIssued
  <2>. QED
    BY <2>1, <2>2 DEF RowsAsIssued
<1>3. \A i : LetBy(i) = {}
  BY DEF LetBy
<1>4. UsesAreCounted
  <2>. SUFFICES ASSUME NEW i \in DOMAIN issued, issued[i].uses_remaining # Null
                PROVE  /\ IsFiniteSet(LetBy(i))
                       /\ Cardinality(LetBy(i)) + rows[i].uses_remaining
                            = issued[i].uses_remaining
    BY DEF UsesAreCounted
  <2>1. LetBy(i) = {} /\ IsFiniteSet(LetBy(i)) /\ Cardinality(LetBy(i)) = 0
    BY <1>3, FS_EmptySet
  <2>2. issued[i].uses_remaining \in Nat /\ rows[i] = issued[i]
    BY <1>1, GrantsAssumption
  <2>. QED
    BY <2>1, <2>2
<1>. QED
  BY <1>2, <1>4 DEF SInv, AcceptedWereAuthorised

LEMMA PresentSInv == ASSUME SInv, NEW call \in Calls, Present(call) PROVE SInv'
<1>. DEFINE i == SelectGrant(rows, call, clock)
<1>1. CASE i = 0
  BY <1>1 DEF Present, selectionVars, SInv, RowsAsIssued, UsesAreCounted,
     AcceptedWereAuthorised, LetBy
<1>2. CASE i # 0
  <2>1. /\ rows' = [rows EXCEPT ![i] = ConsumeGrant(rows[i])]
        /\ accepted' = Append(accepted, [call |-> call, row |-> i, at |-> clock])
        /\ issued' = issued /\ clock' = clock
    BY <1>2 DEF Present
  <2>2. i \in DOMAIN rows /\ Authorises(rows[i], call, clock)
    BY <1>2, SelectsFirst DEF SInv
  <2>. HIDE DEF i
  <2>3. issued[i] \in Grants /\ AsIssued(rows[i], issued[i]) /\ i \in DOMAIN issued
    BY <2>2, IssuedAreGrants DEF SInv, RowsAsIssued
  <2>4. /\ AsIssued(rows'[i], issued[i])
        /\ issued[i].uses_remaining # Null =>
             /\ rows[i].uses_remaining \in Nat \ {0}
             /\ rows'[i].uses_remaining = rows[i].uses_remaining - 1
    <3>1. rows'[i] = ConsumeGrant(rows[i])
      BY <2>1, <2>2 DEF SInv, RowsAsIssued
    <3>2. rows[i].uses_remaining = Null \/ rows[i].uses_remaining > 0
      BY <2>2 DEF Authorises, UsesRemaining
    <3>3. CASE rows[i].uses_remaining = Null
      BY <2>3, <3>1, <3>3 DEF ConsumeGrant, AsIssued
    <3>4. CASE rows[i].uses_remaining # Null
      <4>1. rows[i].uses_remaining \in Nat \ {0}
        BY <2>3, <3>2, <3>4 DEF AsIssued
      <4>2. /\ rows[i] = [issued[i] EXCEPT !.uses_remaining = rows[i].uses_remaining]
            /\ "uses_remaining" \in DOMAIN issued[i]
        BY <2>3, GrantsAssumption DEF AsIssued
      <4>3. rows'[i] = [rows[i] EXCEPT !.uses_remaining = rows[i].uses_remaining - 1]
        BY <3>1, <3>4, <4>1 DEF ConsumeGrant
      <4>4. rows'[i].uses_remaining = rows[i].uses_remaining - 1
        BY <4>2, <4>3
      <4>5. rows'[i] = [issued[i] EXCEPT !.uses_remaining = rows'[i].uses_remaining]
        BY <4>2, <4>3, <4>4
      <4>6. rows'[i].uses_remaining \in Nat /\ rows'[i].uses_remaining # Null
        BY <4>1, <4>4, GrantsAssumption
      <4>. QED
        BY <2>3, <3>4, <4>1, <4>4, <4>5, <4>6 DEF AsIssued
    <3>. QED
      BY <3>3, <3>4
  <2>5. RowsAsIssued'
    <3>1. issued' \in Rows /\ clock' \in Nat
      BY <2>1 DEF SInv, RowsAsIssued
    <3>2. DOMAIN rows' = DOMAIN issued' /\ rows' = [j \in DOMAIN issued' |-> rows'[j]]
      BY <2>1 DEF SInv, RowsAsIssued
    <3>3. ASSUME NEW j \in DOMAIN issued' PROVE AsIssued(rows'[j], issued'[j])
      <4>1. CASE j = i
        BY <2>1, <2>4, <4>1
      <4>2. CASE j # i
        <5>1. rows'[j] = rows[j] /\ issued'[j] = issued[j] /\ j \in DOMAIN issued
          BY <2>1, <4>2, <3>3 DEF SInv, RowsAsIssued
        <5>. QED
          BY <5>1 DEF SInv, RowsAsIssued
      <4>. QED
        BY <4>1, <4>2
    <3>4. accepted' \in Seq([call : Calls, row : DOMAIN issued', at : Nat])
      <4>1. [call |-> call, row |-> i, at |-> clock]
              \in [call : Calls, row : DOMAIN issued, at : Nat]
        BY <2>3 DEF SInv, RowsAsIssued
      <4>. QED
        BY <2>1, <4>1 DEF SInv, RowsAsIssued
    <3>. QED
      BY <3>1, <3>2, <3>3, <3>4 DEF RowsAsIssued
  <2>6. /\ accepted \in Seq([call : Calls, row : DOMAIN issued, at : Nat])
        /\ DOMAIN accepted = 1..Len(accepted) /\ Len(accepted) \in Nat
        /\ DOMAIN accepted' = 1..(Len(accepted) + 1)
        /\ \A k \in DOMAIN accepted : accepted'[k] = accepted[k]
        /\ accepted'[Len(accepted) + 1] = [call |-> call, row |-> i, at |-> clock]
    BY <2>1, <2>3 DEF SInv, RowsAsIssued
  <2>7. UsesAreCounted'
    <3>. SUFFICES ASSUME NEW j \in DOMAIN issued, issued[j].uses_remaining # Null
                  PROVE  /\ IsFiniteSet(LetBy(j)')
                         /\ Cardinality(LetBy(j)') + rows'[j].uses_remaining
                              = issued[j].uses_remaining
      BY <2>1 DEF UsesAreCounted
    <3>1. /\ IsFiniteSet(LetBy(j))
          /\ Cardinality(LetBy(j)) + rows[j].uses_remaining = issued[j].uses_remaining
      BY DEF SInv, UsesAreCounted
    <3>2. CASE j = i
      <4>1. LetBy(j)' = LetBy(j) \cup {Len(accepted) + 1} /\ Len(accepted) + 1 \notin LetBy(j)
        BY <2>6, <3>2 DEF LetBy
      <4>2. IsFiniteSet(LetBy(j)') /\ Cardinality(LetBy(j)') = Cardinality(LetBy(j)) + 1
        BY <3>1, <4>1, FS_AddElement
      <4>3. Cardinality(LetBy(j)) \in Nat
        BY <3>1, FS_CardinalityType
      <4>. QED
        BY <2>4, <3>1, <3>2, <4>2, <4>3
    <3>3. CASE j # i
      <4>1. LetBy(j)' = LetBy(j)
        BY <2>6, <3>3 DEF LetBy
      <4>2. rows'[j] = rows[j]
        BY <2>1, <2>2, <3>3 DEF SInv, RowsAsIssued
      <4>. QED
        BY <3>1, <4>1, <4>2
    <3>. QED
      BY <3>2, <3>3
  <2>8. AcceptedWereAuthorised'
    <3>1. Authorises([issued[i] EXCEPT !.uses_remaining = Null], call, clock)
      <4>. DEFINE unlimited == [issued[i] EXCEPT !.uses_remaining = Null]
      <4>1. unlimited.uses_remaining = Null
        BY <2>3, GrantsAssumption
      <4>2. /\ unlimited.subject_id = issued[i].subject_id
            /\ unlimited.granted_by = issued[i].granted_by
            /\ unlimited.match = issued[i].match
            /\ unlimited.resource_id = issued[i].resource_id
            /\ unlimited.pinned_inputs = issued[i].pinned_inputs
            /\ unlimited.ceiling = issued[i].ceiling
            /\ unlimited.issued_at = issued[i].issued_at
            /\ unlimited.expires_at = issued[i].expires_at
            /\ unlimited.revoked_at = issued[i].revoked_at
        BY <2>3, GrantsAssumption
      <4>3. /\ unlimited.subject_id = rows[i].subject_id
            /\ unlimited.granted_by = rows[i].granted_by
            /\ unlimited.match = rows[i].match
            /\ unlimited.resource_id = rows[i].resource_id
            /\ unlimited.pinned_inputs = rows[i].pinned_inputs
            /\ unlimited.ceiling = rows[i].ceiling
            /\ unlimited.issued_at = rows[i].issued_at
            /\ unlimited.expires_at = rows[i].expires_at
            /\ unlimited.revoked_at = rows[i].revoked_at
        BY <2>3, <4>2, RowReadsAsIssued
      <4>. HIDE DEF unlimited
      <4>. QED
        BY <2>2, <4>1, <4>3 DEF Authorises, Enforceable, NotSelfApproved,
           IssuedToThisSubject, NotRevoked, WithinWindow, UsesRemaining,
           ScopedToThisTool, PinnedInputsMatch, PinnedInputMatches, WithinCeiling,
           ResourceCarryingInputs, unlimited
    <3>2. ASSUME NEW k \in DOMAIN accepted'
          PROVE  Authorises([issued'[accepted'[k].row] EXCEPT !.uses_remaining = Null],
                            accepted'[k].call, accepted'[k].at)
      <4>1. CASE k \in DOMAIN accepted
        BY <2>1, <2>6, <4>1 DEF SInv, AcceptedWereAuthorised
      <4>2. CASE k = Len(accepted) + 1
        <5>1. accepted'[k].row = i /\ accepted'[k].call = call /\ accepted'[k].at = clock
          BY <2>6, <4>2
        <5>. QED
          BY <2>1, <3>1, <5>1
      <4>. QED
        BY <2>6, <3>2, <4>1, <4>2
    <3>. QED
      BY <3>2 DEF AcceptedWereAuthorised
  <2>. QED
    BY <2>5, <2>7, <2>8 DEF SInv
<1>. QED
  BY <1>1, <1>2

LEMMA SInductive == SelectionSpec => []SInv
<1>1. SInv /\ [SelectionNext]_selectionVars => SInv'
  <2>. SUFFICES ASSUME SInv, [SelectionNext]_selectionVars PROVE SInv'
    OBVIOUS
  <2>1. CASE UNCHANGED selectionVars
    BY <2>1 DEF selectionVars, SInv, RowsAsIssued, UsesAreCounted, AcceptedWereAuthorised, LetBy
  <2>2. CASE SelectionTick
    <3>1. /\ clock' = clock + 1 /\ issued' = issued /\ rows' = rows /\ accepted' = accepted
      BY <2>2 DEF SelectionTick
    <3>2. RowsAsIssued'
      <4>1. clock' \in Nat
        BY <3>1 DEF SInv, RowsAsIssued
      <4>. QED
        BY <3>1, <4>1 DEF SInv, RowsAsIssued
    <3>3. UsesAreCounted' /\ AcceptedWereAuthorised'
      BY <3>1 DEF SInv, UsesAreCounted, AcceptedWereAuthorised, LetBy
    <3>. QED
      BY <3>2, <3>3 DEF SInv
  <2>. QED
    BY <2>1, <2>2, PresentSInv DEF SelectionNext
<1>. QED
  BY <1>1, InitSInv, PTL DEF SelectionSpec

\* A row lets through no more calls than it has uses.
THEOREM UsesAreSpent == SelectionSpec => []UsesBoundCalls
<1>1. SInv => UsesBoundCalls
  <2>. SUFFICES ASSUME SInv, NEW i \in DOMAIN issued, issued[i].uses_remaining # Null
                PROVE  Cardinality(LetBy(i)) <= issued[i].uses_remaining
    BY DEF UsesBoundCalls, LetBy
  <2>1. Cardinality(LetBy(i)) \in Nat
    BY FS_CardinalityType DEF SInv, UsesAreCounted
  <2>2. rows[i].uses_remaining \in Nat
    BY IssuedAreGrants, RowReadsAsIssued DEF SInv, RowsAsIssued, AsIssued
  <2>. QED
    BY <2>1, <2>2, GrantsAssumption, IssuedAreGrants DEF SInv, UsesAreCounted, RowsAsIssued
<1>. QED
  BY <1>1, SInductive, PTL

\* However a grant's record was filled in, what it lets through is its
\* subject's, in its window, on its resource and at or below its ceiling.
THEOREM GrantsAreBounded == SelectionSpec => []NothingBeyondTheGrant
<1>1. SInv => NothingBeyondTheGrant
  <2>. SUFFICES ASSUME SInv, NEW k \in DOMAIN accepted
                PROVE  LET g == issued[accepted[k].row]
                           call == accepted[k].call
                       IN /\ call.user = g.subject_id /\ call.user # g.granted_by
                          /\ call.tool = g.match
                          /\ g.issued_at <= accepted[k].at /\ accepted[k].at < g.expires_at
                          /\ g.resource_id # Null =>
                               \E key \in DOMAIN call.inputs : call.inputs[key] = g.resource_id
                          /\ g.ceiling # Null =>
                               /\ g.ceiling.input \in DOMAIN call.inputs
                               /\ call.inputs[g.ceiling.input] <= g.ceiling.max
    BY DEF NothingBeyondTheGrant
  <2>. DEFINE g == issued[accepted[k].row]
              call == accepted[k].call
              held == [g EXCEPT !.uses_remaining = Null]
  <2>1. g \in Grants
    <3>. DEFINE Let == [call : Calls, row : DOMAIN issued, at : Nat]
    <3>1. accepted \in Seq(Let)
      BY DEF SInv, RowsAsIssued
    <3>2. accepted[k] \in Let
      <4>. HIDE DEF Let
      <4>. QED
        BY <3>1
    <3>3. accepted[k].row \in DOMAIN issued /\ issued \in Rows
      BY <3>2 DEF SInv, RowsAsIssued
    <3>. QED
      BY <3>3, IssuedAreGrants
  <2>2. /\ held.subject_id = g.subject_id /\ held.granted_by = g.granted_by
        /\ held.match = g.match /\ held.resource_id = g.resource_id
        /\ held.pinned_inputs = g.pinned_inputs /\ held.ceiling = g.ceiling
        /\ held.issued_at = g.issued_at /\ held.expires_at = g.expires_at
    BY <2>1, GrantsAssumption
  <2>3. Authorises(held, call, accepted[k].at)
    BY DEF SInv, AcceptedWereAuthorised
  <2>. HIDE DEF g, call, held
  <2>4. /\ call.user = g.subject_id /\ call.user # g.granted_by /\ call.tool = g.match
        /\ g.issued_at <= accepted[k].at /\ accepted[k].at < g.expires_at
    BY <2>2, <2>3 DEF Authorises, IssuedToThisSubject, NotSelfApproved,
       ScopedToThisTool, WithinWindow
  <2>5. g.resource_id # Null =>
          \E key \in DOMAIN call.inputs : call.inputs[key] = g.resource_id
    <3>1. /\ g.resource_id # Null => ResourceCarryingInputs(held) # {}
          /\ \A key \in DOMAIN g.pinned_inputs :
               ReadPath(call.inputs, key) = g.pinned_inputs[key]
      BY <2>2, <2>3 DEF Authorises, Enforceable, PinnedInputsMatch, PinnedInputMatches
    <3>. QED
      BY <2>2, <3>1 DEF ResourceCarryingInputs, ReadPath
  <2>6. g.ceiling # Null =>
          /\ g.ceiling.input \in DOMAIN call.inputs
          /\ call.inputs[g.ceiling.input] <= g.ceiling.max
    BY <2>2, <2>3, GrantsAssumption DEF Authorises, WithinCeiling, ReadPath
  <2>. QED
    BY <2>4, <2>5, <2>6 DEF g, call
<1>. QED
  BY <1>1, SInductive, PTL

-----------------------------------------------------------------------------
(* What the table updates leave in the table.                              *)

\* An update of one grant's lifecycle or uses leaves what it was issued for.
SameIssue(g, h) ==
  /\ h.grant.request_id = g.grant.request_id
  /\ h.grant.subject_id = g.grant.subject_id
  /\ h.grant.resource_id = g.grant.resource_id
  /\ h.grant.pinned_inputs = g.grant.pinned_inputs
  /\ h.grant.ceiling = g.grant.ceiling
  /\ h.grant.issued_at = g.grant.issued_at
  /\ h.grant.expires_at = g.grant.expires_at

\* Subjects are accounts of their own, and fold to themselves.
LEMMA SubjectsAreAccounts ==
  /\ Subjects \subseteq Accounts
  /\ \A a \in Accounts : Owner[a] \in Subjects
  /\ \A s \in Subjects : Owner[s] = s
  BY AccountsAssumption DEF Subjects

\* Activation turns r's pending grants active and touches nothing else.
LEMMA ActivationOnly ==
  ASSUME NEW r \in Requests, TypeOK, NEW h \in ActivatePendingGrants(r)
  PROVE  /\ h \in StoredGrant
         /\ \E g \in grants :
              /\ SameIssue(g, h)
              /\ h.grant = g.grant
              /\ IF g.grant.request_id = r /\ g.lifecycle = "pending"
                 THEN h.lifecycle = "active" ELSE h = g
<1>1. PICK g \in grants :
        h = IF g.grant.request_id = r /\ g.lifecycle = "pending"
            THEN [g EXCEPT !.lifecycle = "active"] ELSE g
  BY DEF ActivatePendingGrants
<1>2. g \in StoredGrant
  BY DEF TypeOK
<1>. QED
  BY <1>1, <1>2 DEF StoredGrant, SameIssue

\* Voiding sets the lifecycle and the revocation of r's pending grants.
LEMMA VoidingOnly ==
  ASSUME NEW r \in Requests, TypeOK, NEW h \in VoidPendingGrants(r)
  PROVE  /\ h \in StoredGrant
         /\ \E g \in grants :
              /\ SameIssue(g, h)
              /\ h.grant.uses_remaining = g.grant.uses_remaining
              /\ IF g.grant.request_id = r /\ g.lifecycle = "pending"
                 THEN h.lifecycle = "void" /\ h.grant.revoked_at = now ELSE h = g
<1>1. PICK g \in grants :
        h = IF g.grant.request_id = r /\ g.lifecycle = "pending"
            THEN [g EXCEPT !.lifecycle = "void", !.grant.revoked_at = now] ELSE g
  BY DEF VoidPendingGrants
<1>2. g \in StoredGrant /\ now \in Nat
  BY DEF TypeOK
<1>. QED
  BY <1>1, <1>2 DEF StoredGrant, Grant, SameIssue

\* Both updates keep every row: a grant that was there is still there, as one
\* row of the same request.
LEMMA UpdatesKeepRows ==
  ASSUME NEW r \in Requests, TypeOK, NEW g \in grants
  PROVE  /\ \E h \in ActivatePendingGrants(r) :
              h = IF g.grant.request_id = r /\ g.lifecycle = "pending"
                  THEN [g EXCEPT !.lifecycle = "active"] ELSE g
         /\ \E h \in VoidPendingGrants(r) :
              h = IF g.grant.request_id = r /\ g.lifecycle = "pending"
                  THEN [g EXCEPT !.lifecycle = "void", !.grant.revoked_at = now] ELSE g
  BY DEF ActivatePendingGrants, VoidPendingGrants

\* What an approving Decide issues is a grant.
LEMMA GrantFromType ==
  ASSUME TypeOK, RequestsComplete, NEW r \in Requests, NEW a \in Accounts,
         requests[r].status = "pending"
  PROVE  GrantFrom(r, Owner[a]) \in Grant
<1>1. /\ requests[r].requester_id \in Accounts
      /\ requests[r].resource_id \in Loans
      /\ requests[r].amount \in Amounts
      /\ Owner[a] \in Accounts
      /\ now \in Nat /\ now + GrantTtl \in Nat
  BY AccountsAssumption DEF TypeOK, RequestsComplete
<1>. QED
  BY <1>1 DEF GrantFrom, Grant

-----------------------------------------------------------------------------
(* IInv is inductive: the initial state, then one lemma per action.        *)

LEMMA InitIInv == Init => IInv
<1>. SUFFICES ASSUME Init PROVE IInv
  OBVIOUS
<1>1. TypeOK
  BY DEF Init, TypeOK, UnusedRequest, Request, Statuses
<1>2. \A r \in Requests : requests[r].status = "unused" /\ lifts[r] = <<>>
  BY DEF Init, UnusedRequest
<1>3. grants = {} /\ posts = {}
  BY DEF Init
<1>. QED
  BY <1>1, <1>2, <1>3 DEF IInv, RequestsComplete, GrantsAsRequested,
     OutcomeGovernsGrant, OneGrantPerRequest, PostsAuthorised, Decisions,
     DecidedByAnotherWithAuthority, LiftsSpendTheGrant, LiftedAsApproved

LEMMA RequestApprovalIInv ==
  ASSUME IInv, NEW r \in Requests, NEW a \in Accounts, NEW l \in Loans,
         NEW n \in Amounts, RequestApproval(r, a, l, n)
  PROVE  IInv'
<1>. USE DEF IInv
<1>1. /\ requests[r].status = "unused"
      /\ requests' = [requests EXCEPT ![r] =
           [status |-> "pending", requester_id |-> a, resource_id |-> l,
            amount |-> n, decided_by |-> Null, decided_at |-> Null]]
      /\ UNCHANGED <<grants, posts, lifts, now>>
  BY DEF RequestApproval, CreateApproval, PendingRequest
<1>2. TypeOK'
  BY <1>1 DEF TypeOK, Request, Statuses
<1>3. /\ requests'[r].status = "pending"
      /\ \A q \in Requests : q # r => requests'[q] = requests[q]
  BY <1>1 DEF TypeOK
<1>4. \A g \in grants : g.grant.request_id \in Requests \ {r}
  BY <1>1 DEF TypeOK, StoredGrant, Grant, GrantsAsRequested
<1>5. \A p \in posts : p.request_id \in Requests \ {r}
  BY <1>1 DEF TypeOK, Post, PostsAuthorised
<1>6. lifts[r] = <<>>
  BY <1>1 DEF LiftsSpendTheGrant
<1>7. RequestsComplete'
  BY <1>1, <1>3 DEF RequestsComplete, TypeOK, Decisions
<1>8. GrantsAsRequested' /\ OutcomeGovernsGrant' /\ OneGrantPerRequest'
  BY <1>1, <1>3, <1>4 DEF GrantsAsRequested, OutcomeGovernsGrant, OneGrantPerRequest
<1>9. PostsAuthorised'
  BY <1>1, <1>3, <1>5 DEF PostsAuthorised
<1>10. DecidedByAnotherWithAuthority'
  BY <1>1, <1>3 DEF DecidedByAnotherWithAuthority, Decisions
<1>11. LiftsSpendTheGrant' /\ LiftedAsApproved'
  BY <1>1, <1>3, <1>4, <1>6 DEF LiftsSpendTheGrant, LiftedAsApproved
<1>. QED
  BY <1>2, <1>7, <1>8, <1>9, <1>10, <1>11

LEMMA TickIInv ==
  ASSUME IInv, Tick
  PROVE  IInv'
<1>. USE DEF IInv
<1>1. now' = now + 1 /\ now \in Nat /\ UNCHANGED <<requests, grants, posts, lifts>>
  BY DEF Tick, TypeOK
<1>2. TypeOK'
  BY <1>1 DEF TypeOK
<1>3. RequestsComplete'
  BY <1>1 DEF RequestsComplete
<1>4. GrantsAsRequested'
  <2>. SUFFICES ASSUME NEW g \in grants
                PROVE  g.grant.issued_at <= now + 1
    BY <1>1 DEF GrantsAsRequested
  <2>. QED
    BY <1>1 DEF GrantsAsRequested, TypeOK, StoredGrant, Grant
<1>5. /\ OutcomeGovernsGrant' /\ OneGrantPerRequest' /\ PostsAuthorised'
      /\ DecidedByAnotherWithAuthority' /\ LiftsSpendTheGrant' /\ LiftedAsApproved'
  BY <1>1 DEF OutcomeGovernsGrant, OneGrantPerRequest, PostsAuthorised,
     DecidedByAnotherWithAuthority, LiftsSpendTheGrant, LiftedAsApproved
<1>. QED
  BY <1>2, <1>3, <1>4, <1>5

LEMMA DemoResetIInv ==
  ASSUME IInv, DemoReset
  PROVE  IInv'
<1>. USE DEF IInv
<1>1. /\ grants' = {}
      /\ UNCHANGED <<posts, lifts, now>>
      /\ requests' = [r \in Requests |->
            IF requests[r].status = "unused" THEN requests[r]
            ELSE [requests[r] EXCEPT !.status = "erased"]]
  BY DEF DemoReset
<1>2. TypeOK'
  BY <1>1 DEF TypeOK, Request, Statuses
<1>3. \A r \in Requests :
        /\ requests'[r].status \in {"unused", "erased"}
        /\ requests'[r].status = "unused" <=> requests[r].status = "unused"
        /\ requests'[r].requester_id = requests[r].requester_id
        /\ requests'[r].resource_id = requests[r].resource_id
        /\ requests'[r].amount = requests[r].amount
        /\ requests'[r].decided_at = requests[r].decided_at
  BY <1>1 DEF TypeOK, Request
<1>4. RequestsComplete' /\ DecidedByAnotherWithAuthority'
  BY <1>3 DEF RequestsComplete, DecidedByAnotherWithAuthority, Decisions
<1>5. GrantsAsRequested' /\ OutcomeGovernsGrant' /\ OneGrantPerRequest'
  BY <1>1, <1>3 DEF GrantsAsRequested, OutcomeGovernsGrant, OneGrantPerRequest
<1>6. PostsAuthorised'
  BY <1>1, <1>3 DEF PostsAuthorised, TypeOK, Post
<1>7. LiftsSpendTheGrant' /\ LiftedAsApproved'
  BY <1>1, <1>3 DEF LiftsSpendTheGrant, LiftedAsApproved
<1>. QED
  BY <1>2, <1>4, <1>5, <1>6, <1>7

LEMMA PreDecideIInv ==
  ASSUME IInv, NEW a \in Accounts, NEW r \in Requests, NEW d \in Decisions,
         NEW ok \in BOOLEAN, PreDecide(a, r, d, ok)
  PROVE  IInv'
<1>. DEFINE new == [grant |-> GrantFrom(r, Owner[a]), lifecycle |-> "pending"]
            post == [request_id |-> r, decision |-> d, decided_by |-> a]
<1>1. /\ requests[r].status = "pending"
      /\ Owner[requests[r].requester_id] # Owner[a]
      /\ requests[r].amount <= Clearance[Owner[a]]
      /\ UNCHANGED <<requests, lifts, now>>
  BY DEF PreDecide, MayDecide
<1>2. posts' \subseteq posts \cup {post}
  BY DEF PreDecide
<1>3. /\ grants \subseteq grants' /\ grants' \subseteq grants \cup {new}
      /\ \A g \in grants' : g \notin grants =>
           g = new /\ \A h \in grants : h.grant.request_id # r
      /\ d = "approved" => \E g \in grants' : g.grant.request_id = r
  <2>1. CASE d = "approved" /\ HasGrant(r)
    <3>1. grants' = grants
      BY <2>1 DEF PreDecide, InsertGrant, GrantFrom
    <3>. QED
      BY <3>1, <2>1 DEF HasGrant
  <2>2. CASE d = "approved" /\ ~HasGrant(r)
    <3>1. grants' = grants \cup {new} /\ new.grant.request_id = r
      BY <2>2 DEF PreDecide, InsertGrant, GrantFrom
    <3>. QED
      BY <3>1, <2>2 DEF HasGrant
  <2>3. CASE d # "approved"
    BY <2>3 DEF PreDecide
  <2>. QED
    BY <2>1, <2>2, <2>3
<1>4. /\ new \in StoredGrant
      /\ new.lifecycle = "pending"
      /\ new.grant.request_id = r
      /\ new.grant.subject_id = requests[r].requester_id
      /\ new.grant.resource_id = requests[r].resource_id
      /\ new.grant.pinned_inputs["loan_id"] = requests[r].resource_id
      /\ new.grant.ceiling.max = requests[r].amount
      /\ new.grant.issued_at = now
      /\ new.grant.expires_at = now + GrantTtl
  BY <1>1, GrantFromType DEF StoredGrant, GrantFrom, IInv
<1>. HIDE DEF new
<1>5. TypeOK'
  BY <1>1, <1>2, <1>3, <1>4 DEF IInv, TypeOK, Post
<1>6. lifts[r] = <<>>
  BY <1>1 DEF IInv, LiftsSpendTheGrant
<1>7. RequestsComplete' /\ DecidedByAnotherWithAuthority' /\ LiftedAsApproved'
  BY <1>1 DEF IInv, RequestsComplete, DecidedByAnotherWithAuthority, LiftedAsApproved
<1>8. GrantsAsRequested'
  BY <1>1, <1>3, <1>4 DEF IInv, GrantsAsRequested, TypeOK
<1>9. OutcomeGovernsGrant'
  BY <1>1, <1>3, <1>4 DEF IInv, OutcomeGovernsGrant
<1>10. OneGrantPerRequest'
  BY <1>3, <1>4 DEF IInv, OneGrantPerRequest
<1>11. LiftsSpendTheGrant'
  BY <1>1, <1>3, <1>4, <1>6 DEF IInv, LiftsSpendTheGrant
<1>12. PostsAuthorised'
  <2>. SUFFICES ASSUME NEW p \in posts'
                PROVE  /\ requests[p.request_id].status # "unused"
                       /\ Owner[p.decided_by] # Owner[requests[p.request_id].requester_id]
                       /\ requests[p.request_id].amount <= Clearance[Owner[p.decided_by]]
                       /\ p.decision = "approved"
                            /\ requests[p.request_id].status = "pending" =>
                            \E g \in grants' : g.grant.request_id = p.request_id
                                              /\ g.lifecycle = "pending"
    BY <1>1 DEF PostsAuthorised
  <2>1. CASE p \in posts
    BY <2>1, <1>3 DEF IInv, PostsAuthorised
  <2>2. CASE p = post
    <3>1. \A g \in grants' : g.grant.request_id = r => g.lifecycle = "pending"
      BY <1>1, <1>3, <1>4 DEF IInv, OutcomeGovernsGrant, TypeOK, StoredGrant
    <3>. QED
      BY <2>2, <3>1, <1>1, <1>3
  <2>. QED
    BY <2>1, <2>2, <1>2
<1>. QED
  BY <1>5, <1>7, <1>8, <1>9, <1>10, <1>11, <1>12 DEF IInv

\* What recording p leaves of each grant.
LEMMA SettledGrant ==
  ASSUME IInv, NEW p \in posts, RecordDecision(p), NEW h \in grants'
  PROVE  /\ h \in StoredGrant
         /\ \E g \in grants :
              /\ SameIssue(g, h)
              /\ h.grant.uses_remaining = g.grant.uses_remaining
              /\ IF g.grant.request_id = p.request_id
                 THEN /\ g.lifecycle = "pending"
                      /\ p.decision = "approved" => h.lifecycle = "active"
                      /\ p.decision = "denied" =>
                           h.lifecycle = "void" /\ h.grant.revoked_at # Null
                 ELSE h = g
<1>1. /\ p.request_id \in Requests
      /\ requests[p.request_id].status = "pending"
      /\ p.decision \in {"approved", "denied"}
  BY DEF IInv, TypeOK, Post, RecordDecision, Decisions
<1>2. \A g \in grants : g.grant.request_id = p.request_id => g.lifecycle = "pending"
  BY <1>1 DEF IInv, OutcomeGovernsGrant, TypeOK, StoredGrant
<1>3. CASE p.decision = "approved"
  <2>1. h \in ActivatePendingGrants(p.request_id)
    BY <1>3 DEF RecordDecision
  <2>. QED
    BY <2>1, <1>1, <1>2, <1>3, ActivationOnly DEF IInv
<1>4. CASE p.decision = "denied"
  <2>1. h \in VoidPendingGrants(p.request_id)
    BY <1>4 DEF RecordDecision
  <2>2. now # Null
    BY AccountsAssumption DEF IInv, TypeOK
  <2>. QED
    BY <2>1, <2>2, <1>1, <1>2, <1>4, VoidingOnly DEF IInv
<1>. QED
  BY <1>1, <1>3, <1>4

LEMMA RecordDecisionIInv ==
  ASSUME IInv, NEW p \in posts, RecordDecision(p)
  PROVE  IInv'
<1>. DEFINE r == p.request_id
<1>1. /\ r \in Requests
      /\ p.decision \in {"approved", "denied"}
      /\ p.decided_by \in Accounts
      /\ now \in Nat
  BY DEF IInv, TypeOK, Post, Decisions
<1>2. /\ requests[r].status = "pending"
      /\ requests' = [requests EXCEPT ![r].status = p.decision,
                                      ![r].decided_by = p.decided_by,
                                      ![r].decided_at = now]
      /\ UNCHANGED <<posts, lifts, now>>
  BY DEF RecordDecision
<1>3. /\ requests'[r].status = p.decision
      /\ requests'[r].decided_by = p.decided_by
      /\ requests'[r].decided_at = now
      /\ requests'[r].requester_id = requests[r].requester_id
      /\ requests'[r].resource_id = requests[r].resource_id
      /\ requests'[r].amount = requests[r].amount
      /\ \A q \in Requests : q # r => requests'[q] = requests[q]
  BY <1>1, <1>2 DEF IInv, TypeOK, Request
<1>4. /\ Owner[p.decided_by] # Owner[requests[r].requester_id]
      /\ requests[r].amount <= Clearance[Owner[p.decided_by]]
  BY DEF IInv, PostsAuthorised
<1>5. lifts[r] = <<>>
  BY <1>1, <1>2 DEF IInv, LiftsSpendTheGrant
<1>6. \A h \in grants' : h.grant.request_id \in Requests
  BY SettledGrant DEF StoredGrant, Grant
<1>7. TypeOK'
  <2>. DEFINE row == [requests[r] EXCEPT !.status = p.decision,
                                         !.decided_by = p.decided_by,
                                         !.decided_at = now]
  <2>1. requests' = [requests EXCEPT ![r] = row]
    BY <1>1, <1>2 DEF IInv, TypeOK
  <2>2. row \in Request
    <3>1. requests[r] \in Request
      BY <1>1 DEF IInv, TypeOK
    <3>. QED
      BY <1>1, <3>1 DEF Request, Statuses
  <2>3. requests' \in [Requests -> Request]
    BY <2>1, <2>2, <1>1 DEF IInv, TypeOK
  <2>. QED
    BY <2>3, <1>2, SettledGrant DEF IInv, TypeOK
<1>8. RequestsComplete'
  <2>1. RequestsComplete
    BY DEF IInv
  <2>2. requests[r].status # "unused"
    BY <1>2
  <2>3. ASSUME NEW q \in Requests, requests'[q].status # "unused"
        PROVE  /\ requests'[q].requester_id \in Accounts
               /\ requests'[q].resource_id \in Loans
               /\ requests'[q].amount \in Amounts
    <3>1. CASE q = r
      BY <3>1, <2>1, <2>2, <1>1, <1>3 DEF RequestsComplete
    <3>2. CASE q # r
      BY <3>2, <2>1, <2>3, <1>3 DEF RequestsComplete
    <3>. QED
      BY <3>1, <3>2
  <2>4. ASSUME NEW q \in Requests, requests'[q].status \in Decisions
        PROVE  /\ requests'[q].decided_by \in Accounts
               /\ requests'[q].decided_at \in Nat
               /\ requests'[q].decided_at <= now
    <3>1. CASE q = r
      BY <3>1, <1>1, <1>3
    <3>2. CASE q # r
      BY <3>2, <2>1, <2>4, <1>3 DEF RequestsComplete
    <3>. QED
      BY <3>1, <3>2
  <2>. QED
    BY <2>3, <2>4, <1>2 DEF RequestsComplete
<1>9. GrantsAsRequested'
  <2>. SUFFICES ASSUME NEW h \in grants'
                PROVE  LET request == requests'[h.grant.request_id]
                       IN /\ request.status \in {"pending", "approved", "denied"}
                          /\ h.grant.subject_id = request.requester_id
                          /\ h.grant.resource_id = request.resource_id
                          /\ h.grant.pinned_inputs["loan_id"] = request.resource_id
                          /\ h.grant.ceiling.max = request.amount
                          /\ h.grant.expires_at = h.grant.issued_at + GrantTtl
                          /\ h.grant.issued_at <= now
                          /\ request.status = "approved" =>
                               h.grant.issued_at <= request.decided_at
    BY <1>2 DEF GrantsAsRequested
  <2>1. PICK g \in grants : SameIssue(g, h)
    BY SettledGrant
  <2>2. CASE g.grant.request_id = r
    BY <2>1, <2>2, <1>1, <1>3 DEF IInv, GrantsAsRequested, SameIssue
  <2>3. CASE g.grant.request_id # r
    BY <2>1, <2>3, <1>3, <1>6 DEF IInv, GrantsAsRequested, SameIssue
  <2>. QED
    BY <2>2, <2>3
<1>10. OutcomeGovernsGrant'
  <2>1. ASSUME NEW h \in grants'
        PROVE  /\ h.lifecycle = "pending" => requests'[h.grant.request_id].status = "pending"
               /\ h.lifecycle = "active" => requests'[h.grant.request_id].status = "approved"
               /\ h.lifecycle = "void" => /\ requests'[h.grant.request_id].status = "denied"
                                         /\ h.grant.revoked_at # Null
    <3>1. PICK g \in grants :
            /\ SameIssue(g, h)
            /\ IF g.grant.request_id = r
               THEN /\ g.lifecycle = "pending"
                    /\ p.decision = "approved" => h.lifecycle = "active"
                    /\ p.decision = "denied" =>
                         h.lifecycle = "void" /\ h.grant.revoked_at # Null
               ELSE h = g
      BY SettledGrant
    <3>2. CASE g.grant.request_id = r
      BY <3>1, <3>2, <1>1, <1>3 DEF SameIssue
    <3>3. CASE g.grant.request_id # r
      BY <3>1, <3>3, <1>3, <1>6 DEF IInv, OutcomeGovernsGrant
    <3>. QED
      BY <3>2, <3>3
  <2>2. ASSUME NEW q \in Requests, requests'[q].status = "approved"
        PROVE  \E h \in grants' : h.grant.request_id = q /\ h.lifecycle = "active"
    <3>1. CASE q = r
      <4>1. p.decision = "approved"
        BY <2>2, <3>1, <1>3
      <4>2. PICK g \in grants : g.grant.request_id = r /\ g.lifecycle = "pending"
        BY <4>1, <1>2 DEF IInv, PostsAuthorised
      <4>3. [g EXCEPT !.lifecycle = "active"] \in grants'
        BY <4>1, <4>2, <1>1, UpdatesKeepRows DEF RecordDecision, IInv
      <4>. QED
        BY <4>2, <4>3, <3>1 DEF IInv, TypeOK, StoredGrant
    <3>2. CASE q # r
      <4>1. PICK g \in grants : g.grant.request_id = q /\ g.lifecycle = "active"
        BY <2>2, <3>2, <1>3 DEF IInv, OutcomeGovernsGrant
      <4>2. g \in grants'
        BY <4>1, <3>2, <1>1, UpdatesKeepRows DEF RecordDecision, IInv
      <4>. QED
        BY <4>1, <4>2
    <3>. QED
      BY <3>1, <3>2
  <2>. QED
    BY <2>1, <2>2 DEF OutcomeGovernsGrant
<1>11. OneGrantPerRequest'
  <2>. SUFFICES ASSUME NEW g \in grants', NEW h \in grants',
                       g.grant.request_id = h.grant.request_id
                PROVE  g = h
    BY DEF OneGrantPerRequest
  <2>1. CASE p.decision = "approved"
    <3>1. grants' = ActivatePendingGrants(r)
      BY <2>1 DEF RecordDecision
    <3>2. PICK g0 \in grants :
            g = IF g0.grant.request_id = r /\ g0.lifecycle = "pending"
                THEN [g0 EXCEPT !.lifecycle = "active"] ELSE g0
      BY <3>1 DEF ActivatePendingGrants
    <3>3. PICK h0 \in grants :
            h = IF h0.grant.request_id = r /\ h0.lifecycle = "pending"
                THEN [h0 EXCEPT !.lifecycle = "active"] ELSE h0
      BY <3>1 DEF ActivatePendingGrants
    <3>4. g.grant.request_id = g0.grant.request_id /\ h.grant.request_id = h0.grant.request_id
      BY <3>2, <3>3 DEF IInv, TypeOK, StoredGrant
    <3>5. g0 = h0
      BY <3>4 DEF IInv, OneGrantPerRequest
    <3>. QED
      BY <3>2, <3>3, <3>5
  <2>2. CASE p.decision = "denied"
    <3>1. grants' = VoidPendingGrants(r)
      BY <2>2 DEF RecordDecision
    <3>2. PICK g0 \in grants :
            g = IF g0.grant.request_id = r /\ g0.lifecycle = "pending"
                THEN [g0 EXCEPT !.lifecycle = "void", !.grant.revoked_at = now] ELSE g0
      BY <3>1 DEF VoidPendingGrants
    <3>3. PICK h0 \in grants :
            h = IF h0.grant.request_id = r /\ h0.lifecycle = "pending"
                THEN [h0 EXCEPT !.lifecycle = "void", !.grant.revoked_at = now] ELSE h0
      BY <3>1 DEF VoidPendingGrants
    <3>4. g.grant.request_id = g0.grant.request_id /\ h.grant.request_id = h0.grant.request_id
      BY <3>2, <3>3 DEF IInv, TypeOK, StoredGrant, Grant
    <3>5. g0 = h0
      BY <3>4 DEF IInv, OneGrantPerRequest
    <3>. QED
      BY <3>2, <3>3, <3>5
  <2>. QED
    BY <2>1, <2>2, <1>1
<1>12. PostsAuthorised'
  <2>. SUFFICES ASSUME NEW q \in posts
                PROVE  LET request == requests'[q.request_id]
                       IN /\ request.status # "unused"
                          /\ Owner[q.decided_by] # Owner[request.requester_id]
                          /\ request.amount <= Clearance[Owner[q.decided_by]]
                          /\ q.decision = "approved" /\ request.status = "pending" =>
                               \E g \in grants' : g.grant.request_id = q.request_id
                                                 /\ g.lifecycle = "pending"
    BY <1>2 DEF PostsAuthorised
  <2>1. CASE q.request_id = r
    BY <2>1, <1>1, <1>3 DEF IInv, PostsAuthorised
  <2>2. CASE q.request_id # r
    <3>1. q.request_id \in Requests /\ requests'[q.request_id] = requests[q.request_id]
      BY <2>2, <1>3 DEF IInv, TypeOK, Post
    <3>2. \A g \in grants : g.grant.request_id # r => g \in grants'
      BY <1>1, UpdatesKeepRows DEF RecordDecision, IInv
    <3>. QED
      BY <2>2, <3>1, <3>2 DEF IInv, PostsAuthorised
  <2>. QED
    BY <2>1, <2>2
<1>13. DecidedByAnotherWithAuthority'
  BY <1>1, <1>3, <1>4 DEF IInv, DecidedByAnotherWithAuthority
<1>14. LiftsSpendTheGrant'
  <2>1. \A h \in grants' : \E g \in grants :
          /\ h.grant.request_id = g.grant.request_id
          /\ h.grant.uses_remaining = g.grant.uses_remaining
    BY SettledGrant DEF SameIssue
  <2>2. LiftsSpendTheGrant /\ lifts' = lifts
    BY <1>2 DEF IInv
  <2>3. \A q \in Requests : lifts[q] # <<>> => requests'[q] = requests[q]
    BY <1>3, <1>5
  <2>. QED
    BY <2>1, <2>2, <2>3 DEF LiftsSpendTheGrant
<1>15. LiftedAsApproved'
  <2>1. LiftedAsApproved /\ lifts' = lifts
    BY <1>2 DEF IInv
  <2>2. \A q \in Requests : \A i \in DOMAIN lifts[q] : requests'[q] = requests[q]
    BY <1>3, <1>5
  <2>. QED
    BY <2>1, <2>2 DEF LiftedAsApproved
<1>. QED
  BY <1>7, <1>8, <1>9, <1>10, <1>11, <1>12, <1>13, <1>14, <1>15 DEF IInv

\* The grant a call over its caller's authority is let through on: unspent, the
\* caller's own, for this resource and at least this amount, of an approval
\* recorded less than a lifetime ago.
LEMMA SelectedGrant ==
  ASSUME IInv, NEW a \in Accounts, NEW l \in Loans, NEW n \in Amounts,
         NEW g \in Selected(Owner[a], l, n)
  PROVE  LET request == requests[g.grant.request_id]
         IN /\ g \in grants /\ g \in StoredGrant /\ g.grant \in Grant
            /\ g.grant.request_id \in Requests
            /\ g.lifecycle = "active" /\ request.status = "approved"
            /\ g.grant.uses_remaining = 1
            /\ Owner[a] = Owner[request.requester_id]
            /\ l = request.resource_id
            /\ n <= request.amount
            /\ request.decided_at \in Nat
            /\ request.decided_at <= now
            /\ now < request.decided_at + GrantTtl
            /\ lifts[g.grant.request_id] = <<>>
<1>. DEFINE subject == Owner[a]
            r == g.grant.request_id
<1>1. /\ g \in grants /\ g.grant.subject_id = subject /\ Usable(g)
      /\ Authorises(g.grant, ApproveCall(subject, l, n), now)
  BY DEF Selected, Valid, GrantsFor
<1>2. /\ g \in StoredGrant /\ g.grant \in Grant /\ r \in Requests
      /\ now \in Nat
  BY <1>1 DEF IInv, TypeOK, StoredGrant, Grant
<1>3. g.grant.pinned_inputs["loan_id"] = l
  <2>1. "loan_id" \in DOMAIN g.grant.pinned_inputs
    BY <1>2 DEF Grant
  <2>2. ReadPath(ApproveCall(subject, l, n).inputs, "loan_id") = l
    BY DEF ReadPath, ApproveCall
  <2>. QED
    BY <1>1, <2>1, <2>2 DEF Authorises, PinnedInputsMatch, PinnedInputMatches
<1>4. n <= g.grant.ceiling.max
  <2>1. g.grant.ceiling.input = "amount" /\ g.grant.ceiling # Null
    BY <1>2, AccountsAssumption DEF Grant
  <2>2. ReadPath(ApproveCall(subject, l, n).inputs, "amount") = n
    BY DEF ReadPath, ApproveCall
  <2>. QED
    BY <1>1, <2>1, <2>2 DEF Authorises, WithinCeiling
<1>5. g.grant.uses_remaining = 1 /\ now < g.grant.expires_at
  <2>1. g.grant.uses_remaining \in {0, 1} /\ Null \notin Nat
    BY <1>2, AccountsAssumption DEF Grant
  <2>. QED
    BY <1>1, <2>1 DEF Authorises, UsesRemaining, WithinWindow
<1>6. g.lifecycle = "active" /\ requests[r].status = "approved"
  BY <1>1 DEF Usable
<1>7. requests[r].decided_at \in Nat /\ requests[r].decided_at <= now
  BY <1>2, <1>6 DEF IInv, RequestsComplete, Decisions
<1>8. /\ subject = requests[r].requester_id
      /\ l = requests[r].resource_id
      /\ n <= requests[r].amount
  BY <1>1, <1>3, <1>4 DEF IInv, GrantsAsRequested
<1>9. subject = Owner[requests[r].requester_id]
  BY <1>8, SubjectsAreAccounts
<1>10. now < requests[r].decided_at + GrantTtl
  <2>1. /\ g.grant.expires_at = g.grant.issued_at + GrantTtl
        /\ g.grant.issued_at <= requests[r].decided_at
        /\ g.grant.issued_at \in Nat /\ GrantTtl \in Nat
    BY <1>1, <1>2, <1>6, AccountsAssumption DEF IInv, GrantsAsRequested, Grant
  <2>. QED
    BY <2>1, <1>2, <1>5, <1>7
<1>11. lifts[r] = <<>>
  BY <1>1, <1>2, <1>5 DEF IInv, LiftsSpendTheGrant
<1>. QED
  BY <1>1, <1>2, <1>5, <1>6, <1>7, <1>8, <1>9, <1>10, <1>11

\* The call is over its caller's authority.
LEMMA OverAuthority ==
  ASSUME NEW a \in Accounts, NEW l \in Loans, NEW n \in Amounts,
         NEW ok \in BOOLEAN, PreApproveLoan(a, l, n, ok)
  PROVE  /\ Owner[a] \in Subjects
         /\ Clearance[Owner[a]] \in Nat
         /\ n \in Nat
         /\ Clearance[Owner[a]] < n
<1>1. /\ Owner[a] \in Subjects /\ Clearance[Owner[a]] \in Nat /\ n \in Nat
  BY AccountsAssumption, SubjectsAreAccounts
<1>2. ~(n <= Clearance[Owner[a]])
  BY DEF PreApproveLoan, FindSubject, WithinClearance
<1>. QED
  BY <1>1, <1>2

LEMMA PreApproveLoanIInv ==
  ASSUME IInv, NEW a \in Accounts, NEW l \in Loans, NEW n \in Amounts,
         NEW ok \in BOOLEAN, PreApproveLoan(a, l, n, ok)
  PROVE  IInv'
<1>. DEFINE subject == Owner[a]
<1>1. /\ subject \in Subjects
      /\ Clearance[subject] \in Nat
      /\ n \in Nat
      /\ Clearance[subject] < n
  BY OverAuthority
<1>2. PICK g \in Selected(subject, l, n) :
        /\ grants' = ConsumeUse(g)
        /\ lifts' = IF ok
                    THEN [lifts EXCEPT ![g.grant.request_id] = Append(@,
                            [user |-> subject, resource_id |-> l,
                             amount |-> n, at |-> now])]
                    ELSE lifts
  BY DEF PreApproveLoan, FindSubject
<1>3. UNCHANGED <<requests, posts, now>>
  BY DEF PreApproveLoan, FindSubject
<1>. DEFINE r == g.grant.request_id
            spent == [g EXCEPT !.grant = ConsumeGrant(g.grant)]
            lift == [user |-> subject, resource_id |-> l, amount |-> n, at |-> now]
<1>4. /\ g \in grants /\ g \in StoredGrant /\ g.grant \in Grant /\ r \in Requests
      /\ now \in Nat
  BY SelectedGrant DEF IInv, TypeOK
<1>5. /\ g.lifecycle = "active"
      /\ requests[r].status = "approved"
      /\ g.grant.uses_remaining = 1
      /\ subject = Owner[requests[r].requester_id]
      /\ l = requests[r].resource_id
      /\ n <= requests[r].amount
      /\ lifts[r] = <<>>
  BY SelectedGrant
<1>6. /\ spent \in StoredGrant
      /\ SameIssue(g, spent)
      /\ spent.lifecycle = g.lifecycle
      /\ spent.grant.revoked_at = g.grant.revoked_at
      /\ spent.grant.uses_remaining = 0
  <2>1. Null \notin Nat
    BY AccountsAssumption
  <2>2. ConsumeGrant(g.grant) = [g.grant EXCEPT !.uses_remaining = 0]
    BY <2>1, <1>4, <1>5 DEF ConsumeGrant, Grant
  <2>3. [g.grant EXCEPT !.uses_remaining = 0] \in Grant
    BY <1>4 DEF Grant
  <2>. QED
    BY <2>2, <2>3, <1>4 DEF StoredGrant, Grant, SameIssue
<1>7. \A h \in grants : h.grant.request_id = r => h = g
  BY <1>4 DEF IInv, OneGrantPerRequest
<1>8. /\ grants' = (grants \ {g}) \cup {spent}
      /\ \A h \in grants' : h # spent => h \in grants /\ h.grant.request_id # r
  BY <1>2, <1>7 DEF ConsumeUse
<1>. HIDE DEF spent
<1>10. /\ \A q \in Requests : q # r => lifts'[q] = lifts[q]
       /\ lifts'[r] \in {<<>>, <<lift>>}
       /\ lifts' \in [Requests -> Seq(Lift)]
  <2>1. lift \in Lift
    BY <1>1, <1>4 DEF Lift
  <2>2. lifts \in [Requests -> Seq(Lift)]
    BY DEF IInv, TypeOK
  <2>3. Append(lifts[r], lift) = <<lift>>
    BY <1>5
  <2>4. <<lift>> \in Seq(Lift)
    BY <2>1
  <2>. QED
    BY <1>2, <1>4, <1>5, <2>2, <2>3, <2>4
<1>11. TypeOK'
  BY <1>3, <1>6, <1>8, <1>10 DEF IInv, TypeOK
<1>12. RequestsComplete' /\ DecidedByAnotherWithAuthority'
  BY <1>3 DEF IInv, RequestsComplete, DecidedByAnotherWithAuthority
<1>13. GrantsAsRequested'
  BY <1>3, <1>4, <1>6, <1>8 DEF IInv, GrantsAsRequested, SameIssue
<1>14. OneGrantPerRequest'
  BY <1>6, <1>8 DEF IInv, OneGrantPerRequest, SameIssue
<1>15. OutcomeGovernsGrant'
  BY <1>3, <1>4, <1>5, <1>6, <1>8 DEF IInv, OutcomeGovernsGrant, SameIssue
<1>16. PostsAuthorised'
  <2>1. \A h \in grants : h.lifecycle = "pending" => h \in grants'
    BY <1>5, <1>8
  <2>. QED
    BY <2>1, <1>3 DEF IInv, PostsAuthorised
<1>17. /\ requests[r].decided_at \in Nat /\ requests[r].decided_at <= now
       /\ now < requests[r].decided_at + GrantTtl
  BY SelectedGrant
<1>18. LiftsSpendTheGrant'
  <2>. SUFFICES ASSUME NEW q \in Requests, lifts'[q] # <<>>
                PROVE  /\ Len(lifts'[q]) = 1
                       /\ requests[q].status \in {"approved", "erased"}
                       /\ requests[q].decided_at \in Nat
                       /\ \A h \in grants' : h.grant.request_id = q =>
                            h.grant.uses_remaining = 0
    BY <1>3 DEF LiftsSpendTheGrant
  <2>1. CASE q = r
    BY <2>1, <1>5, <1>6, <1>8, <1>10, <1>17
  <2>2. CASE q # r
    BY <2>2, <1>6, <1>8, <1>10 DEF IInv, LiftsSpendTheGrant, SameIssue
  <2>. QED
    BY <2>1, <2>2
<1>19. LiftedAsApproved'
  <2>. SUFFICES ASSUME NEW q \in Requests, NEW i \in DOMAIN lifts'[q]
                PROVE  /\ lifts'[q][i].user = Owner[requests[q].requester_id]
                       /\ lifts'[q][i].resource_id = requests[q].resource_id
                       /\ lifts'[q][i].amount <= requests[q].amount
                       /\ lifts'[q][i].amount > Clearance[lifts'[q][i].user]
                       /\ requests[q].decided_at <= lifts'[q][i].at
                       /\ lifts'[q][i].at < requests[q].decided_at + GrantTtl
    BY <1>3 DEF LiftedAsApproved
  <2>1. CASE q = r
    <3>1. lifts'[q][i] = lift
      BY <2>1, <1>10
    <3>. QED
      BY <2>1, <3>1, <1>1, <1>5, <1>17
  <2>2. CASE q # r
    BY <2>2, <1>10 DEF IInv, LiftedAsApproved
  <2>. QED
    BY <2>1, <2>2
<1>. QED
  BY <1>11, <1>12, <1>13, <1>14, <1>15, <1>16, <1>18, <1>19 DEF IInv

\* IInv holds of the initial state and every step keeps it.
LEMMA Inductive == Spec => []IInv
<1>1. Init => IInv
  BY InitIInv
<1>2. IInv /\ [Next]_vars => IInv'
  <2>. SUFFICES ASSUME IInv, [Next]_vars PROVE IInv'
    OBVIOUS
  <2>1. ASSUME NEW r \in Requests, NEW a \in Accounts, NEW l \in Loans,
               NEW n \in Amounts, RequestApproval(r, a, l, n)
        PROVE  IInv'
    BY <2>1, RequestApprovalIInv
  <2>2. ASSUME NEW r \in Requests, NEW a \in Accounts, NEW d \in Decisions,
               NEW ok \in BOOLEAN, PreDecide(a, r, d, ok)
        PROVE  IInv'
    BY <2>2, PreDecideIInv
  <2>3. CASE UNCHANGED vars
    BY <2>3 DEF vars, IInv, TypeOK, RequestsComplete, GrantsAsRequested,
       OutcomeGovernsGrant, OneGrantPerRequest, PostsAuthorised,
       DecidedByAnotherWithAuthority, LiftsSpendTheGrant, LiftedAsApproved
  <2>4. ASSUME NEW p \in posts, Decide(p) PROVE IInv'
    BY <2>3, <2>4, RecordDecisionIInv DEF Decide, RefuseDecision
  <2>5. ASSUME NEW a \in Accounts, NEW l \in Loans, NEW n \in Amounts,
               NEW ok \in BOOLEAN, PreApproveLoan(a, l, n, ok)
        PROVE  IInv'
    BY <2>5, PreApproveLoanIInv
  <2>6. CASE DemoReset
    BY <2>6, DemoResetIInv
  <2>7. CASE Tick
    BY <2>7, TickIInv
  <2>. QED
    BY <2>1, <2>2, <2>3, <2>4, <2>5, <2>6, <2>7 DEF Next
<1>. QED
  BY <1>1, <1>2, PTL DEF Spec

-----------------------------------------------------------------------------
(* What follows from it.                                                   *)

\* Every variable keeps its type, the tables of approvals-store.ts and
\* grants-store.ts included.
THEOREM TypeCorrect == Spec => []TypeOK
<1>1. IInv => TypeOK
  BY DEF IInv
<1>. QED
  BY <1>1, Inductive, PTL

\* No interleaving of pre-hooks, decisions, losing decisions and resets leaves
\* a grant in a lifecycle its request's recorded outcome does not justify
\* (approvals-store.ts, recordDecision).
THEOREM OutcomeGoverns == Spec => []OutcomeGovernsGrant
<1>1. IInv => OutcomeGovernsGrant
  BY DEF IInv
<1>. QED
  BY <1>1, Inductive, PTL

\* Any number of Decide calls let through for one request mint one grant
\* (grants-store.ts, insertGrant).
THEOREM MintedOnce == Spec => []OneGrantPerRequest
<1>1. IInv => OneGrantPerRequest
  BY DEF IInv
<1>. QED
  BY <1>1, Inductive, PTL

\* Every recorded decision was another person's, with the authority for the
\* amount, although the store endpoint checks neither.
THEOREM DecidedByAuthority == Spec => []DecidedByAnotherWithAuthority
<1>1. IInv => DecidedByAnotherWithAuthority
  BY DEF IInv
<1>. QED
  BY <1>1, Inductive, PTL

\* One approval lets one call through, whatever was lost or retried
\* (handlers.ts, decidePre; grants-store.ts, persistConsumption).
THEOREM UsedOnce == Spec => []SingleUse
<1>1. IInv => SingleUse
  <2>. SUFFICES ASSUME IInv, NEW r \in Requests PROVE Len(lifts[r]) <= 1
    BY DEF SingleUse
  <2>1. CASE lifts[r] = <<>>
    <3>1. Len(lifts[r]) = 0
      BY <2>1
    <3>. QED
      BY <3>1
  <2>2. CASE lifts[r] # <<>>
    <3>1. Len(lifts[r]) = 1
      BY <2>2 DEF IInv, LiftsSpendTheGrant
    <3>. QED
      BY <3>1
  <2>. QED
    BY <2>1, <2>2
<1>. QED
  BY <1>1, Inductive, PTL

\* Every call a grant let through was the requester's, on the resource, within
\* the amount and within the lifetime of the recorded approval.
THEOREM LiftedWithinApproval == Spec => []LiftedAsApproved
<1>1. IInv => LiftedAsApproved
  BY DEF IInv
<1>. QED
  BY <1>1, Inductive, PTL

\* A recorded outcome and its decider never change (approvals-store.ts, the
\* WHERE status = 'pending' of recordDecision).
THEOREM FinalDecision == Spec => DecisionIsFinal
<1>. DEFINE Final == \A r \in Requests : requests[r].status \in Decisions =>
                       \/ requests'[r] = requests[r]
                       \/ requests'[r].status = "erased"
<1>1. IInv /\ [Next]_vars => [Final]_vars
  <2>. SUFFICES ASSUME IInv, Next, NEW r \in Requests, requests[r].status \in Decisions
                PROVE  requests'[r] = requests[r] \/ requests'[r].status = "erased"
    BY DEF vars
  <2>1. requests[r].status \in {"approved", "denied"} /\ requests \in [Requests -> Request]
    BY DEF Decisions, IInv, TypeOK
  <2>2. CASE \E q \in Requests, a \in Accounts, l \in Loans, n \in Amounts :
               RequestApproval(q, a, l, n)
    BY <2>1, <2>2 DEF RequestApproval, CreateApproval, PendingRequest
  <2>3. CASE \E p \in posts : Decide(p)
    BY <2>1, <2>3 DEF Decide, RecordDecision, RefuseDecision, vars
  <2>4. CASE DemoReset
    BY <2>1, <2>4 DEF DemoReset, Request
  <2>5. CASE UNCHANGED requests
    BY <2>5
  <2>. QED
    BY <2>2, <2>3, <2>4, <2>5 DEF Next, PreDecide, PreApproveLoan, Tick
<1>. QED
  BY <1>1, Inductive, PTL DEF Spec, DecisionIsFinal

-----------------------------------------------------------------------------
(* What an approval is good for: beside IInv, a grant is of two people and  *)
(* only a voided one is revoked.                                           *)

LEMMA GrantsStandStep ==
  ASSUME IInv, GrantsStand, [Next]_vars
  PROVE  GrantsStand'
<1>. SUFFICES ASSUME NEW h \in grants'
              PROVE  /\ h.grant.granted_by # h.grant.subject_id
                     /\ h.lifecycle # "void" => h.grant.revoked_at = Null
  BY DEF GrantsStand
<1>1. CASE h \in grants
  BY <1>1 DEF GrantsStand
<1>2. ASSUME NEW r \in Requests, NEW a \in Accounts, NEW d \in Decisions,
             NEW ok \in BOOLEAN, PreDecide(a, r, d, ok), h \notin grants
      PROVE  /\ h.grant.granted_by # h.grant.subject_id
             /\ h.grant.revoked_at = Null
  <2>1. h.grant = GrantFrom(r, Owner[a])
    BY <1>2 DEF PreDecide, InsertGrant
  <2>2. Owner[requests[r].requester_id] # Owner[a]
    BY <1>2 DEF PreDecide, MayDecide
  <2>3. Owner[Owner[a]] = Owner[a]
    BY AccountsAssumption
  <2>. QED
    BY <2>1, <2>2, <2>3 DEF GrantFrom
<1>3. ASSUME NEW p \in posts, RecordDecision(p)
      PROVE  /\ h.grant.granted_by # h.grant.subject_id
             /\ h.lifecycle # "void" => h.grant.revoked_at = Null
  <2>1. p.request_id \in Requests /\ TypeOK
    BY DEF IInv, TypeOK, Post
  <2>2. CASE h \in ActivatePendingGrants(p.request_id)
    <3>1. PICK g \in grants :
            /\ h.grant = g.grant
            /\ IF g.grant.request_id = p.request_id /\ g.lifecycle = "pending"
               THEN h.lifecycle = "active" ELSE h = g
      BY <2>1, <2>2, ActivationOnly
    <3>. QED
      BY <3>1 DEF GrantsStand
  <2>3. CASE h \in VoidPendingGrants(p.request_id)
    <3>1. PICK g \in grants :
            h = IF g.grant.request_id = p.request_id /\ g.lifecycle = "pending"
                THEN [g EXCEPT !.lifecycle = "void", !.grant.revoked_at = now] ELSE g
      BY <2>3 DEF VoidPendingGrants
    <3>2. g \in StoredGrant
      BY <2>1 DEF TypeOK
    <3>. QED
      BY <3>1, <3>2 DEF GrantsStand, StoredGrant, Grant
  <2>. QED
    BY <1>3, <2>2, <2>3 DEF RecordDecision
<1>4. ASSUME NEW a \in Accounts, NEW l \in Loans, NEW n \in Amounts,
             NEW ok \in BOOLEAN, PreApproveLoan(a, l, n, ok)
      PROVE  /\ h.grant.granted_by # h.grant.subject_id
             /\ h.lifecycle # "void" => h.grant.revoked_at = Null
  <2>1. PICK g \in Selected(Owner[a], l, n) : grants' = ConsumeUse(g)
    BY <1>4 DEF PreApproveLoan, FindSubject
  <2>2. g \in grants /\ g \in StoredGrant
    BY SelectedGrant
  <2>3. CASE h = [g EXCEPT !.grant = ConsumeGrant(g.grant)]
    BY <2>2, <2>3 DEF GrantsStand, ConsumeGrant, StoredGrant, Grant
  <2>. QED
    BY <1>1, <2>1, <2>3 DEF ConsumeUse
<1>. QED
  BY <1>1, <1>2, <1>3, <1>4 DEF Next, vars, RequestApproval, CreateApproval,
     Decide, RefuseDecision, DemoReset, Tick

LEMMA GrantsKeepStanding == Spec => []GrantsStand
<1>1. Init => GrantsStand
  BY DEF Init, GrantsStand
<1>. QED
  BY <1>1, Inductive, GrantsStandStep, PTL DEF Spec

\* The nine checks pass for an approved, unspent grant in its lifetime and the
\* call it was approved for.
LEMMA UnspentApprovalIsValid ==
  ASSUME IInv, GrantsStand, NEW g \in grants, NEW n \in Amounts,
         requests[g.grant.request_id].status = "approved",
         g.grant.uses_remaining = 1,
         now < g.grant.issued_at + GrantTtl,
         n <= requests[g.grant.request_id].amount
  PROVE  g \in Valid(g.grant.subject_id, g.grant.resource_id, n)
<1>. DEFINE call == ApproveCall(g.grant.subject_id, g.grant.resource_id, n)
<1>1. /\ g.grant \in Grant /\ g.lifecycle \in {"pending", "active", "void"}
      /\ now \in Nat
  BY DEF IInv, TypeOK, StoredGrant
<1>2. g.lifecycle = "active"
  BY <1>1 DEF IInv, OutcomeGovernsGrant
<1>3. /\ g.grant.issued_at <= now
      /\ g.grant.expires_at = g.grant.issued_at + GrantTtl
      /\ g.grant.pinned_inputs["loan_id"] = g.grant.resource_id
      /\ g.grant.ceiling.max = requests[g.grant.request_id].amount
  BY DEF IInv, GrantsAsRequested
<1>4. /\ g.grant.issued_at \in Nat /\ g.grant.expires_at \in Nat
      /\ g.grant.ceiling.input = "amount" /\ g.grant.ceiling.max \in Nat
      /\ DOMAIN g.grant.pinned_inputs = {"loan_id"}
      /\ g.grant.match = ApproveLoan
      /\ n \in Int /\ Null \notin Int
  <2>1. /\ g.grant.issued_at \in Nat /\ g.grant.expires_at \in Nat
        /\ g.grant.ceiling \in [input : {"amount"}, max : Amounts]
        /\ g.grant.pinned_inputs \in [{"loan_id"} -> Loans]
        /\ g.grant.match = ApproveLoan
    BY <1>1 DEF Grant
  <2>2. /\ g.grant.ceiling.input = "amount" /\ g.grant.ceiling.max \in Nat
        /\ DOMAIN g.grant.pinned_inputs = {"loan_id"}
    BY <2>1, AccountsAssumption
  <2>3. n \in Int /\ Null \notin Int
    BY AccountsAssumption
  <2>. QED
    BY <2>1, <2>2, <2>3
<1>5. g.grant.granted_by # g.grant.subject_id /\ g.grant.revoked_at = Null
  BY <1>2 DEF GrantsStand
<1>6. /\ call.user = g.grant.subject_id /\ call.tool = ApproveLoan
      /\ ReadPath(call.inputs, "loan_id") = g.grant.resource_id
      /\ ReadPath(call.inputs, "amount") = n
  BY DEF ApproveCall, ReadPath
<1>. HIDE DEF call
<1>7. Enforceable(g.grant)
  <2>1. g.grant.match.toolkit # Wildcard /\ g.grant.match.tool # Wildcard
    BY <1>4, WildcardAssumption DEF ApproveLoan
  <2>2. ReadPath(g.grant.pinned_inputs, "amount") = Null
    BY <1>4 DEF ReadPath
  <2>3. "loan_id" \in ResourceCarryingInputs(g.grant) \/ g.grant.resource_id = Null
    BY <1>3, <1>4 DEF ResourceCarryingInputs
  <2>. QED
    BY <2>1, <2>2, <2>3, <1>4, <1>5 DEF Enforceable, Unparsable, Unbounded
<1>8. WithinWindow(g.grant, now) /\ UsesRemaining(g.grant)
  BY <1>3 DEF WithinWindow, UsesRemaining
<1>9. PinnedInputsMatch(g.grant, call)
  BY <1>3, <1>4, <1>6 DEF PinnedInputsMatch, PinnedInputMatches
<1>10. WithinCeiling(g.grant, call)
  BY <1>3, <1>4, <1>6 DEF WithinCeiling
<1>11. Authorises(g.grant, call, now)
  BY <1>4, <1>5, <1>6, <1>7, <1>8, <1>9, <1>10 DEF Authorises, NotSelfApproved,
     IssuedToThisSubject, NotRevoked, ScopedToThisTool
<1>. QED
  BY <1>2, <1>4, <1>11 DEF Valid, GrantsFor, Usable, call

\* An approval is good for its lifetime: no sequence of decisions, replays, other
\* approvals and uses leaves its requester, over whichever spelling the payload
\* carries this time, without a grant for the approved call (grants-store.ts,
\* grantsFor and whyUnusable; grant-checker.ts, selectGrant).
THEOREM ApprovalsStand == Spec => []ApprovalStands
<1>1. IInv /\ GrantsStand => ApprovalStands
  <2>. SUFFICES ASSUME IInv, GrantsStand, NEW g \in grants, NEW a \in Accounts,
                       NEW n \in Amounts,
                       requests[g.grant.request_id].status = "approved",
                       g.grant.uses_remaining = 1,
                       now < g.grant.issued_at + GrantTtl,
                       Owner[a] = requests[g.grant.request_id].requester_id,
                       n <= requests[g.grant.request_id].amount
                PROVE  \E subject \in FindSubject(a) :
                         Selected(subject, requests[g.grant.request_id].resource_id, n) # {}
    BY DEF ApprovalStands
  <2>. DEFINE valid == Valid(Owner[a], requests[g.grant.request_id].resource_id, n)
              T == {h.grant.issued_at : h \in valid}
  <2>1. /\ g.grant.subject_id = Owner[a]
        /\ g.grant.resource_id = requests[g.grant.request_id].resource_id
    BY DEF IInv, GrantsAsRequested
  <2>2. g \in valid
    BY <2>1, UnspentApprovalIsValid
  <2>3. \A h \in valid : h.grant.issued_at \in Nat
    BY DEF Valid, GrantsFor, IInv, TypeOK, StoredGrant, Grant
  <2>4. PICK x \in T : \A y \in T : x <= y
    <3>1. T \in SUBSET Nat /\ T # {}
      BY <2>2, <2>3
    <3>. HIDE DEF T
    <3>. QED
      BY <3>1, LeastExists
  <2>5. PICK h \in valid : \A k \in valid : h.grant.issued_at <= k.grant.issued_at
    BY <2>4
  <2>6. h \in Selected(Owner[a], requests[g.grant.request_id].resource_id, n)
    BY <2>5 DEF Selected
  <2>7. Owner[a] \in FindSubject(a)
    BY SubjectsAreAccounts DEF FindSubject
  <2>. QED
    BY <2>6, <2>7
<1>. QED
  BY <1>1, Inductive, GrantsKeepStanding, PTL

-----------------------------------------------------------------------------
(* The refinement: one lemma per action that shows.                        *)

LEMMA RequestApprovalRaises ==
  ASSUME NEW r \in Requests, NEW a \in Accounts, NEW l \in Loans,
         NEW n \in Amounts, RequestApproval(r, a, l, n)
  PROVE  Authority!Raise(r, a, l, n)
<1>1. PICK s \in Subjects : s # a /\ Clearance[s] >= n
  BY DEF RequestApproval, CreateApproval, PendingRequest, Candidates
<1>2. /\ s \in Accounts /\ Owner[s] = s
      /\ Clearance[s] \in Nat /\ n \in Nat
  BY <1>1, SubjectsAreAccounts, AccountsAssumption
<1>3. Owner[s] # a /\ n <= Clearance[Owner[s]]
  BY <1>1, <1>2
<1>. QED
  BY <1>2, <1>3 DEF RequestApproval, CreateApproval, PendingRequest, Authority!Raise

LEMMA RecordDecisionSettles ==
  ASSUME IInv, NEW p \in posts, RecordDecision(p)
  PROVE  Authority!Settle(p.request_id, p.decided_by, p.decision)
  BY DEF IInv, PostsAuthorised, RecordDecision, Authority!Settle

LEMMA PreApproveLoanExercises ==
  ASSUME IInv, NEW a \in Accounts, NEW l \in Loans, NEW n \in Amounts,
         NEW ok \in BOOLEAN, PreApproveLoan(a, l, n, ok)
  PROVE  \/ \E r \in Requests : Authority!Exercise(r, n)
         \/ UNCHANGED Authority!vars
<1>1. CASE ok
  <2>1. PICK g \in Selected(Owner[a], l, n) :
          lifts' = [lifts EXCEPT ![g.grant.request_id] = Append(@,
                      [user |-> Owner[a], resource_id |-> l, amount |-> n, at |-> now])]
    BY <1>1 DEF PreApproveLoan, FindSubject
  <2>2. Append(<<>>, [user |-> Owner[a], resource_id |-> l, amount |-> n, at |-> now])
          = <<[user |-> Owner[a], resource_id |-> l, amount |-> n, at |-> now]>>
    OBVIOUS
  <2>3. Clearance[Owner[a]] < n
    BY OverAuthority
  <2>. DEFINE r == g.grant.request_id
  <2>4. /\ r \in Requests
        /\ requests[r].status = "approved"
        /\ lifts[r] = <<>>
        /\ Owner[a] = Owner[requests[r].requester_id]
        /\ l = requests[r].resource_id
        /\ n <= requests[r].amount
        /\ requests[r].decided_at <= now
        /\ now < requests[r].decided_at + GrantTtl
    BY SelectedGrant
  <2>5. UNCHANGED <<requests, now>>
    BY DEF PreApproveLoan, FindSubject
  <2>6. lifts' = [lifts EXCEPT ![r] =
          <<[user |-> Owner[requests[r].requester_id],
             resource_id |-> requests[r].resource_id, amount |-> n, at |-> now]>>]
    BY <2>1, <2>2, <2>4
  <2>7. Authority!Exercise(r, n)
    BY <2>3, <2>4, <2>5, <2>6 DEF Authority!Exercise
  <2>. QED
    BY <2>4, <2>7
<1>2. CASE ~ok
  BY <1>2 DEF PreApproveLoan, FindSubject, Authority!vars
<1>. QED
  BY <1>1, <1>2

\* The approval flow implements ApprovalAuthority: what the tables, the hooks
\* and the store do together is what the abstract specification allows.
THEOREM Refinement == Spec => ImplementsAuthority
<1>1. Init => Authority!Init
  BY DEF Init, UnusedRequest, Authority!Init
<1>2. IInv /\ [Next]_vars => [Authority!Next]_(Authority!vars)
  <2>. SUFFICES ASSUME IInv, [Next]_vars
                PROVE  Authority!Next \/ UNCHANGED Authority!vars
    OBVIOUS
  <2>1. ASSUME NEW r \in Requests, NEW a \in Accounts, NEW l \in Loans,
               NEW n \in Amounts, RequestApproval(r, a, l, n)
        PROVE  Authority!Next
    BY <2>1, RequestApprovalRaises DEF Authority!Next
  <2>2. ASSUME NEW r \in Requests, NEW a \in Accounts, NEW d \in Decisions,
               NEW ok \in BOOLEAN, PreDecide(a, r, d, ok)
        PROVE  UNCHANGED Authority!vars
    BY <2>2 DEF PreDecide, Authority!vars
  <2>3. ASSUME NEW p \in posts, Decide(p)
        PROVE  Authority!Next \/ UNCHANGED Authority!vars
    <3>1. /\ p.request_id \in Requests /\ p.decided_by \in Accounts
          /\ p.decision \in {"approved", "denied"}
      BY DEF IInv, TypeOK, Post, Decisions
    <3>. QED
      BY <2>3, <3>1, RecordDecisionSettles
      DEF Decide, RefuseDecision, vars, Authority!Next, Authority!vars
  <2>4. ASSUME NEW a \in Accounts, NEW l \in Loans, NEW n \in Amounts,
               NEW ok \in BOOLEAN, PreApproveLoan(a, l, n, ok)
        PROVE  Authority!Next \/ UNCHANGED Authority!vars
    BY <2>4, PreApproveLoanExercises DEF Authority!Next
  <2>5. CASE DemoReset
    BY <2>5 DEF DemoReset, Authority!Next, Authority!Erase
  <2>6. CASE Tick
    BY <2>6 DEF Tick, Authority!Next, Authority!Tick
  <2>7. CASE UNCHANGED vars
    BY <2>7 DEF vars, Authority!vars
  <2>. QED
    BY <2>1, <2>2, <2>3, <2>4, <2>5, <2>6, <2>7 DEF Next
<1>. QED
  BY <1>1, <1>2, Inductive, PTL DEF Spec, ImplementsAuthority, Authority!Spec
==============================================================================
