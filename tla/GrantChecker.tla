---------------------------- MODULE GrantChecker ----------------------------
(***************************************************************************)
(* packages/governance-core/src/grant-checker.ts: does this grant          *)
(* authorise this call?  Pure operators over one grant and one call; no    *)
(* clock, no store.  A call is [user, tool, inputs]: the resolved subject, *)
(* the tool reference and the arguments of the call being made.            *)
(*                                                                         *)
(* Instants are naturals and amounts integers.  Unparsable stands for a timestamp   *)
(* Date.parse cannot read and Unbounded for a ceiling that is not finite:  *)
(* both are integers below every natural, so that they compare without a   *)
(* type error and no check but Enforceable depends on them.                *)
(***************************************************************************)
EXTENDS Integers, Sequences

CONSTANTS
  Null,        \* JavaScript null: no ceiling, no resource, no limit on uses
  Wildcard     \* the "*" of a tool matcher

Unparsable == -1
Unbounded == -1

-----------------------------------------------------------------------------
(* Reading a call's inputs.                                                *)

ReadPath(inputs, key) == IF key \in DOMAIN inputs THEN inputs[key] ELSE Null

\* The pinned inputs that hold the call to the grant's resource.
ResourceCarryingInputs(g) ==
  IF g.resource_id = Null THEN {}
  ELSE {k \in DOMAIN g.pinned_inputs : g.pinned_inputs[k] = g.resource_id}

-----------------------------------------------------------------------------
(* The checks, in the order CHECKS lists them.                             *)

\* Mutant of Enforceable: a resource need not be pinned.
EnforceableUnpinned(g) ==
  /\ g.match.toolkit # Wildcard /\ g.match.tool # Wildcard
  /\ Unparsable \notin {g.issued_at, g.expires_at, g.revoked_at}
  /\ g.ceiling # Null => /\ g.ceiling.max # Unbounded
                         /\ ReadPath(g.pinned_inputs, g.ceiling.input) = Null

Enforceable(g) ==
  /\ g.match.toolkit # Wildcard
  /\ g.match.tool # Wildcard
  /\ g.issued_at # Unparsable
  /\ g.expires_at # Unparsable
  /\ g.revoked_at # Unparsable
  /\ g.ceiling # Null => /\ g.ceiling.max # Unbounded
                         /\ ReadPath(g.pinned_inputs, g.ceiling.input) = Null
  /\ g.resource_id # Null => ResourceCarryingInputs(g) # {}

NotSelfApproved(g) == g.granted_by # g.subject_id

IssuedToThisSubject(g, call) == g.subject_id = call.user

NotRevoked(g) == g.revoked_at = Null

\* Mutant: only the start of the window is looked at.
WithinOpenWindow(g, now) == g.issued_at <= now

\* [issued_at, expires_at): a grant good until t is not good at t.
WithinWindow(g, now) == g.issued_at <= now /\ now < g.expires_at

UsesRemaining(g) == g.uses_remaining = Null \/ g.uses_remaining > 0

ScopedToThisTool(g, call) == g.match = call.tool

PinnedInputMatches(g, call, k) == ReadPath(call.inputs, k) = g.pinned_inputs[k]

PinnedInputsMatch(g, call) ==
  \A k \in DOMAIN g.pinned_inputs : PinnedInputMatches(g, call, k)

\* Mutant: the ceiling's input is present, and its value is not compared.
CeilingInputPresent(g, call) ==
  g.ceiling # Null => ReadPath(call.inputs, g.ceiling.input) \in Int

\* Inclusive: an approval for n authorises n.
WithinCeiling(g, call) ==
  g.ceiling # Null => /\ ReadPath(call.inputs, g.ceiling.input) \in Int
                      /\ ReadPath(call.inputs, g.ceiling.input) <= g.ceiling.max

\* checkGrant's happy path: every check passes.
Authorises(g, call, now) ==
  /\ Enforceable(g)
  /\ NotSelfApproved(g)
  /\ IssuedToThisSubject(g, call)
  /\ NotRevoked(g)
  /\ WithinWindow(g, now)
  /\ UsesRemaining(g)
  /\ ScopedToThisTool(g, call)
  /\ PinnedInputsMatch(g, call)
  /\ WithinCeiling(g, call)

-----------------------------------------------------------------------------
(* The reason a rejected grant is reported with: the first check to fail.  *)

Rejections == <<
  "unenforceable", "self_approved", "subject_mismatch", "revoked",
  "not_yet_valid", "expired", "consumed", "tool_mismatch",
  "resource_mismatch", "pinned_input_mismatch",
  "ceiling_input_missing", "ceiling_input_not_numeric", "ceiling_exceeded" >>

MismatchedInputs(g, call) ==
  {k \in DOMAIN g.pinned_inputs : ~PinnedInputMatches(g, call, k)}

Rejects(reason, g, call, now) ==
  CASE reason = "unenforceable" -> ~Enforceable(g)
    [] reason = "self_approved" -> ~NotSelfApproved(g)
    [] reason = "subject_mismatch" -> ~IssuedToThisSubject(g, call)
    [] reason = "revoked" -> ~NotRevoked(g)
    [] reason = "not_yet_valid" -> now < g.issued_at
    [] reason = "expired" -> now >= g.expires_at
    [] reason = "consumed" -> ~UsesRemaining(g)
    [] reason = "tool_mismatch" -> ~ScopedToThisTool(g, call)
    [] reason = "resource_mismatch" ->
         MismatchedInputs(g, call) \cap ResourceCarryingInputs(g) # {}
    [] reason = "pinned_input_mismatch" -> MismatchedInputs(g, call) # {}
    [] reason = "ceiling_input_missing" ->
         g.ceiling # Null /\ ReadPath(call.inputs, g.ceiling.input) = Null
    [] reason = "ceiling_input_not_numeric" ->
         g.ceiling # Null /\ ReadPath(call.inputs, g.ceiling.input) \notin Int
    [] reason = "ceiling_exceeded" ->
         /\ g.ceiling # Null
         /\ ReadPath(call.inputs, g.ceiling.input) > g.ceiling.max

\* The index of the first check that rejects, 0 when none does.
FirstRejection(g, call, now) ==
  IF \A i \in DOMAIN Rejections : ~Rejects(Rejections[i], g, call, now) THEN 0
  ELSE CHOOSE i \in DOMAIN Rejections :
         /\ Rejects(Rejections[i], g, call, now)
         /\ \A j \in 1..(i - 1) : ~Rejects(Rejections[j], g, call, now)

CheckGrant(g, call, now) ==
  LET i == FirstRejection(g, call, now)
  IN IF i = 0 THEN "valid" ELSE Rejections[i]

-----------------------------------------------------------------------------
(* selectGrant over the rows in the caller's order, and consumeGrant.      *)

\* The position of the first grant that authorises the call, 0 when none does.
SelectGrant(grants, call, now) ==
  LET valid == {i \in DOMAIN grants : CheckGrant(grants[i], call, now) = "valid"}
  IN IF valid = {} THEN 0 ELSE CHOOSE i \in valid : \A j \in valid : i <= j

\* One use spent.  An unlimited grant stays unlimited, and zero stays zero.
ConsumeGrant(g) ==
  IF g.uses_remaining = Null \/ g.uses_remaining = 0 THEN g
  ELSE [g EXCEPT !.uses_remaining = @ - 1]
=============================================================================
