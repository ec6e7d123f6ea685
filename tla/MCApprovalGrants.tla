-------------------------- MODULE MCApprovalGrants --------------------------
(* The fixture's people in miniature: an officer whose authority is 2 and  *)
(* an approver of 4, over amounts at and above either.                     *)
EXTENDS ApprovalGrants, TLC

CONSTANTS alice, aliceUpper, michael

\* An officer, whom Arcade also names in another casing, and an approver.
OfficerAndApprover == {alice, aliceUpper, michael}
IgnoringCase ==
  [a \in OfficerAndApprover |-> IF a = michael THEN michael ELSE alice]
OfficerBelow == (alice :> 2) @@ (michael :> 4)

Interchangeable == Permutations(Requests) \cup Permutations(Loans)
=============================================================================
