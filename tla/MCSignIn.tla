------------------------------ MODULE MCSignIn ------------------------------
(* One browser, two people, one tool authorization waiting for the first.  *)
EXTENDS SignIn, TLC

CONSTANTS p1, p2, f1

MCPeople == {p1, p2}
MCFlows == {f1}
MCOwnerOf == [f \in MCFlows |-> p1]

\* Requests are interchangeable: none is told from another but by its name.
MCSymmetry == Permutations(HttpRequests)
=============================================================================
