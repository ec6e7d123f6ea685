-------------------------- MODULE MCGrantSelection --------------------------
(* Every way to fill in a grant's fields, over a few values of each, held  *)
(* before a plain single-use grant of another approval.                    *)
EXTENDS GrantSelection, TLC

CONSTANTS alice, michael, l1, l2, Text

Approve == [toolkit |-> "Loan", tool |-> "ApproveLoan"]
AnyLoanTool == [toolkit |-> "Loan", tool |-> Wildcard]
UpTo(n) == [input |-> "amount", max |-> n]
Pinning == {<<>>, "loan_id" :> l1, "loan_id" :> l2,
            ("loan_id" :> l1) @@ ("amount" :> 2)}

Filled ==
  [subject_id : {alice, michael}, granted_by : {michael},
   match : {Approve, AnyLoanTool}, resource_id : {l1, Null},
   pinned_inputs : Pinning, ceiling : {UpTo(2), UpTo(Unbounded), Null},
   issued_at : {1}, expires_at : {2, Unparsable},
   uses_remaining : {0, 1, Null}, revoked_at : {Null, 1}]

Plain ==
  [subject_id |-> alice, granted_by |-> michael, match |-> Approve,
   resource_id |-> l2, pinned_inputs |-> "loan_id" :> l2, ceiling |-> UpTo(3),
   issued_at |-> 0, expires_at |-> 3, uses_remaining |-> 1, revoked_at |-> Null]

AnyGrant == Filled \cup {Plain}

FilledThenPlain == {<<g, Plain>> : g \in Filled}

Inputs ==
  {<<>>, "loan_id" :> l1, "amount" :> 1}
    \cup {("loan_id" :> l) @@ ("amount" :> n) : l \in {l1, l2}, n \in {2, 3, Text}}

ApproveCalls ==
  [user : {alice, michael}, tool : {Approve}, inputs : Inputs]
    \cup [user : {alice}, tool : {[toolkit |-> "Loan", tool |-> "CreateLoan"]},
          inputs : {("loan_id" :> l1) @@ ("amount" :> 2)}]
=============================================================================
