------------------------- MODULE MCPolicyDecisions --------------------------
(* Every way to fill in a rule, over a few values of each field, beside two *)
(* plain rules, and a few tables that hold what no single rule can show.    *)
EXTENDS PolicyDecisions, TLC

CONSTANTS l1, Text

TextsHere == {l1, Text}

Args(required, optional) == [required |-> required, optional |-> optional]
Loan == ("ApproveLoan" :> Args({"loan_id", "amount"}, {}))
          @@ ("ListLoans" :> Args({}, {"status"}))
Approvals == "RequestApproval" :> Args({"loan_id", "amount"}, {"note"})
Catalogue == ("Loan" :> Loan) @@ ("Approvals" :> Approvals)

Match(toolkit, tool) == [toolkit |-> toolkit, tool |-> tool]
Approve == Match("Loan", "ApproveLoan")
Condition(input, operator, value) ==
  [input |-> input, operator |-> operator, value |-> value, members |-> Null]
OneOf(input, operator, members) ==
  [input |-> input, operator |-> operator, value |-> Null, members |-> members]

Reason(stop, placeholders, invocations) ==
  [stop |-> stop, preamble |-> {}, placeholders |-> placeholders,
   invocations |-> invocations]
Invoke(toolkit, tool, given) ==
  [toolkit |-> toolkit, tool |-> tool, dotted |-> FALSE, given |-> given,
   valueless |-> {}]
Inputs(field) == [root |-> "inputs", field |-> field]

Stop == Reason(TRUE, {}, <<>>)
Escalate ==
  Reason(FALSE, {Inputs("amount")},
         <<Invoke("Approvals", "RequestApproval", {"loan_id", "amount"})>>)
Reasons ==
  {Stop, Escalate,
   Reason(FALSE, {}, <<>>),
   Reason(FALSE, {}, <<Invoke("Approvals", "RequestApproval", {"loan_id"})>>),
   Reason(TRUE, {}, <<Invoke("Loan", "ListLoans", {})>>),
   Reason(TRUE, {[root |-> "subject", field |-> "clearance"]},
          <<Invoke("Mail", "Send", {})>>),
   [Escalate EXCEPT !.invocations[1].dotted = TRUE]}

Row(id, priority, match, conditions, effect, reason) ==
  [id |-> id, hook |-> "pre", match |-> match, subjects |-> Null,
   conditions |-> conditions, effect |-> effect, reason |-> reason,
   priority |-> priority, enabled |-> TRUE]

SmallIsFine == Row(2, 1, Approve, <<Condition("amount", "lte", 1)>>, "allow", Stop)
Freeze == Row(4, 2, Match("Loan", Wildcard), <<>>, "deny", Stop)

Officers ==
  [user_ids |-> Null, roles |-> {"officer"}, clearance_below |-> 2,
   clearance_at_least |-> Null]

Conditions ==
  {<<>>, <<Condition("amount", "exceeds_clearance", Null)>>,
   <<Condition("loan_id", "neq", l1), Condition("amount", "gt", 1)>>,
   <<Condition("status", "exists", False)>>,
   <<Condition("amount", "exists", False)>>,
   <<OneOf("loan_id", "matches", {Text})>>}

Filled3 ==
  [id : {3}, hook : {"access", "pre"},
   match : {Approve, Match("Loan", Wildcard), Match(Wildcard, "ApproveLoan"),
            Match("Loan", "Gone")},
   subjects : {Null, Officers}, conditions : Conditions,
   effect : {"allow", "deny"}, reason : Reasons, priority : {2}, enabled : BOOLEAN]

Clearance ==
  Row(3, 2, Approve, <<Condition("amount", "exceeds_clearance", Null)>>, "deny", Escalate)
NoteIs ==
  Row(5, 1, Match("Approvals", "RequestApproval"), <<OneOf("note", "in", {Text})>>,
      "deny", Stop)
Hidden == [Row(6, 1, Approve, <<>>, "deny", Escalate) EXCEPT !.hook = "access"]
Rewritten == [Clearance EXCEPT !.effect = "modify"]
Nobody == [Freeze EXCEPT !.subjects = [Officers EXCEPT !.clearance_below = 0]]

RulesHere ==
  Filled3 \cup {SmallIsFine, Freeze, Clearance, NoteIs, Hidden, Rewritten, Nobody}

Over(catalogue, rows) == [catalogue |-> catalogue, rows |-> rows]

ReadingsHere ==
  {Over(Catalogue, <<Freeze, r>>) : r \in Filled3}
    \cup {Over(Catalogue, rows) :
            rows \in {<<Freeze, Clearance, SmallIsFine>>, <<NoteIs, Hidden, Clearance>>,
                      <<Clearance, Rewritten>>, <<Nobody>>, <<Freeze, Freeze>>}}
    \cup {Over(<<>>, <<>>),
          Over("Loan" :> ("ApproveLoan" :> Args({"amount"}, {"amount"})), <<>>)}

Person(user, role, clearance) ==
  [user_id |-> user, role |-> role, clearance |-> clearance]
Alice == Person("alice", "officer", 1)
Michael == Person("michael", "approver", 3)
AlicesGrant == [subject_id |-> "alice", match |-> Approve]

Tool(toolkit, name) == [toolkit |-> toolkit, name |-> name]

Asked(hook, tool, inputs, grants) ==
  [hook : {hook}, subject : {Null, Alice, Michael}, tool : tool, inputs : inputs,
   grants : grants]

ApproveInputs ==
  {("loan_id" :> l) @@ ("amount" :> n) : l \in {l1, Text}, n \in {1, 2, Text}}
    \cup {"loan_id" :> l1}

CallsHere ==
  Asked("pre", {Tool("Loan", "ApproveLoan")}, ApproveInputs, {{}, {AlicesGrant}})
    \cup Asked("pre", {Tool("Loan", "ListLoans"), Tool("Mail", "Send")},
               {<<>>, "status" :> Text}, {{}})
    \cup Asked("pre", {Tool("Approvals", "RequestApproval")},
               {("loan_id" :> l1) @@ ("amount" :> 2)}, {{}})
    \cup Asked("access", {Tool("Loan", "ApproveLoan"), Tool("Loan", "ListLoans")},
               {<<>>}, {{}})
=============================================================================
