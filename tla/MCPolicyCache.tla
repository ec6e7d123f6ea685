---------------------------- MODULE MCPolicyCache ---------------------------
(* Two tables, each as shipped or edited, for the rules and what they name. *)
EXTENDS PolicyCache

RulesAndCatalogue == {"policy_rules", "catalogue"}
ShippedOrEdited == {"shipped", "edited"}
On(rules, catalogue) ==
  [t \in RulesAndCatalogue |-> IF t = "policy_rules" THEN rules ELSE catalogue]

Shipped == On("shipped", "shipped")

\* A rule edited on stage compiles.  A catalogue without the tool the shipped
\* rule names does not, and an edit of both leaves a row that does not parse.
StageEdit == {Shipped, On("edited", "shipped")}
AllButBoth == StageEdit \cup {On("shipped", "edited")}
=============================================================================
