--------------------------- MODULE PolicyDecisions --------------------------
(***************************************************************************)
(* The control plane deciding calls on a policy it compiled: rows in       *)
(* whatever order they come, compiled or refused as a whole, and every     *)
(* call answered from what was compiled last.                              *)
(*                                                                         *)
(* When rows change and who reads them is PolicyCache's subject; here they *)
(* only come in another order, for readPolicy sorts them by SQLite's       *)
(* comparison of ids and compilePolicy by localeCompare's.                 *)
(***************************************************************************)
EXTENDS PolicyEngine

CONSTANTS
  Rules,    \* rows the schema lets into the table
  Readings, \* what a read may return: a catalogue and rows
  Calls     \* what the two hooks may be asked

ASSUME TablesAssumption ==
  /\ \A rule \in Rules :
       /\ rule.id \in Nat /\ rule.priority \in Int /\ rule.enabled \in BOOLEAN
       /\ rule.reason.stop \in BOOLEAN
       /\ DOMAIN rule.conditions \subseteq Nat
  /\ \A table \in Readings : /\ table = [catalogue |-> table.catalogue, rows |-> table.rows]
                             /\ table.rows \in Seq(Rules)
  /\ \A call \in Calls :
       /\ call = [hook |-> call.hook, subject |-> call.subject, tool |-> call.tool,
                  inputs |-> call.inputs, grants |-> call.grants]
       /\ call.hook = "access" => call.inputs = <<>> /\ call.grants = {}
  /\ Null \notin Nat

VARIABLES
  table,    \* the catalogue and the rows, in the order they would be read
  loaded,   \* what was read last, Null before
  policy    \* what that compiled to, Null when it was refused

decisionsVars == <<table, loaded, policy>>

\* What compilePolicy may keep of a table.
CompiledRule == {rule \in Rules : rule.enabled /\ rule.effect # "modify"}

\* A policy is a list of rows of the table, enabled, with an effect a rule may
\* have; a table that breaks a rule of compilePolicy leaves no policy at all.
CompiledOK ==
  /\ table.rows \in Seq(Rules)
  /\ loaded # Null => loaded.rows \in Seq(Rules)
  /\ policy # Null => policy.rules \in Seq(CompiledRule)

DecisionsInit ==
  /\ table \in Readings
  /\ loaded = Null /\ policy = Null

\* Two rows change places in what the next load reads.
Reorder ==
  /\ \E i, j \in DOMAIN table.rows :
       /\ i < j
       /\ table' = [table EXCEPT !.rows = [@ EXCEPT ![i] = table.rows[j], ![j] = table.rows[i]]]
  /\ UNCHANGED <<loaded, policy>>

Load ==
  /\ loaded' = table
  /\ policy' = IF Compiles(table.catalogue, table.rows)
               THEN CompilePolicy(table.catalogue, table.rows) ELSE Null
  /\ UNCHANGED table

DecisionsNext == Reorder \/ Load

DecisionsSpec == DecisionsInit /\ [][DecisionsNext]_decisionsVars
-----------------------------------------------------------------------------
(* Properties.                                                             *)

\* First match wins, whatever order the rows came in: the rule that decides is
\* the one of lowest priority, then id, among the enabled rules that speak; a
\* call no rule speaks about is allowed, and one that fails closed asks no rule.
DecidedByTheFirstRule ==
  policy # Null =>
    \A call \in Calls :
      LET decision == Decide(call, policy)
          speaking == {i \in DOMAIN loaded.rows :
                         loaded.rows[i].enabled /\ Speaks(loaded.rows[i], call)}
      IN IF FailsClosed(call, loaded.catalogue)
         THEN decision.effect = "deny" /\ decision.rule_id = Null
         ELSE IF speaking = {}
         THEN decision.effect = "allow" /\ decision.rule_id = Null
         ELSE \E i \in speaking :
                /\ decision = RuleDecides(loaded.rows[i], call)
                /\ \A j \in speaking : i # j => Before(loaded.rows[i], loaded.rows[j])

\* A grant lifts the denial of a rule at /pre and changes nothing else: not what
\* fails closed, not a condition that cannot be read, not visibility; the rule
\* it lifted stays on the decision.
GrantsOnlyLift ==
  policy # Null =>
    \A call \in Calls :
      LET bare == Decide([call EXCEPT !.grants = {}], policy)
          decision == Decide(call, policy)
      IN decision # bare =>
           /\ call.hook = "pre"
           /\ bare.effect = "deny" /\ bare.because = "rule"
           /\ decision.effect = "allow" /\ decision.rule_id = bare.rule_id
           /\ \E grant \in call.grants : grant.subject_id = call.subject.user_id

Filled(reason, call) ==
  \A p \in reason.placeholders :
    p.root = "inputs" => ReadPath(call.inputs, p.field) # Null

\* The call a reader of invocation i makes.
Followed(i, call) ==
  [call EXCEPT !.tool = [toolkit |-> i.toolkit, name |-> i.tool],
               !.inputs = [a \in i.given |-> 0]]

\* A refused model is told to stop or is given a call to make, and no call it is
\* given is refused as unknown or incomplete.
Followable(reason, catalogue, call) ==
  LET served == {k \in DOMAIN reason.invocations :
                   Serves(catalogue, reason.invocations[k].toolkit,
                          reason.invocations[k].tool)}
  IN /\ reason.stop <=> served = {}
     /\ \A k \in served : ~FailsClosed(Followed(reason.invocations[k], call), catalogue)

\* The instruction in a refused call is one the model can act on: every value it
\* quotes was in the call, what it says to call exists and gets its arguments,
\* and an input it asks for is one the tool takes.
RemediationCanBeFollowed ==
  policy # Null =>
    \A call \in Calls :
      LET decision == Decide(call, policy)
      IN call.hook = "pre" =>
           /\ decision.because = "unevaluable" =>
                decision.input \in
                  AllArguments(policy.catalogue[call.tool.toolkit][call.tool.name])
           /\ \A i \in DOMAIN policy.rules :
                policy.rules[i].id = decision.rule_id /\ decision.because = "rule" =>
                  /\ Filled(policy.rules[i].reason, call)
                  /\ decision.effect = "deny" =>
                       Followable(policy.rules[i].reason, policy.catalogue, call)

=============================================================================
