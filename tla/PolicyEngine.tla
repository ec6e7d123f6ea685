---------------------------- MODULE PolicyEngine ----------------------------
(***************************************************************************)
(* packages/governance-core/src/policy-engine.ts: may this subject call    *)
(* this tool with these inputs?  Pure operators over a table of rules, the *)
(* catalogue of governed tools and one call.                               *)
(*                                                                         *)
(* A reason is what its one scan found: the placeholders, whether it tells *)
(* the model to stop, the arguments before any tool, and the invocations,  *)
(* each a tool with the arguments that follow it.  (The dot spelling of a  *)
(* toolkit nobody governs is prose, not an invocation.)  An id is its      *)
(* place among all ids, an input one argument of the call, a text one of   *)
(* Texts; paths into an argument and the wording of reasons are left out.  *)
(***************************************************************************)
EXTENDS Integers, Sequences, FiniteSets

CONSTANTS
  Null,        \* JavaScript null and undefined
  True, False, \* the JSON booleans
  Wildcard,    \* the "*" of a tool matcher
  Texts        \* the strings among the values of inputs

SubjectFields == {"user_id", "display_name", "role", "clearance"}
ToolFields == {"toolkit", "name"}

-----------------------------------------------------------------------------
(* The catalogue: toolkit to tool to [required, optional].                 *)

AllArguments(args) == args.required \cup args.optional

Serves(catalogue, toolkit, name) ==
  toolkit \in DOMAIN catalogue /\ name \in DOMAIN catalogue[toolkit]

CatalogueCompiles(catalogue) ==
  /\ DOMAIN catalogue # {}
  /\ \A t \in DOMAIN catalogue :
       /\ DOMAIN catalogue[t] # {}
       /\ \A n \in DOMAIN catalogue[t] :
            catalogue[t][n].required \cap catalogue[t][n].optional = {}

MatchesTool(match, tool) ==
  match.toolkit \in {Wildcard, tool.toolkit} /\ match.tool \in {Wildcard, tool.name}

\* The arguments of every catalogued tool a matcher can match.
MatchedArguments(match, catalogue) ==
  UNION {{catalogue[t][n] : n \in {m \in DOMAIN catalogue[t] :
                                     MatchesTool(match, [toolkit |-> t, name |-> m])}}
           : t \in DOMAIN catalogue}

\* No segment of the matcher is a name nothing serves.
ReferencesServed(match, catalogue) ==
  /\ match.toolkit = Wildcard \/ match.toolkit \in DOMAIN catalogue
  /\ match.tool # Wildcard =>
       \E t \in DOMAIN catalogue :
         match.toolkit \in {Wildcard, t} /\ match.tool \in DOMAIN catalogue[t]

-----------------------------------------------------------------------------
(* checkReason.                                                            *)

CheckPlaceholder(p, matched) ==
  CASE p.root = "inputs" -> /\ matched # {}
                            /\ \A args \in matched : p.field \in args.required
    [] p.root = "subject" -> p.field \in SubjectFields
    [] p.root = "tool" -> p.field \in ToolFields
    [] OTHER -> FALSE

\* The dot spelling of a governed toolkit is refused; the wire spelling must name
\* a tool the toolkit serves, and may name a toolkit that is not ours.
CheckReference(i, catalogue) ==
  i.toolkit \in DOMAIN catalogue => ~i.dotted /\ i.tool \in DOMAIN catalogue[i.toolkit]

\* Mutant: arguments are looked at one by one, and what is missing is not.
CheckInvocationGiven(i, catalogue) ==
  IF Serves(catalogue, i.toolkit, i.tool)
  THEN i.valueless = {} /\ i.given \subseteq AllArguments(catalogue[i.toolkit][i.tool])
  ELSE i.given \cup i.valueless = {}

CheckInvocation(i, catalogue) ==
  IF Serves(catalogue, i.toolkit, i.tool)
  THEN /\ i.valueless = {}
       /\ catalogue[i.toolkit][i.tool].required \subseteq i.given
       /\ i.given \subseteq AllArguments(catalogue[i.toolkit][i.tool])
  ELSE i.given \cup i.valueless = {}

\* What a denial of a call must tell the model: to stop, or what to call.
CheckRemediation(reason, catalogue) ==
  /\ reason.preamble = {}
  /\ IF reason.stop
     THEN \A k \in DOMAIN reason.invocations :
            LET i == reason.invocations[k]
            IN ~Serves(catalogue, i.toolkit, i.tool) /\ i.given \cup i.valueless = {}
     ELSE /\ \E k \in DOMAIN reason.invocations :
               Serves(catalogue, reason.invocations[k].toolkit, reason.invocations[k].tool)
          /\ \A k \in DOMAIN reason.invocations :
               CheckInvocation(reason.invocations[k], catalogue)

CheckReason(rule, catalogue) ==
  /\ \A p \in rule.reason.placeholders :
       CheckPlaceholder(p, MatchedArguments(rule.match, catalogue))
  /\ \A k \in DOMAIN rule.reason.invocations :
       CheckReference(rule.reason.invocations[k], catalogue)
  /\ rule.hook = "pre" /\ rule.effect = "deny" => CheckRemediation(rule.reason, catalogue)

-----------------------------------------------------------------------------
(* checkSubjectMatcher and checkCondition.                                 *)

CheckSubjectMatcher(m) ==
  /\ m.roles # {} /\ m.user_ids # {}
  /\ m.clearance_below # Null => m.clearance_below > 0
  /\ m.clearance_below # Null /\ m.clearance_at_least # Null =>
       m.clearance_at_least < m.clearance_below

Orders == {"gt", "gte", "lt", "lte"}

\* A condition compares with one value, or with the members of a list; those of
\* a regular expression are the texts it matches, and Null stands for what is
\* neither a list nor a regular expression.
CheckConditionShape(c) ==
  CASE c.operator = "exists" -> c.value \in {Null, True, False}
    [] c.operator = "exceeds_clearance" -> c.value = Null
    [] c.operator \in {"eq", "neq"} -> c.value # Null
    [] c.operator \in Orders -> c.value \in Int
    [] OTHER -> c.members # Null

CheckCondition(c, matched) ==
  /\ matched # {}
  /\ \A args \in matched : c.input \in AllArguments(args)
  /\ ~ /\ c.operator = "exists" /\ c.value = False
       /\ \A args \in matched : c.input \in args.required
  /\ CheckConditionShape(c)

-----------------------------------------------------------------------------
(* compilePolicy: refused as a whole, or the enabled rules in order.       *)

RuleCompiles(rule, catalogue) ==
  /\ ReferencesServed(rule.match, catalogue)
  /\ rule.effect # "modify"
  /\ rule.hook = "access" => rule.conditions = <<>>
  /\ CheckReason(rule, catalogue)
  /\ rule.subjects # Null => CheckSubjectMatcher(rule.subjects)
  /\ \A k \in DOMAIN rule.conditions :
       CheckCondition(rule.conditions[k], MatchedArguments(rule.match, catalogue))

Compiles(catalogue, rows) ==
  /\ CatalogueCompiles(catalogue)
  /\ \A i, j \in DOMAIN rows : rows[i].id = rows[j].id => i = j
  /\ \A i \in DOMAIN rows : RuleCompiles(rows[i], catalogue)

\* Mutant: ties are left as the table returned them.
BeforeByPriority(r, q) == r.priority < q.priority

Before(r, q) == r.priority < q.priority \/ (r.priority = q.priority /\ r.id < q.id)

Enabled(rows) == {i \in DOMAIN rows : rows[i].enabled}

\* A stable sort: row j comes at or before row i.
AtOrBefore(rows, j, i) ==
  Before(rows[j], rows[i]) \/ (~Before(rows[i], rows[j]) /\ j <= i)

Place(rows, i) == Cardinality({j \in Enabled(rows) : AtOrBefore(rows, j, i)})

Sorted(rows) ==
  [k \in 1..Cardinality(Enabled(rows)) |->
     rows[CHOOSE i \in Enabled(rows) : Place(rows, i) = k]]

CompilePolicy(catalogue, rows) == [catalogue |-> catalogue, rules |-> Sorted(rows)]

-----------------------------------------------------------------------------
(* One rule and one call.                                                  *)

MatchesSubject(m, subject) ==
  m # Null =>
    /\ m.user_ids # Null => subject.user_id \in m.user_ids
    /\ m.roles # Null => subject.role \in m.roles
    /\ m.clearance_below # Null => subject.clearance < m.clearance_below
    /\ m.clearance_at_least # Null => subject.clearance >= m.clearance_at_least

ReadPath(inputs, key) == IF key \in DOMAIN inputs THEN inputs[key] ELSE Null

\* The input is missing, or not of the type its operator compares.
Unreadable(c, actual) ==
  \/ actual = Null
  \/ c.operator \in Orders \cup {"exceeds_clearance"} /\ actual \notin Int
  \/ c.operator = "matches" /\ actual \notin Texts

Holds(c, actual, subject) ==
  CASE c.operator = "eq" -> actual = c.value
    [] c.operator = "neq" -> actual # c.value
    [] c.operator \in {"in", "matches"} -> actual \in c.members
    [] c.operator = "nin" -> actual \notin c.members
    [] c.operator = "gt" -> actual > c.value
    [] c.operator = "gte" -> actual >= c.value
    [] c.operator = "lt" -> actual < c.value
    [] c.operator = "lte" -> actual <= c.value
    [] c.operator = "exceeds_clearance" -> actual > subject.clearance

EvaluateCondition(c, subject, inputs) ==
  LET actual == ReadPath(inputs, c.input)
      holds == IF c.operator = "exists" THEN (actual # Null) = (c.value # False)
               ELSE Holds(c, actual, subject)
  IN IF c.operator # "exists" /\ Unreadable(c, actual) THEN "unevaluable"
     ELSE IF holds THEN "match" ELSE "no-match"

\* The first condition that does not hold, 0 when all do.
Stops(rule, call) ==
  LET failing == {k \in DOMAIN rule.conditions :
                    EvaluateCondition(rule.conditions[k], call.subject, call.inputs) # "match"}
  IN IF failing = {} THEN 0 ELSE CHOOSE k \in failing : \A l \in failing : k <= l

EvaluateConditions(rule, call) ==
  LET k == Stops(rule, call)
  IN IF k = 0 THEN "match"
     ELSE EvaluateCondition(rule.conditions[k], call.subject, call.inputs)

\* The rule ends the search: it applies to the call and its conditions do not
\* say otherwise.
Speaks(rule, call) ==
  /\ rule.hook = call.hook
  /\ MatchesTool(rule.match, call.tool)
  /\ MatchesSubject(rule.subjects, call.subject)
  /\ EvaluateConditions(rule, call) # "no-match"

GrantApplies(grant, call) ==
  grant.subject_id = call.subject.user_id /\ MatchesTool(grant.match, call.tool)

-----------------------------------------------------------------------------
(* decide.  because says which sentence the reason is, input which argument *)
(* it asks for.                                                            *)

Decision(effect, rule_id, because, input) ==
  [effect |-> effect, rule_id |-> rule_id, because |-> because, input |-> input]

\* Mutant: the grant is looked for before the conditions are read.
RuleDecidesGrantFirst(rule, call) ==
  IF /\ rule.effect = "deny" /\ call.hook = "pre"
     /\ \E grant \in call.grants : GrantApplies(grant, call)
  THEN Decision("allow", rule.id, "grant", Null)
  ELSE IF EvaluateConditions(rule, call) = "unevaluable"
  THEN Decision("deny", rule.id, "unevaluable", rule.conditions[Stops(rule, call)].input)
  ELSE Decision(rule.effect, rule.id, "rule", Null)

RuleDecides(rule, call) ==
  IF EvaluateConditions(rule, call) = "unevaluable"
  THEN Decision("deny", rule.id, "unevaluable", rule.conditions[Stops(rule, call)].input)
  ELSE IF /\ rule.effect = "deny" /\ call.hook = "pre"
          /\ \E grant \in call.grants : GrantApplies(grant, call)
  THEN Decision("allow", rule.id, "grant", Null)
  ELSE Decision(rule.effect, rule.id, "rule", Null)

\* The arguments the tool requires and the call does not carry.
MissingInputs(call, args) == {a \in args.required : ReadPath(call.inputs, a) = Null}

\* Refused before any rule is consulted.
FailsClosed(call, catalogue) ==
  \/ call.subject = Null
  \/ ~Serves(catalogue, call.tool.toolkit, call.tool.name)
  \/ /\ call.hook = "pre"
     /\ MissingInputs(call, catalogue[call.tool.toolkit][call.tool.name]) # {}

Decide(call, policy) ==
  LET speaking == {i \in DOMAIN policy.rules : Speaks(policy.rules[i], call)}
      first == CHOOSE i \in speaking : \A j \in speaking : i <= j
  IN IF FailsClosed(call, policy.catalogue) THEN Decision("deny", Null, "fail_closed", Null)
     ELSE IF speaking = {} THEN Decision("allow", Null, "default", Null)
     ELSE RuleDecides(policy.rules[first], call)
=============================================================================
