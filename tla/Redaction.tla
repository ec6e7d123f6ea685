----------------------------- MODULE Redaction ------------------------------
(***************************************************************************)
(* packages/governance-core/src/redaction-engine.ts: what the model may    *)
(* read of a tool's output.  compileOutputPolicy refuses a policy that     *)
(* could not do what it says; redact applies every applicable rule, the    *)
(* named fields and then the patterns, until a pass leaves the payload as  *)
(* it was.                                                                 *)
(*                                                                         *)
(* A payload is a function from the path of each string in it to that      *)
(* string; an empty object or array is not told from a missing one.  A     *)
(* string is a sequence of words, and a regular expression is the words it *)
(* matches and the word it must see after them (Null: anything), which is  *)
(* the lookahead that lets a replacement complete another pattern's match. *)
(* A path of a rule is the sequence of the steps each segment selects: one *)
(* key, one position, or every position for "[]".                          *)
(***************************************************************************)
EXTENDS Integers, Sequences, FiniteSets, SequencesExt

CONSTANTS
  Null,        \* no subjects column, no lookahead, nobody on the roster
  Wildcard,    \* the "*" of a tool matcher
  Positions,   \* the steps that are positions of an array
  Withheld     \* the sentinel, as a string

\* How often the whole transformation is applied before it is given up.
PassLimit == 8

-----------------------------------------------------------------------------
(* Compilation.                                                            *)

\* The words of p match text at i.
MatchesAt(p, text, i) ==
  /\ i + Len(p.regex) - 1 <= Len(text)
  /\ SubSeq(text, i, i + Len(p.regex) - 1) = p.regex
  /\ p.ahead # Null => /\ i + Len(p.regex) <= Len(text)
                       /\ text[i + Len(p.regex)] = p.ahead

\* probe.test(text)
Probe(p, text) == \E i \in 1..(Len(text) + 1) : MatchesAt(p, text, i)

MatchesTool(match, tool) ==
  /\ match.toolkit \in {Wildcard, tool.toolkit}
  /\ match.tool \in {Wildcard, tool.name}

ToolMatchersOverlap(a, b) ==
  /\ a.toolkit = Wildcard \/ b.toolkit = Wildcard \/ a.toolkit = b.toolkit
  /\ a.tool = Wildcard \/ b.tool = Wildcard \/ a.tool = b.tool

\* The matcher names something the catalogue, a set of tools, serves.
MatchIsServed(match, catalogue) == \E tool \in catalogue : MatchesTool(match, tool)

\* No path twice, and no removal of an element by its position.
FieldsCompile(fields) ==
  /\ \A i, j \in DOMAIN fields : fields[i].path = fields[j].path => i = j
  /\ \A i \in DOMAIN fields :
       fields[i].strategy = "remove" /\ fields[i].path # <<>>
         => \A p \in Positions : Last(fields[i].path) # {p}

\* No id twice, and no pattern the empty string matches.
PatternsCompile(patterns) ==
  /\ \A i, j \in DOMAIN patterns : patterns[i].id = patterns[j].id => i = j
  /\ \A i \in DOMAIN patterns : ~Probe(patterns[i], <<>>)

RuleCompiles(rule, catalogue) ==
  /\ MatchIsServed(rule.match, catalogue)
  /\ rule.subjects # {}
  /\ rule.fields # <<>> \/ rule.patterns # <<>>
  /\ FieldsCompile(rule.fields)
  /\ PatternsCompile(rule.patterns)

\* What a rule's fields and patterns write in place of what they match.
Markers(rule) ==
  {c.replacement : c \in {d \in Range(rule.fields) \cup Range(rule.patterns) :
                            d.strategy # "remove"}}

\* Every string the engine can write is inert to every scanner that can run
\* on the same call; the sentinel, to every scanner there is.
MarkersAreInert(rules) ==
  \A rule \in rules : \A i \in DOMAIN rule.patterns :
    /\ ~Probe(rule.patterns[i], Withheld)
    /\ \A other \in rules : ToolMatchersOverlap(other.match, rule.match) =>
         \A marker \in Markers(other) : ~Probe(rule.patterns[i], marker)

Enabled(rules) == {rule \in Range(rules) : rule.enabled}

Before(a, b) == a.priority < b.priority \/ (a.priority = b.priority /\ a.id < b.id)

OutputPolicyCompiles(rules, catalogue) ==
  /\ \A i, j \in DOMAIN rules : rules[i].id = rules[j].id => i = j
  /\ \A i \in DOMAIN rules : RuleCompiles(rules[i], catalogue)
  /\ MarkersAreInert(Enabled(rules))

\* The enabled rules, in the order they are applied.
CompileOutputPolicy(rules) == SetToSortSeq(Enabled(rules), Before)

\* disarm in policy-cache.ts: the rules without their patterns.
Disarm(rules) ==
  SelectSeq([i \in DOMAIN rules |-> [rules[i] EXCEPT !.patterns = <<>>]],
            LAMBDA rule : rule.fields # <<>>)

-----------------------------------------------------------------------------
(* Field redaction.  A pass is [payload, records, quiet]: quiet while every *)
(* transform has handed back the object it was given.                      *)

Record(path, rule_id, pattern_id, kind) ==
  [path |-> path, rule_id |-> rule_id, pattern_id |-> pattern_id, kind |-> kind]

Addresses(segments, path) ==
  /\ Len(segments) <= Len(path)
  /\ \A i \in DOMAIN segments : path[i] \in segments[i]

\* The values in a payload that a field path leads to.
Targets(segments, payload) ==
  {SubSeq(path, 1, Len(segments)) :
     path \in {p \in DOMAIN payload : Addresses(segments, p)}}

\* The payload without what is at or under the targets.
Without(payload, targets) ==
  [path \in {p \in DOMAIN payload : \A t \in targets : ~IsPrefix(t, p)} |->
     payload[path]]

\* Mutant of EditField: every value the path leads to is noted, changed or not.
EditFieldNotingAll(pass, rule_id, field) ==
  LET targets == Targets(field.path, pass.payload)
      kept == Without(pass.payload, targets)
      written == IF field.strategy = "remove" THEN {} ELSE targets
      payload == [path \in DOMAIN kept \cup written |->
                    IF path \in written THEN field.replacement ELSE kept[path]]
  IN [payload |-> payload,
      records |-> pass.records \cup
                  {Record(t, rule_id, Null, field.strategy) : t \in targets},
      quiet |-> pass.quiet /\ payload = pass.payload]

EditField(pass, rule_id, field) ==
  LET targets == Targets(field.path, pass.payload)
      removes == field.strategy = "remove"
      changed == IF removes THEN targets \ {<<>>}
                 ELSE {t \in targets : t \notin DOMAIN pass.payload
                                       \/ pass.payload[t] # field.replacement}
      kept == Without(pass.payload, changed)
      written == IF removes THEN {} ELSE changed
  IN [payload |-> [path \in DOMAIN kept \cup written |->
                     IF path \in written THEN field.replacement ELSE kept[path]],
      records |-> pass.records \cup
                  {Record(t, rule_id, Null, field.strategy) : t \in changed},
      quiet |-> pass.quiet /\ changed = {}]

-----------------------------------------------------------------------------
(* Pattern sweeping.                                                       *)

\* text.replace(global, with): leftmost matches, one after the other.
ReplaceEvery(text, p, with) ==
  LET from[i \in 1..(Len(text) + 1)] ==
        IF i > Len(text) THEN <<>>
        ELSE IF MatchesAt(p, text, i) THEN with \o from[i + Len(p.regex)]
        ELSE <<text[i]>> \o from[i + 1]
  IN from[1]

ApplyPattern(text, p) ==
  CASE p.strategy = "mask" -> ReplaceEvery(text, p, p.replacement)
    [] p.strategy = "remove" -> ReplaceEvery(text, p, <<>>)
    [] p.strategy = "replace" -> IF Probe(p, text) THEN p.replacement ELSE text

\* One scan of a string by every scanner in turn, noting those that fired.
Scan(scanned, scanners) ==
  FoldLeftDomain(
    LAMBDA s, i : LET next == ApplyPattern(s.text, scanners[i].pattern)
                  IN IF next = s.text THEN s
                     ELSE [s EXCEPT !.text = next, !.fired = @ \cup {i}],
    scanned, scanners)

\* Scan until a scan changes nothing, within the bound.
Settle(text, scanners) ==
  FoldLeft(
    LAMBDA s, pass : IF s.converged THEN s
                     ELSE LET next == Scan(s, scanners)
                          IN [next EXCEPT !.converged = next.text = s.text],
    [text |-> text, fired |-> {}, converged |-> FALSE],
    [pass \in 1..(2 * Len(scanners) + 8) |-> pass])

\* What the settled strings of a payload, by path, make of the pass.
Swept(pass, scanners, settled) ==
  LET text(path) == IF settled[path].converged THEN settled[path].text ELSE Withheld
      changed == {path \in DOMAIN pass.payload :
                    ~settled[path].converged \/ text(path) # pass.payload[path]}
      noted(path) == IF settled[path].converged
                     THEN {Record(path, scanners[i].rule_id, scanners[i].pattern.id,
                                  scanners[i].pattern.strategy) :
                             i \in settled[path].fired}
                     ELSE {Record(path, Null, Null, "unsettled")}
  IN [payload |-> [path \in DOMAIN pass.payload |-> text(path)],
      records |-> pass.records \cup UNION {noted(path) : path \in changed},
      quiet |-> pass.quiet /\ changed = {}]

Sweep(pass, scanners) ==
  IF scanners = <<>> THEN pass
  ELSE Swept(pass, scanners,
             [path \in DOMAIN pass.payload |-> Settle(pass.payload[path], scanners)])

-----------------------------------------------------------------------------
(* The engine.                                                             *)

\* Mutant of AppliesToSubject: a caller nobody can name is spared the rules
\* that are about somebody.
AppliesToKnownSubject(rule, subject) == rule.subjects = Null \/ subject \in rule.subjects

\* A subject nobody resolved is redacted by every rule.
AppliesToSubject(rule, subject) ==
  subject = Null \/ rule.subjects = Null \/ subject \in rule.subjects

Applicable(policy, subject, tool) ==
  SelectSeq(policy, LAMBDA rule : MatchesTool(rule.match, tool)
                                  /\ AppliesToSubject(rule, subject))

Scanners(rules) ==
  FlattenSeq([i \in DOMAIN rules |->
    [j \in DOMAIN rules[i].patterns |->
       [rule_id |-> rules[i].id, pattern |-> rules[i].patterns[j]]]])

Pass(before, rules) ==
  LET edited == FoldLeft(LAMBDA p, rule :
                           FoldLeft(LAMBDA q, field : EditField(q, rule.id, field),
                                    p, rule.fields),
                         [before EXCEPT !.quiet = TRUE], rules)
  IN Sweep(edited, Scanners(rules))

\* The convergence test: the very object the pass was given, or, when the
\* whole payload is one string, an equal one.
Converged(before, after) ==
  after.quiet \/ (before.payload = after.payload /\ <<>> \in DOMAIN after.payload)

Reached(before, after) == [pass |-> after, converged |-> Converged(before, after)]

\* One pass more, unless the last one changed nothing.
Again(reached, rules) ==
  IF reached.converged THEN reached
  ELSE Reached(reached.pass, Pass(reached.pass, rules))

Result(output, reached) ==
  IF ~reached.converged
  THEN [output |-> [path \in {<<>>} |-> Withheld],
        redactions |-> {Record(<<>>, Null, Null, "unsettled")}]
  ELSE [output |-> reached.pass.payload,
        redactions |-> IF reached.pass.payload = output THEN {} ELSE reached.pass.records]

Redact(output, subject, tool, policy) ==
  LET rules == Applicable(policy, subject, tool)
      after[n \in 0..PassLimit] ==
        IF n = 0
        THEN [pass |-> [payload |-> output, records |-> {}, quiet |-> FALSE],
              converged |-> FALSE]
        ELSE Again(after[n - 1], rules)
  IN Result(output, after[PassLimit])
=============================================================================
