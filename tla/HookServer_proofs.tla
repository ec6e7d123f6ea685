-------------------------- MODULE HookServer_proofs -------------------------
(***************************************************************************)
(* The hook server for any calls, tools, policies and payloads.  Whatever  *)
(* the redaction engine makes of an output, the rows of a call account for *)
(* its answer; and nothing is let through but by the policy of the moment. *)
(***************************************************************************)
EXTENDS HookServer, FiniteSetTheorems, FunctionTheorems, SequenceTheorems, TLAPS

-----------------------------------------------------------------------------
(* Rows.                                                                   *)

\* The rows rs account for an answer that lets `let` through, of a call about tools.
Accounts(let, tools, rs) ==
  /\ let = UNION {row.covers : row \in {r \in rs : r.decision # "deny"}}
  /\ \A r, s \in rs : r.id.what = s.id.what
  /\ \A r, s \in rs : r # s => r.covers \cap s.covers = {}
  /\ \A r \in rs : r.id.what = "decided" => UNION {s.covers : s \in rs} = tools

\* The rows a step may write of a call.
RowsFor(call, rows) == rows \in Seq(AuditRow) /\ \A i \in DOMAIN rows : rows[i].id.call = call

\* The rows a call about tools may be recorded with when it is given this answer.
Records(call, tools, answer, rows) ==
  /\ answer.status \in {200, 500} /\ answer.let \subseteq Tools
  /\ RowsFor(call, rows) /\ Accounts(answer.let, tools, Range(rows))

\* Writing these rows writes nothing.
AddsNothing(none) == \A rows \in Seq(AuditRow) : rows \o none = rows

\* A finite set listed: every element once.
LEMMA SetListed ==
  ASSUME NEW S, IsFiniteSet(S)
  PROVE  /\ SetToSeq(S) \in Seq(S)
         /\ \A i, j \in DOMAIN SetToSeq(S) : SetToSeq(S)[i] = SetToSeq(S)[j] => i = j
         /\ \A x \in S : \E i \in DOMAIN SetToSeq(S) : SetToSeq(S)[i] = x
<1>. DEFINE n == Cardinality(S)
            f == SetToSeq(S)
<1>1. n \in Nat /\ Bijection(1..n, S) # {}
  BY FS_CardinalityType DEF ExistsBijection
<1>2. \E g \in [1..n -> S] : IsInjective(g)
  BY <1>1 DEF Bijection, Injection
<1>3. f \in [1..n -> S] /\ IsInjective(f)
  BY <1>2 DEF SetToSeq
<1>4. f \in Injection(1..n, S)
  BY <1>3 DEF Injection
<1>5. Cardinality(1..n) = n
  BY <1>1, FS_Interval
<1>6. f \in Surjection(1..n, S)
  BY <1>4, <1>5, FS_Injection
<1>. HIDE DEF f, n
<1>7. /\ f \in Seq(S) /\ DOMAIN f = 1..n
      /\ \A i, j \in DOMAIN f : f[i] = f[j] => i = j
      /\ \A x \in S : \E i \in DOMAIN f : f[i] = x
  BY <1>1, <1>3, <1>6 DEF IsInjective, Surjection
<1>. QED
  BY <1>7 DEF f

\* An /access is recorded with a row per governed tool and one for the others, all
\* of them hidden: between them they cover each tool of the call once.
LEMMA AccessRowsAccount ==
  ASSUME NEW call \in Calls, NEW what \in {"decided", "closed"},
         NEW decided, decided \subseteq Tools, NEW hidden, hidden \subseteq decided,
         NEW governed,
         \A tool \in decided : tool.toolkit \notin governed => tool \in hidden
  PROVE  LET rows == AccessAuditRows(call, what, decided, hidden, governed) IN
         /\ RowsFor(call, rows)
         /\ \A i \in DOMAIN rows : rows[i].id.what = what
         /\ Accounts(decided \ hidden, decided, Range(rows))
<1>. DEFINE mine == {tool \in decided : tool.toolkit \in governed}
            others == {tool \in decided : tool.toolkit \notin governed}
            own == SetToSeq(mine)
            Own(i) == Row(Id(call, what, i), "access", FALSE, {own[i]},
                          IF own[i] \in hidden THEN "deny" ELSE "allow")
            last == Row(Id(call, what, Len(own) + 1), "access", TRUE, others, "deny")
            rows == AccessAuditRows(call, what, decided, hidden, governed)
<1>1. IsFiniteSet(mine)
  BY HookAssumption, FS_Subset
<1>2. /\ own \in Seq(mine)
      /\ \A i, j \in DOMAIN own : own[i] = own[j] => i = j
      /\ \A x \in mine : \E i \in DOMAIN own : own[i] = x
  BY <1>1, SetListed
<1>3. others # {} => others \cap hidden # {}
  OBVIOUS
<1>4. rows = [i \in DOMAIN own |-> Own(i)] \o (IF others = {} THEN <<>> ELSE <<last>>)
  <2>1. others # {} => (IF others \cap hidden = {} THEN "allow" ELSE "deny") = "deny"
    BY <1>3
  <2>. QED
    BY <2>1 DEF AccessAuditRows
<1>5. \A i \in DOMAIN own : own[i] \in mine /\ i \in Nat /\ mine \subseteq Tools
  BY <1>2
<1>6. \A i \in DOMAIN own :
        /\ Own(i) \in AuditRow /\ Own(i).id.call = call /\ Own(i).id.what = what
        /\ Own(i).covers = {own[i]}
        /\ Own(i).decision = IF own[i] \in hidden THEN "deny" ELSE "allow"
  BY <1>5 DEF Row, Id, AuditRow, Hooks
<1>7. /\ last \in AuditRow /\ last.id.call = call /\ last.id.what = what
      /\ last.covers = others /\ last.decision = "deny"
  <2>1. Len(own) + 1 \in Nat /\ others \subseteq Tools
    BY <1>2
  <2>. QED
    BY <2>1 DEF Row, Id, AuditRow, Hooks
<1>. HIDE DEF own, last, rows, Own, mine
<1>8. /\ rows \in Seq(AuditRow)
      /\ \A i \in DOMAIN rows : \/ i \in DOMAIN own /\ rows[i] = Own(i)
                                \/ others # {} /\ rows[i] = last /\ i \notin DOMAIN own
      /\ \A i \in DOMAIN own : i \in DOMAIN rows /\ rows[i] = Own(i)
      /\ others # {} => \E i \in DOMAIN rows : rows[i] = last
      /\ \A i, j \in DOMAIN rows : i \notin DOMAIN own /\ j \notin DOMAIN own => i = j
  <2>. DEFINE first == [i \in DOMAIN own |-> Own(i)]
              rest == IF others = {} THEN <<>> ELSE <<last>>
  <2>1. first \in Seq(AuditRow) /\ Len(first) = Len(own) /\ \A i \in DOMAIN own : first[i] = Own(i)
    BY <1>2, <1>6
  <2>2. /\ rest \in Seq(AuditRow)
        /\ others = {} => Len(rest) = 0
        /\ others # {} => Len(rest) = 1 /\ rest[1] = last
    BY <1>7
  <2>3. DOMAIN own = 1..Len(own) /\ Len(own) \in Nat
    BY <1>2
  <2>. HIDE DEF first, rest, others
  <2>4. rows = first \o rest
    BY <1>4 DEF first, rest
  <2>. QED
    BY <2>1, <2>2, <2>3, <2>4
<1>9. RowsFor(call, rows) /\ \A i \in DOMAIN rows : rows[i].id.what = what
  BY <1>6, <1>7, <1>8 DEF RowsFor
<1>10. \A x : x \in mine <=> x \in decided /\ x.toolkit \in governed
  BY DEF mine
<1>11. \A i \in DOMAIN own : own[i] \in mine
  BY <1>2
<1>. DEFINE rs == Range(rows)
<1>12. \A r \in rs : \E i \in DOMAIN rows : r = rows[i]
  BY DEF Range
<1>13. \A i \in DOMAIN rows : rows[i] \in rs
  BY DEF Range
<1>. HIDE DEF rs
<1>14. decided \ hidden = UNION {row.covers : row \in {r \in rs : r.decision # "deny"}}
  <2>1. ASSUME NEW x \in decided, x \notin hidden
        PROVE  \E r \in rs : r.decision # "deny" /\ x \in r.covers
    <3>1. PICK i \in DOMAIN own : own[i] = x
      BY <1>2, <1>10, <2>1
    <3>. QED
      BY <1>6, <1>8, <1>13, <2>1, <3>1
  <2>2. ASSUME NEW r \in rs, r.decision # "deny", NEW x \in r.covers
        PROVE  x \in decided /\ x \notin hidden
    <3>1. PICK i \in DOMAIN rows : r = rows[i]
      BY <1>12
    <3>2. i \in DOMAIN own /\ r = Own(i)
      BY <1>7, <1>8, <2>2, <3>1
    <3>. QED
      BY <1>6, <1>10, <1>11, <2>2, <3>2
  <2>. QED
    BY <2>1, <2>2
<1>15. \A r, s \in rs : r.id.what = s.id.what
  BY <1>9, <1>12
<1>16. \A r, s \in rs : r # s => r.covers \cap s.covers = {}
  <2>1. ASSUME NEW r \in rs, NEW s \in rs, r # s PROVE r.covers \cap s.covers = {}
    <3>1. PICK i \in DOMAIN rows, j \in DOMAIN rows : r = rows[i] /\ s = rows[j]
      BY <1>12
    <3>2. CASE i \in DOMAIN own /\ j \in DOMAIN own
      BY <1>2, <1>6, <1>8, <2>1, <3>1, <3>2
    <3>3. CASE i \in DOMAIN own /\ j \notin DOMAIN own
      <4>1. r.covers = {own[i]} /\ s.covers = others /\ own[i] \in mine
        BY <1>6, <1>7, <1>8, <1>11, <3>1, <3>3
      <4>. QED
        BY <1>10, <4>1
    <3>4. CASE i \notin DOMAIN own /\ j \in DOMAIN own
      <4>1. s.covers = {own[j]} /\ r.covers = others /\ own[j] \in mine
        BY <1>6, <1>7, <1>8, <1>11, <3>1, <3>4
      <4>. QED
        BY <1>10, <4>1
    <3>5. CASE i \notin DOMAIN own /\ j \notin DOMAIN own
      BY <1>8, <2>1, <3>1, <3>5
    <3>. QED
      BY <3>2, <3>3, <3>4, <3>5
  <2>. QED
    BY <2>1
<1>17. UNION {s.covers : s \in rs} = decided
  <2>1. ASSUME NEW x \in decided PROVE \E s \in rs : x \in s.covers
    <3>1. CASE x.toolkit \in governed
      <4>1. PICK i \in DOMAIN own : own[i] = x
        BY <1>2, <1>10, <3>1
      <4>. QED
        BY <1>6, <1>8, <1>13, <4>1
    <3>2. CASE x.toolkit \notin governed
      BY <1>7, <1>8, <1>13, <3>2
    <3>. QED
      BY <3>1, <3>2
  <2>2. ASSUME NEW s \in rs, NEW x \in s.covers PROVE x \in decided
    <3>1. PICK i \in DOMAIN rows : s = rows[i]
      BY <1>12
    <3>2. CASE i \in DOMAIN own /\ s = Own(i)
      BY <1>6, <1>10, <1>11, <2>2, <3>2
    <3>3. CASE s = last
      BY <1>7, <2>2, <3>3
    <3>. QED
      BY <1>8, <3>1, <3>2, <3>3
  <2>. QED
    BY <2>1, <2>2
<1>18. Accounts(decided \ hidden, decided, rs)
  BY <1>14, <1>15, <1>16, <1>17 DEF Accounts
<1>. QED
  BY <1>9, <1>18 DEF rs, rows

-----------------------------------------------------------------------------
(* What a call is answered.                                                *)

LEMMA SingleRowAccounts ==
  ASSUME NEW rows, NEW row, rows = <<row>>, row \in AuditRow, NEW call, row.id.call = call,
         NEW let, NEW tools,
         let = IF row.decision = "deny" THEN {} ELSE row.covers,
         row.id.what = "decided" => row.covers = tools
  PROVE  RowsFor(call, rows) /\ Accounts(let, tools, Range(rows))
<1>1. rows \in Seq(AuditRow) /\ DOMAIN rows = {1} /\ rows[1] = row
  OBVIOUS
<1>2. Range(rows) = {row}
  BY <1>1 DEF Range
<1>. QED
  BY <1>1, <1>2 DEF RowsFor, Accounts

LEMMA NoRowAccounts ==
  \E none : /\ \A call, tools : RowsFor(call, none) /\ Accounts({}, tools, Range(none))
            /\ AddsNothing(none)
<1>1. <<>> \in Seq(AuditRow) /\ DOMAIN <<>> = {}
  OBVIOUS
<1>2. Range(<<>>) = {}
  BY <1>1 DEF Range
<1>3. \A call, tools : RowsFor(call, <<>>) /\ Accounts({}, tools, Range(<<>>))
  BY <1>1, <1>2 DEF RowsFor, Accounts
<1>4. \A rows \in Seq(AuditRow) : rows \o <<>> = rows
  OBVIOUS
<1>. QED
  BY <1>3, <1>4 DEF AddsNothing

LEMMA BodyTyped ==
  ASSUME NEW hook \in Hooks, NEW body \in Bodies[hook] \cup {NoBody}
  PROVE  /\ body.tools \subseteq Tools
         /\ hook # "access" /\ body # NoBody =>
              body.tools = {CHOOSE t \in body.tools : TRUE} /\ (CHOOSE t \in body.tools : TRUE) \in Tools
<1>1. CASE body = NoBody
  BY <1>1 DEF NoBody
<1>2. CASE body \in Bodies[hook]
  BY <1>2, HookAssumption
<1>. QED
  BY <1>1, <1>2

\* What a net answers lets nothing through, and its rows say so.
LEMMA FailClosedAccounts ==
  ASSUME NEW call \in Calls, NEW hook, hook \in Hooks,
         NEW body, body \in Bodies[hook] \cup {NoBody}, NEW tools,
         NEW closed, closed = FailClosed(call, hook, body)
  PROVE  /\ closed.answer.status \in {200, 500} /\ closed.answer.let = {}
         /\ RowsFor(call, closed.rows) /\ Accounts({}, tools, Range(closed.rows))
<1>. DEFINE row == Row(Id(call, "closed", 1), hook, hook = "access", body.tools, "deny")
<1>1. body.tools \subseteq Tools
  BY BodyTyped
<1>2. CASE hook = "access" /\ body # NoBody
  <2>. DEFINE rows == AccessAuditRows(call, "closed", body.tools, body.tools, GovernedFor)
  <2>1. closed.rows = rows /\ closed.answer.status = 200 /\ closed.answer.let = {}
    BY <1>2 DEF FailClosed, Outcome, Unanswered
  <2>. PICK what \in {"decided", "closed"} : what = "closed"
    OBVIOUS
  <2>2. /\ RowsFor(call, rows) /\ \A i \in DOMAIN rows : rows[i].id.what = "closed"
        /\ Accounts(body.tools \ body.tools, body.tools, Range(rows))
    <3>1. rows = AccessAuditRows(call, what, body.tools, body.tools, GovernedFor)
      OBVIOUS
    <3>. HIDE DEF rows
    <3>. QED
      BY <1>1, <3>1, AccessRowsAccount
  <2>. HIDE DEF rows
  <2>3. \A r \in Range(rows) : r.id.what = "closed"
    BY <2>2 DEF Range
  <2>4. Accounts({}, tools, Range(rows))
    BY <2>2, <2>3 DEF Accounts
  <2>5. /\ closed.answer.status \in {200, 500} /\ closed.answer.let = {}
        /\ RowsFor(call, closed.rows) /\ Accounts({}, tools, Range(closed.rows))
    BY <2>1, <2>2, <2>4
  <2>. QED
    BY <2>5
<1>3. CASE ~(hook = "access" /\ body # NoBody)
  <2>1. closed.rows = <<row>> /\ closed.answer.status \in {200, 500} /\ closed.answer.let = {}
    BY <1>3 DEF FailClosed, Outcome, Unanswered
  <2>2. row \in AuditRow /\ row.id.call = call /\ row.id.what = "closed" /\ row.decision = "deny"
    BY <1>1 DEF Row, Id, AuditRow
  <2>. HIDE DEF row
  <2>3. RowsFor(call, closed.rows) /\ Accounts({}, tools, Range(closed.rows))
    BY <2>1, <2>2, SingleRowAccounts
  <2>. QED
    BY <2>1, <2>3
<1>. QED
  BY <1>2, <1>3

\* So it may be recorded with its rows, and with none.
LEMMA FailClosedRecords ==
  ASSUME NEW call \in Calls, NEW hook, hook \in Hooks,
         NEW body, body \in Bodies[hook] \cup {NoBody}, NEW tools,
         NEW closed, closed = FailClosed(call, hook, body)
  PROVE  /\ Records(call, tools, closed.answer, closed.rows)
         /\ \E none : /\ Records(call, tools, closed.answer, none)
                      /\ AddsNothing(none)
<1>1. /\ closed.answer.status \in {200, 500} /\ closed.answer.let = {}
      /\ RowsFor(call, closed.rows) /\ Accounts({}, tools, Range(closed.rows))
  BY FailClosedAccounts
<1>2. PICK none : /\ RowsFor(call, none) /\ Accounts({}, tools, Range(none))
                  /\ AddsNothing(none)
  BY NoRowAccounts
<1>3. Records(call, tools, closed.answer, closed.rows)
  BY <1>1 DEF Records
<1>4. Records(call, tools, closed.answer, none)
  BY <1>1, <1>2 DEF Records
<1>. QED
  BY <1>2, <1>3, <1>4

\* A tool whose toolkit the loaded policy does not govern is hidden.
LEMMA UngovernedIsHidden ==
  ASSUME NEW user, NEW tools
  PROVE  /\ Hidden(user, tools) \subseteq tools
         /\ \A tool \in tools : tool.toolkit \notin GovernedFor => tool \in Hidden(user, tools)
         /\ \A tool \in tools \ Hidden(user, tools) :
              /\ cache.status = "ready" /\ tool \in Policy.catalogue
              /\ <<FindSubject(user), tool>> \in Policy.visible
  BY DEF Hidden, GovernedFor

\* An evaluation's rows account for its answer.
LEMMA EvaluationAccounts ==
  ASSUME TypeOK, NEW call \in Calls, NEW hook \in Hooks, NEW body \in Bodies[hook], body # NoBody
  PROVE  LET outcome == Evaluate(call, hook, body) IN
         /\ outcome.answer.status = 200 /\ outcome.answer.let \subseteq Tools
         /\ RowsFor(call, outcome.rows) /\ outcome.left \subseteq grants
         /\ Accounts(outcome.answer.let, body.tools, Range(outcome.rows))
<1>. DEFINE outcome == Evaluate(call, hook, body)
            tool == CHOOSE t \in body.tools : TRUE
            id == Id(call, "decided", 1)
<1>1. /\ body.tools \subseteq Tools
      /\ hook # "access" => body.tools = {tool} /\ tool \in Tools
  BY BodyTyped
<1>2. CASE hook = "access"
  <2>. DEFINE hidden == Hidden(body.user, body.tools)
              rows == AccessAuditRows(call, "decided", body.tools, hidden, GovernedFor)
  <2>1. /\ outcome.rows = rows /\ outcome.answer.status = 200 /\ outcome.left = grants
        /\ outcome.answer.let = body.tools \ hidden
    BY <1>2 DEF Evaluate, HandleAccess, Outcome, Unanswered
  <2>. PICK what \in {"decided", "closed"} : what = "decided"
    OBVIOUS
  <2>2. RowsFor(call, rows) /\ Accounts(body.tools \ hidden, body.tools, Range(rows))
    <3>1. rows = AccessAuditRows(call, what, body.tools, hidden, GovernedFor)
      OBVIOUS
    <3>2. hidden \subseteq body.tools /\ \A t \in body.tools : t.toolkit \notin GovernedFor => t \in hidden
      BY UngovernedIsHidden
    <3>. HIDE DEF rows, hidden
    <3>. QED
      BY <1>1, <3>1, <3>2, AccessRowsAccount
  <2>. HIDE DEF rows, hidden, outcome
  <2>3. /\ outcome.answer.status = 200 /\ outcome.answer.let \subseteq Tools
        /\ RowsFor(call, outcome.rows) /\ outcome.left \subseteq grants
        /\ Accounts(outcome.answer.let, body.tools, Range(outcome.rows))
    BY <1>1, <2>1, <2>2
  <2>. QED
    BY <2>3 DEF outcome
<1>3. CASE hook \in {"pre", "post"}
  <2>1. PICK decision \in {"allow", "deny", "modify"} :
          /\ outcome.rows = <<Row(id, hook, FALSE, {tool}, decision)>>
          /\ outcome.answer.status = 200 /\ outcome.left \subseteq grants
          /\ outcome.answer.let = IF decision = "deny" THEN {} ELSE {tool}
    <3>1. CASE hook = "pre"
      <4>. DEFINE held == <<FindSubject(body.user), tool>>
                  permitted == cache.status = "ready" /\ held \in Policy.permits
                  decisive == /\ cache.status = "ready" /\ ~permitted
                              /\ tool \in Policy.catalogue /\ held \in grants
                  allowed == permitted \/ decisive
      <4>1. outcome = Outcome([Unanswered EXCEPT !.status = 200,
                                 !.let = IF allowed THEN {tool} ELSE {},
                                 !.ref = IF allowed THEN Null ELSE id],
                        <<Row(id, "pre", FALSE, {tool}, IF allowed THEN "allow" ELSE "deny")>>,
                        IF decisive THEN grants \ {held} ELSE grants)
        BY <3>1 DEF Evaluate, HandlePre
      <4>. HIDE DEF allowed, decisive, held, permitted, outcome
      <4>2. /\ outcome.rows = <<Row(id, "pre", FALSE, {tool}, IF allowed THEN "allow" ELSE "deny")>>
            /\ outcome.answer.status = 200
            /\ outcome.answer.let = IF allowed THEN {tool} ELSE {}
            /\ outcome.left = IF decisive THEN grants \ {held} ELSE grants
        BY <4>1 DEF Outcome, Unanswered
      <4>3. PICK decision \in {"allow", "deny"} : decision = IF allowed THEN "allow" ELSE "deny"
        OBVIOUS
      <4>4. outcome.rows = <<Row(id, hook, FALSE, {tool}, decision)>>
        BY <3>1, <4>2, <4>3
      <4>5. outcome.answer.let = IF decision = "deny" THEN {} ELSE {tool}
        BY <4>2, <4>3
      <4>6. decision \in {"allow", "deny", "modify"}
        BY <4>3
      <4>7. outcome.answer.status = 200 /\ outcome.left \subseteq grants
        BY <4>2
      <4>. HIDE DEF id, tool
      <4>. QED
        BY <4>4, <4>5, <4>6, <4>7
    <3>2. CASE hook = "post" /\ cache.status # "ready"
      BY <3>2 DEF Evaluate, HandlePost, Outcome, Unanswered
    <3>3. CASE hook = "post" /\ cache.status = "ready"
      <4>. DEFINE read == Redact(body.output, FindSubject(body.user), tool, OutputPolicy)
      <4>1. outcome = Outcome([Unanswered EXCEPT !.status = 200, !.let = {tool},
                                 !.output = read.output, !.redactions = read.redactions],
                        <<Row(id, "post", FALSE, {tool},
                              IF read.redactions = {} THEN "allow" ELSE "modify")>>, grants)
        BY <3>3 DEF Evaluate, HandlePost
      <4>. HIDE DEF read, outcome
      <4>2. /\ outcome.rows = <<Row(id, "post", FALSE, {tool},
                                    IF read.redactions = {} THEN "allow" ELSE "modify")>>
            /\ outcome.answer.status = 200 /\ outcome.answer.let = {tool}
            /\ outcome.left = grants
        BY <4>1 DEF Outcome, Unanswered
      <4>3. CASE read.redactions = {}
        BY <3>3, <4>2, <4>3
      <4>4. CASE read.redactions # {}
        BY <3>3, <4>2, <4>4
      <4>. QED
        BY <4>3, <4>4
    <3>. QED
      BY <1>3, <3>1, <3>2, <3>3
  <2>. DEFINE row == Row(id, hook, FALSE, {tool}, decision)
  <2>2. /\ row \in AuditRow /\ row.id.call = call /\ row.decision = decision
        /\ row.covers = {tool}
    BY <1>1, <1>3 DEF Row, Id, AuditRow
  <2>3. outcome.rows = <<row>> /\ body.tools = {tool} /\ tool \in Tools
    BY <1>1, <1>3, <2>1
  <2>. HIDE DEF row, outcome, tool
  <2>4. RowsFor(call, outcome.rows) /\ Accounts(outcome.answer.let, body.tools, Range(outcome.rows))
    <3>1. /\ outcome.answer.let = IF row.decision = "deny" THEN {} ELSE row.covers
          /\ row.covers = body.tools
      BY <2>1, <2>2, <2>3
    <3>. QED
      BY <2>2, <2>3, <3>1, SingleRowAccounts
  <2>5. outcome.answer.let \subseteq Tools
    BY <2>1, <2>3
  <2>. QED
    BY <2>1, <2>4, <2>5 DEF outcome
<1>. QED
  BY <1>2, <1>3 DEF Hooks

-----------------------------------------------------------------------------
(* The log.                                                                *)

LEMMA CallTyped ==
  ASSUME TypeOK, NEW c \in Calls
  PROVE  /\ IsCall(calls[c]) /\ calls = [d \in Calls |-> calls[d]] /\ log \in Seq(AuditRow)
         /\ calls[c] = [stage |-> calls[c].stage, hook |-> calls[c].hook,
                        arrival |-> calls[c].arrival, body |-> calls[c].body,
                        answer |-> calls[c].answer]
         /\ calls[c].hook \in Hooks /\ calls[c].body \in Bodies[calls[c].hook] \cup {NoBody}
  BY DEF TypeOK, IsCall

\* The rows of a call in a log.
RowsIn(rows, c) == {rows[i] : i \in {j \in DOMAIN rows : rows[j].id.call = c}}

LEMMA LogIsAccounts ==
  /\ LogAccountsForAnswers <=>
       \A c \in Calls : Accounts(calls[c].answer.let, calls[c].body.tools, RowsIn(log, c))
  /\ LogAccountsForAnswers' <=>
       \A c \in Calls : Accounts(calls'[c].answer.let, calls'[c].body.tools, RowsIn(log', c))
  BY DEF LogAccountsForAnswers, Accounts, RowsOf, RowsIn

LEMMA UnsettledAre ==
  ASSUME NEW c
  PROVE  /\ Unsettled(c) <=>
              /\ calls[c].stage # "answered" => calls[c].answer = Unanswered /\ RowsIn(log, c) = {}
              /\ calls[c].stage = "reading" /\ calls[c].arrival \in {"valid", "refused"} =>
                   calls[c].body \in Bodies[calls[c].hook] /\ calls[c].body # NoBody
         /\ Unsettled(c)' <=>
              /\ calls'[c].stage # "answered" => calls'[c].answer = Unanswered /\ RowsIn(log', c) = {}
              /\ calls'[c].stage = "reading" /\ calls'[c].arrival \in {"valid", "refused"} =>
                   calls'[c].body \in Bodies[calls'[c].hook] /\ calls'[c].body # NoBody
  BY DEF Unsettled, RowsOf, RowsIn

\* The rows of every call after some more were appended to the log.
LEMMA RowsAppended ==
  ASSUME NEW old \in Seq(AuditRow), NEW more \in Seq(AuditRow)
  PROVE  /\ old \o more \in Seq(AuditRow)
         /\ \A d : RowsIn(old \o more, d) =
                     RowsIn(old, d) \cup {r \in Range(more) : r.id.call = d}
<1>. DEFINE all == old \o more
<1>1. /\ all \in Seq(AuditRow) /\ Len(all) = Len(old) + Len(more)
      /\ \A i \in 1..Len(old) : all[i] = old[i]
      /\ \A j \in 1..Len(more) : all[Len(old) + j] = more[j]
  OBVIOUS
<1>2. /\ DOMAIN all = 1..Len(all) /\ DOMAIN old = 1..Len(old) /\ DOMAIN more = 1..Len(more)
      /\ Len(all) \in Nat /\ Len(old) \in Nat /\ Len(more) \in Nat
  BY <1>1
<1>. HIDE DEF all
<1>3. /\ \A i \in DOMAIN old : i \in DOMAIN all /\ all[i] = old[i]
      /\ \A j \in DOMAIN more : Len(old) + j \in DOMAIN all /\ all[Len(old) + j] = more[j]
  BY <1>1, <1>2
<1>4. \A i \in DOMAIN all : i \in DOMAIN old \/ \E j \in DOMAIN more : i = Len(old) + j
  <2>1. ASSUME NEW i \in DOMAIN all, i \notin DOMAIN old
        PROVE  \E j \in DOMAIN more : i = Len(old) + j
    <3>1. i - Len(old) \in DOMAIN more /\ i = Len(old) + (i - Len(old))
      BY <1>1, <1>2, <2>1
    <3>. QED
      BY <3>1
  <2>. QED
    BY <2>1
<1>5. \A i \in DOMAIN all : \/ i \in DOMAIN old /\ all[i] = old[i]
                            \/ \E j \in DOMAIN more : all[i] = more[j]
  BY <1>3, <1>4
<1>6. ASSUME NEW d
      PROVE  RowsIn(all, d) = RowsIn(old, d) \cup {r \in Range(more) : r.id.call = d}
  <2>1. ASSUME NEW r \in RowsIn(all, d)
        PROVE  r \in RowsIn(old, d) \cup {s \in Range(more) : s.id.call = d}
    <3>1. PICK i \in DOMAIN all : r = all[i] /\ all[i].id.call = d
      BY DEF RowsIn
    <3>. QED
      BY <1>5, <3>1 DEF RowsIn, Range
  <2>2. ASSUME NEW r \in RowsIn(old, d) PROVE r \in RowsIn(all, d)
    <3>1. PICK i \in DOMAIN old : r = old[i] /\ old[i].id.call = d
      BY DEF RowsIn
    <3>. QED
      BY <1>3, <3>1 DEF RowsIn
  <2>3. ASSUME NEW r \in Range(more), r.id.call = d PROVE r \in RowsIn(all, d)
    <3>1. PICK j \in DOMAIN more : r = more[j]
      BY DEF Range
    <3>. QED
      BY <1>3, <2>3, <3>1 DEF RowsIn
  <2>. QED
    BY <2>1, <2>2, <2>3
<1>. QED
  BY <1>1, <1>6 DEF all

\* A call is changed and the others are not.
LEMMA CallChanged ==
  ASSUME TypeOK, NEW c \in Calls, NEW now, calls' = [calls EXCEPT ![c] = now]
  PROVE  /\ calls'[c] = now /\ \A d \in Calls : d # c => calls'[d] = calls[d]
         /\ calls' = [d \in Calls |-> calls'[d]]
<1>1. calls = [d \in Calls |-> calls[d]]
  BY DEF TypeOK
<1>2. calls' = [d \in Calls |-> IF d = c THEN now ELSE calls[d]]
  BY <1>1
<1>3. \A d \in Calls : calls'[d] = IF d = c THEN now ELSE calls[d]
  BY <1>2
<1>4. calls' = [d \in Calls |-> calls'[d]]
  BY <1>2, <1>3
<1>. QED
  BY <1>3, <1>4

\* A call that is answered keeps what it was asked.
LEMMA CallSettled ==
  ASSUME TypeOK, NEW c \in Calls, NEW outcome, Settled(c, outcome)
  PROVE  /\ calls'[c] = [stage |-> "answered", hook |-> calls[c].hook,
                         arrival |-> calls[c].arrival, body |-> calls[c].body,
                         answer |-> outcome.answer]
         /\ \A d \in Calls : d # c => calls'[d] = calls[d]
         /\ calls' = [d \in Calls |-> calls'[d]]
<1>1. calls = [d \in Calls |-> calls[d]]
  BY CallTyped
<1>2. PICK mid : mid = [calls EXCEPT ![c].stage = "answered"]
  OBVIOUS
<1>3. calls' = [mid EXCEPT ![c].answer = outcome.answer]
  BY <1>2 DEF Settled
<1>4. mid[c] = [calls[c] EXCEPT !.stage = "answered"] /\ \A d \in Calls : d # c => mid[d] = calls[d]
  BY <1>1, <1>2
<1>5. mid = [d \in Calls |-> mid[d]]
  BY <1>1, <1>2
<1>6. calls'[c] = [mid[c] EXCEPT !.answer = outcome.answer]
      /\ \A d \in Calls : d # c => calls'[d] = mid[d]
  BY <1>3, <1>5
<1>7. calls' = [d \in Calls |-> calls'[d]]
  BY <1>3, <1>5
<1>8. PICK r : r = calls[c] /\ r = [stage |-> r.stage, hook |-> r.hook, arrival |-> r.arrival,
                                   body |-> r.body, answer |-> r.answer]
  BY CallTyped
<1>9. mid[c] = [stage |-> "answered", hook |-> r.hook, arrival |-> r.arrival, body |-> r.body,
                answer |-> r.answer]
  BY <1>4, <1>8
<1>10. calls'[c] = [stage |-> "answered", hook |-> r.hook, arrival |-> r.arrival,
                    body |-> r.body, answer |-> outcome.answer]
  BY <1>6, <1>9
<1>. QED
  BY <1>4, <1>6, <1>7, <1>8, <1>10

LEMMA AnswerSettled ==
  ASSUME TypeOK, NEW c \in Calls, NEW outcome, Settled(c, outcome)
  PROVE  /\ calls'[c].answer = outcome.answer
         /\ \A d \in Calls : d # c => calls'[d] = calls[d]
<1>1. calls'[c] = [stage |-> "answered", hook |-> calls[c].hook, arrival |-> calls[c].arrival,
                   body |-> calls[c].body, answer |-> outcome.answer]
  BY CallSettled
<1>2. \A d \in Calls : d # c => calls'[d] = calls[d]
  BY CallSettled
<1>. QED
  BY <1>1, <1>2

LEMMA UnsettledKept ==
  ASSUME NEW d, calls'[d] = calls[d], RowsIn(log', d) = RowsIn(log, d), Unsettled(d)
  PROVE  Unsettled(d)'
  BY UnsettledAre

\* A call that is answered, with rows of its own that account for the answer.
LEMMA AnsweredAccounts ==
  ASSUME IInv, NEW c \in Calls, calls[c].stage = "reading",
         NEW outcome, Settled(c, outcome),
         NEW rows, Records(c, calls[c].body.tools, outcome.answer, rows), log' = log \o rows,
         grants' \subseteq grants, UNCHANGED cache
  PROVE  IInv'
<1>. PICK answer : answer = outcome.answer
  OBVIOUS
<1>0. /\ answer.status \in {200, 500} /\ answer.let \subseteq Tools
      /\ RowsFor(c, rows) /\ Accounts(answer.let, calls[c].body.tools, Range(rows))
  BY DEF Records
<1>. DEFINE now == [stage |-> "answered", hook |-> calls[c].hook, arrival |-> calls[c].arrival,
                    body |-> calls[c].body, answer |-> answer]
<1>1. TypeOK /\ LogAccountsForAnswers /\ \A d \in Calls : Unsettled(d)
  BY DEF IInv
<1>3. /\ calls'[c] = now /\ \A d \in Calls : d # c => calls'[d] = calls[d]
      /\ calls' = [d \in Calls |-> calls'[d]]
  BY <1>1, CallSettled
<1>4. IsCall(now)
  <2>1. IsCall(calls[c])
    BY <1>1, CallTyped
  <2>2. /\ calls[c].hook \in Hooks /\ calls[c].arrival \in Arrivals
        /\ calls[c].body \in Bodies[calls[c].hook] \cup {NoBody}
    BY <2>1 DEF IsCall
  <2>. QED
    BY <1>0, <2>2 DEF IsCall
<1>5. now.stage = "answered" /\ now.answer = answer /\ now.body = calls[c].body
  OBVIOUS
<1>. HIDE DEF now
<1>6. /\ log' \in Seq(AuditRow)
      /\ \A d : RowsIn(log', d) = RowsIn(log, d) \cup {r \in Range(rows) : r.id.call = d}
  <2>1. log \in Seq(AuditRow) /\ rows \in Seq(AuditRow)
    BY <1>0, <1>1 DEF TypeOK, RowsFor
  <2>. QED
    BY <2>1, RowsAppended
<1>7. RowsIn(log, c) = {} /\ \A r \in Range(rows) : r.id.call = c
  BY <1>0, <1>1, UnsettledAre DEF RowsFor, Range
<1>8. RowsIn(log', c) = Range(rows) /\ \A d : d # c => RowsIn(log', d) = RowsIn(log, d)
  <2>1. {r \in Range(rows) : r.id.call = c} = Range(rows)
    BY <1>7
  <2>2. ASSUME NEW d, d # c PROVE RowsIn(log', d) = RowsIn(log, d)
    <3>1. {r \in Range(rows) : r.id.call = d} = {}
      BY <1>7, <2>2
    <3>2. RowsIn(log', d) = RowsIn(log, d) \cup {r \in Range(rows) : r.id.call = d}
      BY <1>6
    <3>. QED
      BY <3>1, <3>2
  <2>3. RowsIn(log', c) = RowsIn(log, c) \cup {r \in Range(rows) : r.id.call = c}
    BY <1>6
  <2>. QED
    BY <1>7, <2>1, <2>2, <2>3
<1>9. TypeOK'
  BY <1>1, <1>3, <1>4, <1>6 DEF TypeOK
<1>10. LogAccountsForAnswers'
  <2>1. ASSUME NEW d \in Calls
        PROVE  Accounts(calls'[d].answer.let, calls'[d].body.tools, RowsIn(log', d))
    <3>1. CASE d = c
      BY <1>0, <1>3, <1>5, <1>8, <3>1
    <3>2. CASE d # c
      BY <1>1, <1>3, <1>8, <3>2, LogIsAccounts
    <3>. QED
      BY <3>1, <3>2
  <2>. QED
    BY <2>1, LogIsAccounts
<1>11. ASSUME NEW d \in Calls PROVE Unsettled(d)'
  <2>1. CASE d = c
    BY <1>3, <1>5, <2>1, UnsettledAre
  <2>2. CASE d # c
    <3>1. calls'[d] = calls[d] /\ RowsIn(log', d) = RowsIn(log, d)
      BY <1>3, <1>8, <2>2
    <3>2. Unsettled(d)
      BY <1>1
    <3>. QED
      BY <3>1, <3>2, UnsettledKept
  <2>. QED
    BY <2>1, <2>2
<1>. QED
  BY <1>9, <1>10, <1>11 DEF IInv

-----------------------------------------------------------------------------
(* The steps.                                                              *)

LEMMA InitIInv == Init => IInv
<1>. SUFFICES ASSUME Init PROVE IInv
  OBVIOUS
<1>1. /\ cache = Cold /\ grants = Grants /\ log = <<>> /\ calls = [c \in Calls |-> Idle]
      /\ \A c \in Calls : calls[c] = Idle
  BY DEF Init
<1>2. IsCall(Idle) /\ Idle.stage = "idle" /\ Idle.answer = Unanswered /\ Unanswered.let = {}
  BY DEF IsCall, Idle, Unanswered, Hooks, Arrivals
<1>3. log \in Seq(AuditRow) /\ DOMAIN log = {}
  BY <1>1
<1>4. \A c \in Calls : RowsOf(c) = {}
  BY <1>3 DEF RowsOf
<1>5. TypeOK
  BY <1>1, <1>2, <1>3 DEF TypeOK
<1>6. LogAccountsForAnswers
  BY <1>1, <1>2, <1>4 DEF LogAccountsForAnswers
<1>. QED
  BY <1>1, <1>2, <1>4, <1>5, <1>6 DEF IInv, Unsettled

LEMMA LoadPolicyIInv ==
  ASSUME IInv, NEW s \in Snapshots, LoadPolicy(s)
  PROVE  IInv'
<1>1. cache' \in {Ready(s), Failed} /\ UNCHANGED <<grants, log, calls>>
  BY DEF LoadPolicy
<1>2. TypeOK' /\ LogAccountsForAnswers'
  BY <1>1 DEF IInv, TypeOK, LogAccountsForAnswers, RowsOf
<1>. QED
  BY <1>1, <1>2 DEF IInv, Unsettled, RowsOf

LEMMA ArriveIInv ==
  ASSUME IInv, NEW c \in Calls, NEW hook \in Hooks, NEW bearer, NEW arrival \in Arrivals,
         NEW body \in Bodies[hook] \cup {NoBody}, Arrive(c, hook, bearer, arrival, body)
  PROVE  IInv'
<1>. DEFINE entered == [Idle EXCEPT !.stage = "reading", !.hook = hook, !.arrival = arrival,
                                    !.body = body]
            turnedAway == [Idle EXCEPT !.stage = "answered", !.answer.status = 401]
<1>1. PICK now \in {entered, turnedAway} : calls' = [calls EXCEPT ![c] = now]
  BY DEF Arrive
<1>2. /\ IsCall(now) /\ now.answer.let = {}
      /\ \/ now.stage = "reading" /\ now.answer = Unanswered /\ now.body = body /\ now.hook = hook
            /\ now.arrival = arrival
         \/ now.stage = "answered"
  <2>1. CASE now = entered
    <3>1. now = [stage |-> "reading", hook |-> hook, arrival |-> arrival, body |-> body,
                 answer |-> Unanswered]
      BY <2>1 DEF Idle
    <3>2. Unanswered.status = 0 /\ Unanswered.let = {}
      BY DEF Unanswered
    <3>. QED
      BY <3>1, <3>2 DEF IsCall
  <2>2. CASE now = turnedAway
    <3>1. PICK first \in Hooks : first = "access"
      BY DEF Hooks
    <3>. DEFINE refused == [Unanswered EXCEPT !.status = 401]
    <3>2. now = [stage |-> "answered", hook |-> first, arrival |-> "valid", body |-> NoBody,
                 answer |-> refused]
      <4>1. PICK r : r = [Idle EXCEPT !.stage = "answered"]
        OBVIOUS
      <4>2. r = [stage |-> "answered", hook |-> first, arrival |-> "valid", body |-> NoBody,
                 answer |-> Unanswered]
        BY <3>1, <4>1 DEF Idle
      <4>3. now = [r EXCEPT !.answer.status = 401]
        BY <2>2, <4>1
      <4>4. r.answer = Unanswered
        BY <4>2
      <4>5. now = [r EXCEPT !.answer = refused]
        BY <4>3, <4>4
      <4>. HIDE DEF refused
      <4>. QED
        BY <4>2, <4>5
    <3>3. refused.status = 401 /\ refused.let = {}
      BY DEF Unanswered
    <3>. HIDE DEF refused
    <3>. QED
      BY <3>2, <3>3 DEF IsCall, Arrivals
  <2>. HIDE DEF entered, turnedAway
  <2>. QED
    BY <1>1, <2>1, <2>2
<1>. HIDE DEF entered, turnedAway
<1>3. /\ calls[c].stage = "idle" /\ (arrival \in {"garbage", "stalled"} <=> body = NoBody)
      /\ UNCHANGED <<cache, grants, log>>
  BY DEF Arrive
<1>4. TypeOK /\ LogAccountsForAnswers /\ \A d \in Calls : Unsettled(d)
  BY DEF IInv
<1>5. /\ calls'[c] = now /\ \A d \in Calls : d # c => calls'[d] = calls[d]
      /\ calls' = [d \in Calls |-> calls'[d]]
  BY <1>1, <1>4, CallChanged
<1>6. RowsIn(log', c) = {} /\ \A d : RowsIn(log', d) = RowsIn(log, d)
  BY <1>3, <1>4, UnsettledAre
<1>7. TypeOK'
  BY <1>2, <1>3, <1>4, <1>5 DEF TypeOK
<1>8. LogAccountsForAnswers'
  <2>1. ASSUME NEW d \in Calls
        PROVE  Accounts(calls'[d].answer.let, calls'[d].body.tools, RowsIn(log', d))
    <3>1. CASE d = c
      BY <1>2, <1>5, <1>6, <3>1 DEF Accounts
    <3>2. CASE d # c
      BY <1>4, <1>5, <1>6, <3>2, LogIsAccounts
    <3>. QED
      BY <3>1, <3>2
  <2>. QED
    BY <2>1, LogIsAccounts
<1>9. ASSUME NEW d \in Calls PROVE Unsettled(d)'
  <2>1. CASE d = c
    <3>1. calls'[d] = now /\ RowsIn(log', d) = {}
      BY <1>5, <1>6, <2>1
    <3>2. now.stage = "reading" /\ now.arrival \in {"valid", "refused"} =>
            now.body \in Bodies[now.hook] /\ now.body # NoBody
      BY <1>2, <1>3
    <3>3. now.stage # "answered" => now.answer = Unanswered
      BY <1>2
    <3>. QED
      BY <3>1, <3>2, <3>3, UnsettledAre
  <2>2. CASE d # c
    BY <1>4, <1>5, <1>6, <2>2, UnsettledAre
  <2>. QED
    BY <2>1, <2>2
<1>. QED
  BY <1>7, <1>8, <1>9 DEF IInv

\* However a call fails, it is answered by the net and recorded by it or not at all.
LEMMA CloseWithIInv ==
  ASSUME IInv, NEW c \in Calls, calls[c].stage = "reading",
         NEW body, body \in {calls[c].body, NoBody},
         NEW audited \in BOOLEAN, CloseWith(c, body, audited),
         grants' \subseteq grants, UNCHANGED cache
  PROVE  IInv'
<1>1. PICK hook, tools : hook = calls[c].hook /\ tools = calls[c].body.tools
  OBVIOUS
<1>2. hook \in Hooks /\ body \in Bodies[hook] \cup {NoBody}
  BY <1>1, CallTyped DEF IInv
<1>3. PICK closed : closed = FailClosed(c, hook, body)
  OBVIOUS
<1>4. Settled(c, closed) /\ log' = IF audited THEN log \o closed.rows ELSE log
  BY <1>1, <1>3 DEF CloseWith
<1>5. Records(c, tools, closed.answer, closed.rows)
  BY <1>2, <1>3, FailClosedRecords
<1>6. PICK none : /\ Records(c, tools, closed.answer, none)
                  /\ AddsNothing(none)
  BY <1>2, <1>3, FailClosedRecords
<1>7. PICK rows : Records(c, tools, closed.answer, rows) /\ log' = log \o rows
  <2>1. log \in Seq(AuditRow)
    BY CallTyped DEF IInv
  <2>2. CASE audited
    BY <1>4, <1>5, <2>2
  <2>3. CASE ~audited
    <3>1. log' = log \o none
      BY <1>4, <1>6, <2>1, <2>3 DEF AddsNothing
    <3>. QED
      BY <1>6, <3>1
  <2>. QED
    BY <2>2, <2>3
<1>. QED
  BY <1>1, <1>4, <1>7, AnsweredAccounts

LEMMA FailsIInv ==
  ASSUME IInv, NEW c \in Calls, DeadlinePasses(c) \/ ParseFails(c) \/ EvaluationDiscarded(c)
  PROVE  IInv'
<1>1. CASE DeadlinePasses(c)
  BY <1>1, CloseWithIInv DEF DeadlinePasses
<1>2. CASE ParseFails(c)
  <2>1. PICK audited \in BOOLEAN, body \in Readings(c) : CloseWith(c, body, audited)
    BY <1>2 DEF ParseFails
  <2>2. body \in {calls[c].body, NoBody}
    BY <2>1 DEF Readings
  <2>. QED
    BY <1>2, <2>1, <2>2, CloseWithIInv DEF ParseFails
<1>3. CASE EvaluationDiscarded(c)
  <2>1. /\ calls[c].stage = "reading" /\ calls[c].arrival = "valid"
        /\ grants' = Evaluate(c, calls[c].hook, calls[c].body).left /\ UNCHANGED cache
    BY <1>3 DEF EvaluationDiscarded
  <2>2. calls[c].hook \in Hooks /\ calls[c].body \in Bodies[calls[c].hook] /\ calls[c].body # NoBody
    BY <2>1, CallTyped DEF IInv, Unsettled
  <2>3. grants' \subseteq grants
    BY <2>1, <2>2, EvaluationAccounts DEF IInv
  <2>. QED
    BY <1>3, <2>1, <2>3, CloseWithIInv DEF EvaluationDiscarded
<1>. QED
  BY <1>1, <1>2, <1>3

LEMMA AnswersIInv ==
  ASSUME IInv, NEW c \in Calls, Answers(c)
  PROVE  IInv'
<1>. PICK hook : hook = calls[c].hook
  OBVIOUS
<1>. PICK body : body = calls[c].body
  OBVIOUS
<1>. DEFINE outcome == Evaluate(c, hook, body)
<1>1. /\ calls[c].stage = "reading" /\ calls[c].arrival = "valid" /\ UNCHANGED cache
      /\ Settled(c, outcome)
      /\ log' = log \o outcome.rows /\ grants' = outcome.left
  BY DEF Answers
<1>2. hook \in Hooks /\ body \in Bodies[hook] /\ body # NoBody
  BY <1>1, CallTyped DEF IInv, Unsettled
<1>3. /\ outcome.answer.status = 200 /\ outcome.answer.let \subseteq Tools
      /\ RowsFor(c, outcome.rows) /\ outcome.left \subseteq grants
      /\ Accounts(outcome.answer.let, body.tools, Range(outcome.rows))
  BY <1>2, EvaluationAccounts DEF IInv
<1>. HIDE DEF outcome
<1>4. Records(c, calls[c].body.tools, outcome.answer, outcome.rows)
  BY <1>3 DEF Records
<1>. QED
  BY <1>1, <1>3, <1>4, AnsweredAccounts

LEMMA NextIInv == IInv /\ [Next]_vars => IInv'
<1>. SUFFICES ASSUME IInv, [Next]_vars PROVE IInv'
  OBVIOUS
<1>1. CASE UNCHANGED vars
  BY <1>1 DEF vars, IInv, TypeOK, LogAccountsForAnswers, RowsOf, Unsettled
<1>2. ASSUME NEW s \in Snapshots, LoadPolicy(s) PROVE IInv'
  BY <1>2, LoadPolicyIInv
<1>3. ASSUME NEW c \in Calls, NEW hook \in Hooks, NEW bearer \in Bearers,
             NEW arrival \in Arrivals, NEW body \in Bodies[hook] \cup {NoBody},
             Arrive(c, hook, bearer, arrival, body)
      PROVE  IInv'
  BY <1>3, ArriveIInv
<1>4. ASSUME NEW c \in Calls,
             DeadlinePasses(c) \/ ParseFails(c) \/ EvaluationDiscarded(c) \/ Answers(c)
      PROVE  IInv'
  BY <1>4, FailsIInv, AnswersIInv
<1>. QED
  BY <1>1, <1>2, <1>3, <1>4 DEF Next

THEOREM Inductive == Spec => []IInv
<1>. QED
  BY InitIInv, NextIInv, PTL DEF Spec

-----------------------------------------------------------------------------
(* What holds.                                                             *)

\* The policy, the unspent grants, the audit log and every call keep their shape: no
\* answer is anything but one of the server's, and no call is about tools it did not name.
THEOREM TypeCorrect == Spec => []TypeOK
<1>1. IInv => TypeOK
  BY DEF IInv
<1>. QED
  BY <1>1, Inductive, PTL

\* What a call was let do is what its audit rows say it was, for each tool it named:
\* whatever ran out, threw or could not be written between the decision and the answer.
THEOREM TheLogIsTheAccount == Spec => []LogAccountsForAnswers
<1>1. IInv => LogAccountsForAnswers
  BY DEF IInv
<1>. QED
  BY <1>1, Inductive, PTL

\* Who is let through when a call is answered by its evaluation.
LEMMA LetByPolicy ==
  ASSUME TypeOK, NEW call, NEW hook, hook \in Hooks, NEW body, body \in Bodies[hook],
         body # NoBody, NEW outcome, outcome = Evaluate(call, hook, body),
         NEW who, who = FindSubject(body.user), outcome.answer.let # {}
  PROVE  /\ cache.status = "ready"
         /\ hook # "post" => outcome.answer.let \subseteq Policy.catalogue
         /\ hook = "access" => \A t \in outcome.answer.let : <<who, t>> \in Policy.visible
         /\ hook = "pre" => \A t \in outcome.answer.let :
              <<who, t>> \in Policy.permits \cup (grants \ outcome.left)
         /\ hook = "post" => outcome.answer.let = body.tools
<1>. DEFINE tool == CHOOSE t \in body.tools : TRUE
            id == Id(call, "decided", 1)
<1>1. CASE hook = "access"
  <2>1. outcome.answer.let = body.tools \ Hidden(body.user, body.tools)
    BY <1>1 DEF Evaluate, HandleAccess, Outcome, Unanswered
  <2>2. \A t \in body.tools \ Hidden(body.user, body.tools) :
          cache.status = "ready" /\ t \in Policy.catalogue /\ <<who, t>> \in Policy.visible
    BY UngovernedIsHidden
  <2>. QED
    BY <1>1, <2>1, <2>2
<1>2. CASE hook = "pre"
  <2>. DEFINE held == <<FindSubject(body.user), tool>>
              permitted == cache.status = "ready" /\ held \in Policy.permits
              decisive == /\ cache.status = "ready" /\ ~permitted
                          /\ tool \in Policy.catalogue /\ held \in grants
              allowed == permitted \/ decisive
  <2>. DEFINE answer == [Unanswered EXCEPT !.status = 200, !.let = IF allowed THEN {tool} ELSE {},
                                           !.ref = IF allowed THEN Null ELSE id]
              rows == <<Row(id, "pre", FALSE, {tool}, IF allowed THEN "allow" ELSE "deny")>>
              left == IF decisive THEN grants \ {held} ELSE grants
  <2>1. Evaluate(call, hook, body) = Outcome(answer, rows, left)
    BY <1>2 DEF Evaluate, HandlePre
  <2>2. permitted => tool \in Policy.catalogue
    <3>1. ASSUME permitted PROVE tool \in Policy.catalogue
      <4>1. PICK s \in Snapshots : cache = Ready(s)
        BY <3>1 DEF TypeOK, Cold, Failed
      <4>2. Policy = s
        BY <4>1 DEF Policy, Ready
      <4>3. held \in s.permits /\ held[2] = tool
        BY <3>1, <4>2
      <4>. HIDE DEF held, tool
      <4>. QED
        BY <4>2, <4>3, HookAssumption
    <3>. QED
      BY <3>1
  <2>3. permitted \/ decisive => cache.status = "ready"
    OBVIOUS
  <2>4. decisive => tool \in Policy.catalogue /\ held \in grants
    OBVIOUS
  <2>5. permitted => held \in Policy.permits
    OBVIOUS
  <2>a. allowed => permitted \/ decisive
    OBVIOUS
  <2>b. held = <<who, tool>>
    OBVIOUS
  <2>. HIDE DEF allowed, permitted, decisive, held, tool, id
  <2>c. answer.let = IF allowed THEN {tool} ELSE {}
    BY DEF Unanswered
  <2>d. left = IF decisive THEN grants \ {held} ELSE grants
    OBVIOUS
  <2>. HIDE DEF answer, rows, left
  <2>6. outcome.answer = answer /\ outcome.left = left
    BY <2>1 DEF Outcome
  <2>7. allowed /\ outcome.answer.let = {tool}
    BY <2>6, <2>c
  <2>8. held \in Policy.permits \cup (grants \ outcome.left)
    BY <2>a, <2>d, <2>4, <2>5, <2>6, <2>7
  <2>9. \A t \in outcome.answer.let : <<who, t>> = held
    BY <2>b, <2>7
  <2>. QED
    BY <1>2, <2>a, <2>2, <2>3, <2>4, <2>7, <2>8, <2>9
<1>3. CASE hook = "post"
  <2>1. body.tools = {tool}
    BY <1>3, BodyTyped
  <2>2. cache.status # "ready" => outcome.answer.let = {}
    BY <1>3 DEF Evaluate, HandlePost, Outcome, Unanswered
  <2>3. CASE cache.status = "ready"
    <3>. DEFINE read == Redact(body.output, FindSubject(body.user), tool, OutputPolicy)
                answer == [Unanswered EXCEPT !.status = 200, !.let = {tool},
                             !.output = read.output, !.redactions = read.redactions]
                rows == <<Row(id, "post", FALSE, {tool},
                              IF read.redactions = {} THEN "allow" ELSE "modify")>>
    <3>1. Evaluate(call, hook, body) = Outcome(answer, rows, grants)
      BY <1>3, <2>3 DEF Evaluate, HandlePost
    <3>. HIDE DEF read, tool, id
    <3>2. answer.let = {tool}
      BY DEF Unanswered
    <3>. HIDE DEF answer, rows
    <3>3. outcome.answer = answer
      BY <3>1 DEF Outcome
    <3>4. outcome.answer.let = {tool}
      BY <3>2, <3>3
    <3>. QED
      BY <1>3, <2>1, <2>3, <3>4
  <2>. QED
    BY <1>3, <2>1, <2>2, <2>3
<1>. QED
  BY <1>1, <1>2, <1>3 DEF Hooks

\* Only an evaluation lets anything through.
LEMMA OnlyAnswersLet ==
  ASSUME IInv, Next, NEW c \in Calls, Answered(c), calls'[c].answer.let # {}
  PROVE  Answers(c)
<1>1. TypeOK /\ calls = [d \in Calls |-> calls[d]]
  BY DEF IInv, TypeOK
<1>2. calls' # calls
  BY DEF Answered
<1>3. ASSUME NEW d \in Calls, NEW hook \in Hooks, NEW bearer \in Bearers,
             NEW arrival \in Arrivals, NEW body \in Bodies[hook] \cup {NoBody},
             Arrive(d, hook, bearer, arrival, body)
      PROVE  FALSE
  <2>. DEFINE entered == [Idle EXCEPT !.stage = "reading", !.hook = hook, !.arrival = arrival,
                                      !.body = body]
              turnedAway == [Idle EXCEPT !.stage = "answered", !.answer.status = 401]
  <2>1. PICK now \in {entered, turnedAway} : calls' = [calls EXCEPT ![d] = now]
    BY <1>3 DEF Arrive
  <2>2. entered.answer.let = {}
    BY DEF Idle, Unanswered
  <2>3. turnedAway.answer.let = {}
    BY DEF Idle, Unanswered
  <2>. HIDE DEF entered, turnedAway
  <2>4. calls'[d] = now /\ \A e \in Calls : e # d => calls'[e] = calls[e]
    BY <1>1, <2>1, CallChanged
  <2>. QED
    BY <2>1, <2>2, <2>3, <2>4 DEF Answered
<1>4. ASSUME NEW d \in Calls, NEW body, NEW audited \in BOOLEAN,
             body \in {calls[d].body, NoBody}, CloseWith(d, body, audited)
      PROVE  FALSE
  <2>1. PICK hook, tools : hook = calls[d].hook
    OBVIOUS
  <2>2. hook \in Hooks /\ body \in Bodies[hook] \cup {NoBody}
    BY <1>1, <1>4, <2>1, CallTyped
  <2>3. PICK closed : closed = FailClosed(d, hook, body)
    OBVIOUS
  <2>4. Settled(d, closed)
    BY <1>4, <2>1, <2>3 DEF CloseWith
  <2>5. closed.answer.let = {}
    BY <2>2, <2>3, FailClosedAccounts
  <2>6. calls'[d].answer = closed.answer /\ \A e \in Calls : e # d => calls'[e] = calls[e]
    BY <1>1, <2>4, AnswerSettled
  <2>. QED
    BY <2>5, <2>6 DEF Answered
<1>5. ASSUME NEW d \in Calls, DeadlinePasses(d) PROVE FALSE
  BY <1>4, <1>5 DEF DeadlinePasses
<1>6. ASSUME NEW d \in Calls, ParseFails(d) PROVE FALSE
  <2>1. PICK audited \in BOOLEAN, body \in Readings(d) : CloseWith(d, body, audited)
    BY <1>6 DEF ParseFails
  <2>2. body \in {calls[d].body, NoBody}
    BY <2>1 DEF Readings
  <2>. QED
    BY <1>4, <2>1, <2>2
<1>7. ASSUME NEW d \in Calls, EvaluationDiscarded(d) PROVE FALSE
  BY <1>4, <1>7 DEF EvaluationDiscarded
<1>8. ASSUME NEW d \in Calls, Answers(d) PROVE d = c
  <2>1. PICK outcome : Settled(d, outcome)
    BY <1>8 DEF Answers
  <2>2. \A e \in Calls : e # d => calls'[e] = calls[e]
    BY <1>1, <2>1, CallSettled
  <2>. QED
    BY <2>2 DEF Answered
<1>9. ASSUME NEW s \in Snapshots, LoadPolicy(s) PROVE FALSE
  BY <1>2, <1>9 DEF LoadPolicy
<1>. QED
  BY <1>3, <1>5, <1>6, <1>7, <1>8, <1>9 DEF Next

\* A caller is let through to a tool only by the policy that is loaded when the answer goes
\* out, or by a grant the same step spends: not by the policy of the moment it came in, and
\* never by the fail-closed path.
THEOREM LetOnlyByThePolicyOfTheMoment == Spec => OnlyByLoadedPolicy
<1>. DEFINE Lets(c) == Answered(c) /\ calls'[c].answer.let # {}
<1>1. ASSUME IInv, Next, NEW c \in Calls, Lets(c)
      PROVE  /\ cache.status = "ready"
             /\ calls[c].hook # "post" => calls'[c].answer.let \subseteq Policy.catalogue
             /\ LET held == {<<FindSubject(calls[c].body.user), tool>> :
                               tool \in calls'[c].answer.let}
                IN CASE calls[c].hook = "access" -> held \subseteq Policy.visible
                     [] calls[c].hook = "pre" ->
                          held \subseteq Policy.permits \cup (grants \ grants')
                     [] calls[c].hook = "post" -> calls'[c].answer.let = calls[c].body.tools
  <2>1. Answers(c)
    BY <1>1, OnlyAnswersLet
  <2>2. PICK hook, body : hook = calls[c].hook /\ body = calls[c].body
    OBVIOUS
  <2>3. PICK who : who = FindSubject(body.user)
    OBVIOUS
  <2>4. PICK outcome : outcome = Evaluate(c, hook, body)
    OBVIOUS
  <2>5. /\ calls[c].stage = "reading" /\ calls[c].arrival = "valid"
        /\ Settled(c, outcome) /\ grants' = outcome.left
    BY <2>1, <2>2, <2>4 DEF Answers
  <2>6. TypeOK /\ hook \in Hooks /\ body \in Bodies[hook] /\ body # NoBody
    BY <1>1, <2>2, <2>5, CallTyped DEF IInv, Unsettled
  <2>7. calls'[c].answer = outcome.answer
    BY <2>5, <2>6, AnswerSettled
  <2>a. outcome.answer.let # {}
    BY <1>1, <2>7
  <2>8. /\ cache.status = "ready"
        /\ hook # "post" => outcome.answer.let \subseteq Policy.catalogue
        /\ hook = "access" => \A t \in outcome.answer.let : <<who, t>> \in Policy.visible
        /\ hook = "pre" => \A t \in outcome.answer.let :
             <<who, t>> \in Policy.permits \cup (grants \ outcome.left)
        /\ hook = "post" => outcome.answer.let = body.tools
    BY <2>3, <2>4, <2>6, <2>a, LetByPolicy
  <2>9. who = FindSubject(calls[c].body.user)
    BY <2>2, <2>3 DEF FindSubject
  <2>. HIDE DEF Lets
  <2>. QED
    BY <2>2, <2>5, <2>6, <2>7, <2>8, <2>9 DEF Hooks
<1>2. IInv /\ [Next]_vars =>
        [\A c \in Calls : Answered(c) /\ calls'[c].answer.let # {} =>
           /\ cache.status = "ready"
           /\ calls[c].hook # "post" => calls'[c].answer.let \subseteq Policy.catalogue
           /\ LET held == {<<FindSubject(calls[c].body.user), tool>> :
                             tool \in calls'[c].answer.let}
              IN CASE calls[c].hook = "access" -> held \subseteq Policy.visible
                   [] calls[c].hook = "pre" ->
                        held \subseteq Policy.permits \cup (grants \ grants')
                   [] calls[c].hook = "post" -> calls'[c].answer.let = calls[c].body.tools]_vars
  BY <1>1
<1>. QED
  BY <1>2, Inductive, PTL DEF Spec, OnlyByLoadedPolicy
=============================================================================
