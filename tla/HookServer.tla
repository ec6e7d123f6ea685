----------------------------- MODULE HookServer -----------------------------
(***************************************************************************)
(* apps/hooks/src/server.ts and handlers.ts: one call of Arcade to /access, *)
(* /pre or /post, from its first byte to its answer.  Reading the body is  *)
(* the one await; a timer races it.  Everything after the body is one      *)
(* synchronous block: parse, evaluate against the policy in memory, write  *)
(* the audit rows, answer.  A throw anywhere, a budget overrun and a       *)
(* failed write all end in failClosed, which denies and writes its own     *)
(* rows if it can.                                                         *)
(*                                                                         *)
(* What /pre reads and writes of approvals is ApprovalGrants' subject; here *)
(* a grant is a pair of a subject and a tool that is good once.  What the  *)
(* engine answers is PolicyEngine's; here a policy carries its answers.    *)
(* Row ids are random; two are equal only when they are the same draw.     *)
(***************************************************************************)
EXTENDS Redaction

CONSTANTS
  Calls,       \* the calls Arcade makes
  SubjectOf,   \* SubjectOf[u]: the roster entry a user id resolves to, or Null
  Tools,       \* the tools a body can name, as [toolkit, name]
  Bodies,      \* Bodies[hook]: what a body can say, as [user, tools, output]
  Snapshots,   \* what can be loaded: [catalogue, visible, permits, rows, scanners]
  Configured,  \* the configured toolkits
  Grants       \* the <<subject, tool>> an approval was granted for

VARIABLES
  cache,       \* the CacheState /current() returns
  grants,      \* the unspent grants
  log,         \* audit_log
  calls        \* by call: where it stands and what it was answered

vars == <<cache, grants, log, calls>>

Hooks == {"access", "pre", "post"}
Bearers == {"hook", "store", "none"}

\* A body as it arrives: valid; JSON the contract refuses; not JSON; or never
\* there in full.
Arrivals == {"valid", "refused", "garbage", "stalled"}

Toolkits == {tool.toolkit : tool \in Tools}

NoBody == [user |-> Null, tools |-> {}, output |-> Null]

\* let: the tools the answer leaves to the caller.  output: what the model
\* reads.  ref: the row the refusal's correlation token names.
Unanswered ==
  [status |-> 0, let |-> {}, output |-> Null, redactions |-> {}, ref |-> Null]

Idle == [stage |-> "idle", hook |-> "access", arrival |-> "valid", body |-> NoBody,
         answer |-> Unanswered]

Cold == [status |-> "cold", snapshot |-> Null]
Failed == [status |-> "failed", snapshot |-> Null]
Ready(snapshot) == [status |-> "ready", snapshot |-> snapshot]

\* A call of /pre or /post is about one tool, and a policy permits only what its
\* catalogue serves (PolicyEngine's FailsClosed).
ASSUME HookAssumption ==
  /\ IsFiniteSet(Tools)
  /\ \A hook \in Hooks : \A body \in Bodies[hook] :
       /\ body = [user |-> body.user, tools |-> body.tools, output |-> body.output]
       /\ body.tools \subseteq Tools
       /\ hook # "access" => \E tool \in Tools : body.tools = {tool}
  /\ \A s \in Snapshots : \A held \in s.permits : held[2] \in s.catalogue

AuditRow ==
  [id : [call : Calls, what : {"decided", "closed"}, n : Nat], hook : Hooks,
   summary : BOOLEAN, covers : SUBSET Tools, decision : {"allow", "deny", "modify"}]

IsCall(call) ==
  /\ call = [stage |-> call.stage, hook |-> call.hook, arrival |-> call.arrival,
             body |-> call.body, answer |-> call.answer]
  /\ call.stage \in {"idle", "reading", "answered"}
  /\ call.hook \in Hooks /\ call.arrival \in Arrivals
  /\ call.body \in Bodies[call.hook] \cup {NoBody}
  /\ call.answer.status \in {0, 200, 401, 500} /\ call.answer.let \subseteq Tools

TypeOK ==
  /\ cache \in {Cold, Failed} \cup {Ready(s) : s \in Snapshots}
  /\ grants \subseteq Grants
  /\ log \in Seq(AuditRow)
  /\ calls = [c \in Calls |-> calls[c]] /\ \A c \in Calls : IsCall(calls[c])

Init ==
  /\ cache = Cold
  /\ grants = Grants
  /\ log = <<>>
  /\ calls = [c \in Calls |-> Idle]

-----------------------------------------------------------------------------
(* The policy in memory.                                                   *)

Policy == cache.snapshot

\* The output rules to compile: all of them, or, in a process started for the
\* control run, the ones whose named fields are left without their patterns.
OutputRules(snapshot) ==
  IF snapshot.scanners = "armed" THEN snapshot.rows ELSE Disarm(snapshot.rows)

OutputPolicy == CompileOutputPolicy(OutputRules(Policy))

\* A snapshot is served only if it compiles, as written and as it will be
\* served; anything else fails the cache.
LoadPolicy(snapshot) ==
  /\ cache' = IF \A rows \in {snapshot.rows, OutputRules(snapshot)} :
                     OutputPolicyCompiles(rows, snapshot.catalogue)
              THEN Ready(snapshot) ELSE Failed
  /\ cache' # cache
  /\ UNCHANGED <<grants, log, calls>>

\* findSubject: nobody, unless the policy is loaded.
FindSubject(user) ==
  IF cache.status # "ready" \/ user = Null THEN Null ELSE SubjectOf[user]

\* The toolkits recorded one row per tool.
GovernedFor ==
  IF cache.status = "ready" THEN {tool.toolkit : tool \in Policy.catalogue}
  ELSE Configured

-----------------------------------------------------------------------------
(* Audit rows.                                                             *)

\* The nth row of a call's decision, or of its failing closed.
Id(call, what, n) == [call |-> call, what |-> what, n |-> n]

\* covers: the tools a row accounts for.  A summary row's tool is "*".
Row(id, hook, summary, covers, decision) ==
  [id |-> id, hook |-> hook, summary |-> summary, covers |-> covers,
   decision |-> decision]

\* A row per governed tool, and one for all the others together.
AccessAuditRows(call, what, decided, hidden, governed) ==
  LET own == SetToSeq({tool \in decided : tool.toolkit \in governed})
      others == {tool \in decided : tool.toolkit \notin governed}
  IN [i \in DOMAIN own |->
        Row(Id(call, what, i), "access", FALSE, {own[i]},
            IF own[i] \in hidden THEN "deny" ELSE "allow")]
     \o (IF others = {} THEN <<>>
         ELSE <<Row(Id(call, what, Len(own) + 1), "access", TRUE, others,
                    IF others \cap hidden = {} THEN "allow" ELSE "deny")>>)

-----------------------------------------------------------------------------
(* The three handlers.  An outcome is the answer, the rows it is worth and  *)
(* the grants left unspent.                                                *)

Outcome(answer, rows, left) == [answer |-> answer, rows |-> rows, left |-> left]

\* What the engine hides: everything, from a caller it cannot resolve or
\* while no policy is loaded.
Hidden(user, tools) ==
  IF cache.status # "ready" THEN tools
  ELSE {tool \in tools : \/ tool \notin Policy.catalogue
                         \/ <<FindSubject(user), tool>> \notin Policy.visible}

HandleAccess(call, body) ==
  LET hidden == Hidden(body.user, body.tools)
  IN Outcome([Unanswered EXCEPT !.status = 200, !.let = body.tools \ hidden],
             AccessAuditRows(call, "decided", body.tools, hidden, GovernedFor),
             grants)

HandlePre(call, body) ==
  LET tool == CHOOSE t \in body.tools : TRUE
      held == <<FindSubject(body.user), tool>>
      permitted == cache.status = "ready" /\ held \in Policy.permits
      decisive == /\ cache.status = "ready" /\ ~permitted
                  /\ tool \in Policy.catalogue /\ held \in grants
      allowed == permitted \/ decisive
      id == Id(call, "decided", 1)
  IN Outcome([Unanswered EXCEPT !.status = 200,
                !.let = IF allowed THEN {tool} ELSE {},
                !.ref = IF allowed THEN Null ELSE id],
             <<Row(id, "pre", FALSE, {tool}, IF allowed THEN "allow" ELSE "deny")>>,
             IF decisive THEN grants \ {held} ELSE grants)

\* No policy, no output: a pass-through would vouch for what nobody read.
HandlePost(call, body) ==
  LET tool == CHOOSE t \in body.tools : TRUE
      id == Id(call, "decided", 1)
      read == Redact(body.output, FindSubject(body.user), tool, OutputPolicy)
  IN IF cache.status # "ready"
     THEN Outcome([Unanswered EXCEPT !.status = 200, !.ref = id],
                  <<Row(id, "post", FALSE, {tool}, "deny")>>, grants)
     ELSE Outcome([Unanswered EXCEPT !.status = 200, !.let = {tool},
                     !.output = read.output, !.redactions = read.redactions],
                  <<Row(id, "post", FALSE, {tool},
                        IF read.redactions = {} THEN "allow" ELSE "modify")>>,
                  grants)

Evaluate(call, hook, body) ==
  CASE hook = "access" -> HandleAccess(call, body)
    [] hook = "pre" -> HandlePre(call, body)
    [] hook = "post" -> HandlePost(call, body)

\* Mutant: an /access that failed is answered with nothing to hide.
FailClosedOpen(call, hook, body) ==
  Outcome([Unanswered EXCEPT !.status = 200, !.let = body.tools],
          <<Row(Id(call, "closed", 1), hook, hook = "access", body.tools, "deny")>>, grants)

\* The net.  body is what could be read of the call: NoBody when nothing was.
FailClosed(call, hook, body) ==
  LET id == Id(call, "closed", 1)
  IN IF hook = "access" /\ body # NoBody
     THEN Outcome([Unanswered EXCEPT !.status = 200],
                  AccessAuditRows(call, "closed", body.tools, body.tools, GovernedFor),
                  grants)
     ELSE Outcome([Unanswered EXCEPT !.status = IF hook = "access" THEN 500 ELSE 200,
                                     !.ref = id],
                  <<Row(id, hook, hook = "access", body.tools, "deny")>>, grants)

\* Mutant of EvaluationDiscarded: the rows are written before the budget is
\* looked at.
DiscardsRecorded(call) ==
  /\ calls[call].stage = "reading"
  /\ calls[call].arrival = "valid"
  /\ LET outcome == Evaluate(call, calls[call].hook, calls[call].body)
         closed == FailClosed(call, calls[call].hook, calls[call].body)
     IN /\ grants' = outcome.left
        /\ calls' = [calls EXCEPT ![call].stage = "answered",
                                  ![call].answer = closed.answer]
        /\ log' = log \o outcome.rows \o closed.rows
  /\ UNCHANGED cache

-----------------------------------------------------------------------------
(* One call.                                                               *)

\* A hook path and its bearer; any other secret is refused before anything
\* is read or written.
Arrive(call, hook, bearer, arrival, body) ==
  /\ calls[call].stage = "idle"
  /\ arrival \in {"garbage", "stalled"} <=> body = NoBody
  /\ calls' = [calls EXCEPT ![call] =
       IF bearer = "hook"
       THEN [Idle EXCEPT !.stage = "reading", !.hook = hook, !.arrival = arrival,
                         !.body = body]
       ELSE [Idle EXCEPT !.stage = "answered", !.answer.status = 401]]
  /\ UNCHANGED <<cache, grants, log>>

Settled(call, outcome) ==
  calls' = [calls EXCEPT ![call].stage = "answered", ![call].answer = outcome.answer]

\* The answer of failClosed goes out whether or not its rows could be written.
CloseWith(call, body, audited) ==
  LET closed == FailClosed(call, calls[call].hook, body)
  IN /\ Settled(call, closed)
     /\ log' = IF audited THEN log \o closed.rows ELSE log

\* The timer fires before the body is in.
DeadlinePasses(call) ==
  /\ calls[call].stage = "reading"
  /\ \E audited \in BOOLEAN : CloseWith(call, NoBody, audited)
  /\ UNCHANGED <<cache, grants>>

\* What the fail-closed path may find in a body.  /access reads the whole of
\* it or nothing; /pre and /post pick out the tool if it is there.
Readings(call) ==
  CASE calls[call].arrival = "valid" -> {calls[call].body}
    [] calls[call].arrival = "refused" /\ calls[call].hook # "access" ->
         {calls[call].body, NoBody}
    [] OTHER -> {NoBody}

\* The body is in and cannot be parsed, or the budget is spent by then.
ParseFails(call) ==
  /\ calls[call].stage = "reading"
  /\ calls[call].arrival # "stalled"
  /\ \E audited \in BOOLEAN, body \in Readings(call) : CloseWith(call, body, audited)
  /\ UNCHANGED <<cache, grants>>

\* Evaluated, and then over budget or unable to write the rows: the decision
\* is discarded, what the evaluation spent is not.
EvaluationDiscarded(call) ==
  /\ calls[call].stage = "reading"
  /\ calls[call].arrival = "valid"
  /\ LET outcome == Evaluate(call, calls[call].hook, calls[call].body)
     IN grants' = outcome.left
  /\ \E audited \in BOOLEAN : CloseWith(call, calls[call].body, audited)
  /\ UNCHANGED cache

\* Evaluated, recorded in one transaction, answered.
Answers(call) ==
  /\ calls[call].stage = "reading"
  /\ calls[call].arrival = "valid"
  /\ LET outcome == Evaluate(call, calls[call].hook, calls[call].body)
     IN /\ Settled(call, outcome)
        /\ log' = log \o outcome.rows
        /\ grants' = outcome.left
  /\ UNCHANGED cache

Next ==
  \/ \E s \in Snapshots : LoadPolicy(s)
  \/ \E c \in Calls, hook \in Hooks, bearer \in Bearers, arrival \in Arrivals :
       \E body \in Bodies[hook] \cup {NoBody} : Arrive(c, hook, bearer, arrival, body)
  \/ \E c \in Calls :
       \/ DeadlinePasses(c)
       \/ ParseFails(c)
       \/ EvaluationDiscarded(c)
       \/ Answers(c)

\* Mutant: nothing races the read.
TimerNeverSet(call) == TRUE

\* setTimeout in readBody: the deadline comes unless the call is answered.
TimerFires(call) == WF_vars(DeadlinePasses(call))

Spec == Init /\ [][Next]_vars /\ \A c \in Calls : TimerFires(c)

-----------------------------------------------------------------------------
(* Properties.                                                             *)

RowsOf(call) == {log[i] : i \in {j \in DOMAIN log : log[j].id.call = call}}

(* The log is the account of what was answered.  A call is let through what *)
(* its rows say, and no row allows what was refused, however late the       *)
(* budget ran out or the write failed; the rows of a call are those of its  *)
(* decision or those of its failing closed, never both; and between them    *)
(* they account for every tool an /access named, each exactly once.         *)
LogAccountsForAnswers ==
  \A c \in Calls : LET rows == RowsOf(c) IN
    /\ calls[c].answer.let =
         UNION {row.covers : row \in {r \in rows : r.decision # "deny"}}
    /\ \A r, s \in rows : r.id.what = s.id.what
    /\ \A r, s \in rows : r # s => r.covers \cap s.covers = {}
    /\ \A r \in rows : r.id.what = "decided"
         => UNION {s.covers : s \in rows} = calls[c].body.tools

\* What the log rests on: a call that was not answered has let nothing through
\* and has no row yet, and what there is to evaluate is a body that arrived.
Unsettled(c) ==
  /\ calls[c].stage # "answered" => calls[c].answer = Unanswered /\ RowsOf(c) = {}
  /\ calls[c].stage = "reading" /\ calls[c].arrival \in {"valid", "refused"} =>
       calls[c].body \in Bodies[calls[c].hook] /\ calls[c].body # NoBody

IInv == TypeOK /\ LogAccountsForAnswers /\ \A c \in Calls : Unsettled(c)

Answered(c) == calls[c].stage # "answered" /\ calls'[c].stage = "answered"

(* Only a policy that is loaded when the call is answered lets anything     *)
(* through, and only what that policy, or a grant that is spent by the same *)
(* step, permits: not a policy that was loaded when the call came in, and   *)
(* never the fail-closed path.  /post asks the catalogue nothing: the tool  *)
(* has run, and a tool no rule matches is passed as it came.                *)
OnlyByLoadedPolicy ==
  [][\A c \in Calls : Answered(c) /\ calls'[c].answer.let # {} =>
       /\ cache.status = "ready"
       /\ calls[c].hook # "post" => calls'[c].answer.let \subseteq Policy.catalogue
       /\ LET held == {<<FindSubject(calls[c].body.user), tool>> :
                         tool \in calls'[c].answer.let}
          IN CASE calls[c].hook = "access" -> held \subseteq Policy.visible
               [] calls[c].hook = "pre" ->
                    held \subseteq Policy.permits \cup (grants \ grants')
               [] calls[c].hook = "post" -> calls'[c].answer.let = calls[c].body.tools]_vars

Released(c) == Answered(c) /\ calls'[c].answer.output # Null

(* What /post releases is redacted, and settled.  Whatever an applicable    *)
(* rule names by its path is the rule's marker or is not there, for a       *)
(* caller the rule is about and for one nobody can identify; and put        *)
(* through the same policy once more the payload comes back as it was, with *)
(* nothing to report, even when rules rewrite each other's output.          *)
ReleasedIsRedacted ==
  [][\A c \in Calls : Released(c) =>
       LET subject == SubjectOf[calls[c].body.user]
           tool == CHOOSE t \in calls[c].body.tools : TRUE
           output == calls'[c].answer.output
       IN /\ \A rule \in Enabled(Policy.rows) :
               /\ MatchesTool(rule.match, tool)
               /\ rule.subjects # Null /\ subject # Null => subject \in rule.subjects
               => \A i \in DOMAIN rule.fields : \A path \in DOMAIN output :
                    Addresses(rule.fields[i].path, path)
                      => /\ rule.fields[i].strategy # "remove"
                         /\ output[path] = rule.fields[i].replacement
          /\ Redact(output, subject, tool, OutputPolicy)
               = [output |-> output, redactions |-> {}]]_vars

\* The string at a path, or Null where the payload has none.
At(payload, path) == IF path \in DOMAIN payload THEN payload[path] ELSE Null

(* The account of a redaction is true: a record names a place where what    *)
(* was released differs from what the tool returned, and every place where  *)
(* it differs is under a record.  The panel and the audit log show nothing  *)
(* else of a payload.                                                       *)
AccountIsTrue ==
  [][\A c \in Calls : Released(c) =>
       LET before == calls[c].body.output
           after == calls'[c].answer.output
           places == DOMAIN before \cup DOMAIN after
           differing == {p \in places : At(before, p) # At(after, p)}
           named == {r.path : r \in calls'[c].answer.redactions}
       IN /\ \A p \in differing : \E q \in named : IsPrefix(q, p)
          /\ \A q \in named : \E p \in differing : IsPrefix(q, p)]_vars

(* Every call is answered, also one whose body never arrives.              *)
EveryCallAnswered ==
  \A c \in Calls : calls[c].stage = "reading" ~> calls[c].stage = "answered"
=============================================================================
