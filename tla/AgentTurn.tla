------------------------------ MODULE AgentTurn ------------------------------
(***************************************************************************)
(* One turn of the agent: apps/web/lib/agent (handlers.ts from the tool    *)
(* list on, run.ts, escalation.ts, native-elicitation.ts), the two         *)
(* toolkits its calls reach (tools/loan, tools/approvals), and the bank of *)
(* LoanBook.                                                               *)
(*                                                                         *)
(* Four things run at once: the agent loop, which asks for several calls   *)
(* in a step and dispatches them when it likes; the calls, each of which   *)
(* the gateway may refuse, challenge, run or lose while its toolkit goes   *)
(* on; the wrapped toolset, which shuts at a moment of its own; and the    *)
(* reader that turns the loop's chunks into what the person sees.  The     *)
(* loop and the gateway are libraries and services, modelled by what       *)
(* run.ts and escalation.ts expect of them.                                *)
(***************************************************************************)
EXTENDS LoanBook

CONSTANTS
  MaxCalls,    \* bound: calls of a turn, numbered as they are asked for
  Width,       \* bound: calls asked for in one step
  MAX_STEPS,
  Tools,       \* the tools the gateway lists
  MaxFaults    \* bound: answers lost, services down, streams broken

Calls == 1..MaxCalls

Escalation == "RequestApproval"
KindOf == [GetLoan |-> "read", ApproveLoan |-> "approved", DenyLoan |-> "denied"]

ASSUME AgentTurnAssumption ==
  /\ MaxCalls \in Nat /\ Width \in Nat \ {0} /\ MAX_STEPS \in Nat /\ MaxFaults \in Nat
  /\ Calls \subseteq Requests
  /\ Tools \subseteq DOMAIN KindOf \cup {Escalation}

Writes(tool) == tool \in DOMAIN KindOf /\ KindOf[tool] \in Decisions

VARIABLES
  phase,     \* chat and streamTurn: "listing", "planning", "reading", "over"
  connected, \* the MCP client of this turn holds the person's bearer
  steps,     \* steps the agent loop took
  stream,    \* the loop: "open", or "aborted" by the reader
  calls,     \* by call: its tool, where it stands, and what it settled with
  jobs,      \* by call: what a toolkit is doing for it
  wire,      \* chunks the reader has not taken
  closed,    \* TurnClosure.closed
  pending,   \* the bridge: how many usable URLs it captured
  closing,   \* runTurn: only closing words are welcome
  shown,     \* by call: the last event about it
  cards,     \* what else is on screen: "authorization", "error", or a call waited on
  posts,     \* requests on their way to the approvals store
  requests,  \* requests the store recorded
  told,      \* requests whose approver has a message
  faults

turnVars == <<phase, connected, steps, stream, calls, jobs, wire, closed, pending,
              closing, shown, cards, posts, requests, told, faults>>
vars == <<loanVars, turnVars>>

Unasked == [tool |-> "none", at |-> "unasked", answer |-> "none", elicited |-> FALSE]

Init ==
  /\ LoanInit
  /\ phase = "listing" /\ connected = TRUE
  /\ steps = 0 /\ stream = "open"
  /\ calls = [c \in Calls |-> Unasked]
  /\ jobs = [c \in Calls |-> "none"]
  /\ wire = <<>>
  /\ closed = FALSE /\ pending = 0 /\ closing = FALSE
  /\ shown = [c \in Calls |-> "nothing"]
  /\ cards = {}
  /\ posts = {} /\ requests = {} /\ told = {}
  /\ faults = 0

Fault == faults < MaxFaults /\ faults' = faults + 1

\* A call whose tool, as the turn's process sees it, has come to an end.
HasRequestId(c) == calls[c].tool = Escalation /\ calls[c].answer = "request"

-----------------------------------------------------------------------------
(* Before the stream: handlers.ts.                                         *)

\* refuse, or a fault stream for an approval that cannot be resumed; either way
\* the connection is given back.
Decline ==
  /\ phase' = "over" /\ connected' = FALSE
  /\ UNCHANGED <<steps, stream, calls, jobs, wire, closed, pending, closing, shown, cards,
                 posts, requests, told, faults, loanVars>>

\* governedToolset, with the three lists that are no toolset.
ListTools ==
  /\ phase = "listing"
  /\ \/ Decline
     \/ /\ phase' = "planning"
        /\ UNCHANGED <<connected, steps, stream, calls, jobs, wire, closed, pending, closing,
                       shown, cards, posts, requests, told, faults, loanVars>>

\* The agent is built over the wrapped toolset, and its stream is read.
StreamTurn ==
  /\ phase' = "reading"
  /\ UNCHANGED <<connected, steps, stream, calls, jobs, wire, closed, pending, closing, shown,
                 cards, posts, requests, told, faults, loanVars>>

\* resolveResume: a resume that is stale, foreign or undecided is declined.
Plan == phase = "planning" /\ (Decline \/ StreamTurn)

-----------------------------------------------------------------------------
(* The agent loop.                                                         *)

Chunk(kind, c) == [kind |-> kind, call |-> c]

\* The calls a step asks for, in the order they are numbered.
AskedSoFar == Cardinality({c \in Calls : calls[c].at # "unasked"})
AllReported == \A c \in Calls : calls[c].at \in {"unasked", "reported"}
Ask ==
  /\ phase = "reading" /\ stream = "open" /\ steps < MAX_STEPS
  /\ AllReported
  /\ \E n \in 1..Width : \E tools \in [1..n -> Tools] :
       /\ AskedSoFar + n <= MaxCalls
       /\ calls' = [c \in Calls |-> IF c - AskedSoFar \in 1..n
                      THEN [Unasked EXCEPT !.tool = tools[c - AskedSoFar], !.at = "asked"]
                      ELSE calls[c]]
       /\ wire' = wire \o [i \in 1..n |-> Chunk("call", AskedSoFar + i)]
  /\ steps' = steps + 1
  /\ UNCHANGED <<phase, connected, stream, jobs, closed, pending, closing, shown, cards, posts,
                 requests, told, faults, loanVars>>

\* The chunk of a settled call, in whatever order the loop gets to them.
Report(c) ==
  /\ calls[c].at = "settled"
  /\ calls' = [calls EXCEPT ![c].at = "reported"]
  /\ wire' = IF stream = "aborted" THEN wire
             ELSE Append(wire, Chunk(IF calls[c].answer \in {"result", "request"}
                                     THEN "result" ELSE "error", c))
  /\ UNCHANGED <<phase, connected, steps, stream, jobs, closed, pending, closing, shown, cards,
                 posts, requests, told, faults, loanVars>>

-----------------------------------------------------------------------------
(* The wrapped toolset: escalation.ts.                                     *)

\* What a call's promise settles with.  The escalation's own wrapper shuts the
\* turn before it hands a request id back.
ClosedByReader(c, answer) == closed
ClosedBy(c, answer) == closed \/ (calls[c].tool = Escalation /\ answer = "request")
Settle(c, answer) ==
  /\ calls' = [calls EXCEPT ![c].at = "settled", ![c].answer = answer]
  /\ closed' = ClosedBy(c, answer)

\* If the turn gave up on the call, what its toolkit says reaches nobody.
Answered(c, answer) ==
  IF calls[c].at = "gateway" THEN Settle(c, answer) ELSE UNCHANGED <<calls, closed>>

\* A wrapped tool refuses once the turn is shut; the escalation's wrapper does not look.
Refuses(c) == closed /\ calls[c].tool # Escalation
Dispatch(c) ==
  /\ calls[c].at = "asked"
  /\ \/ Refuses(c) /\ Settle(c, "refused")
     \/ ~Refuses(c) /\ ~connected /\ Settle(c, "failed")
     \/ /\ ~Refuses(c) /\ connected
        /\ calls' = [calls EXCEPT ![c].at = "gateway"] /\ UNCHANGED closed
  /\ UNCHANGED <<phase, connected, steps, stream, jobs, wire, pending, closing, shown, cards,
                 posts, requests, told, faults, loanVars>>

-----------------------------------------------------------------------------
(* The gateway and its hooks.                                              *)

AtGateway(c) == calls[c].at = "gateway" /\ jobs[c] = "none"

\* /pre refuses, or the person holds no token for the tool: nothing runs.
Refuse(c) ==
  /\ AtGateway(c)
  /\ \E answer \in {"denied", "challenge"} : Settle(c, answer)
  /\ UNCHANGED <<phase, connected, steps, stream, jobs, wire, pending, closing, shown, cards,
                 posts, requests, told, faults, loanVars>>

\* createNativeElicitationBridge: a request for a URL arrives while the call is
\* in flight.  It is captured if usable, the turn is shut, and it is cancelled.
Elicit(c) ==
  /\ AtGateway(c) /\ ~calls[c].elicited
  /\ \E usable \in {0, 1} : pending' = pending + usable
  /\ calls' = [calls EXCEPT ![c].elicited = TRUE]
  /\ closed' = TRUE
  /\ UNCHANGED <<phase, connected, steps, stream, jobs, wire, closing, shown, cards, posts,
                 requests, told, faults, loanVars>>

\* The cancelled call, as an error or as a result of the usual shape.
Cancelled(c) ==
  /\ AtGateway(c) /\ calls[c].elicited
  /\ \E answer \in {"failed", "result"} : Settle(c, answer)
  /\ UNCHANGED <<phase, connected, steps, stream, jobs, wire, pending, closing, shown, cards,
                 posts, requests, told, faults, loanVars>>

\* The gateway calls the tool.
Run(c) ==
  /\ AtGateway(c) /\ ~calls[c].elicited
  /\ \/ /\ calls[c].tool = Escalation
        /\ jobs' = [jobs EXCEPT ![c] = "roster"]
        /\ UNCHANGED <<calls, closed, loanVars>>
     \/ /\ calls[c].tool # Escalation
        /\ IF service = "up"
           THEN /\ Arrive(c, KindOf[calls[c].tool])
                /\ jobs' = [jobs EXCEPT ![c] = "bank"]
                /\ UNCHANGED <<calls, closed>>
           ELSE /\ jobs' = [jobs EXCEPT ![c] = "over"]
                /\ Settle(c, "failed")
                /\ UNCHANGED loanVars
  /\ UNCHANGED <<phase, connected, steps, stream, wire, pending, closing, shown, cards, posts,
                 requests, told, faults>>

\* MCP_TIMEOUT_MS, or a connection that breaks: the tool goes on without it.
GiveUp(c) ==
  /\ calls[c].at = "gateway" /\ Fault
  /\ Settle(c, "failed")
  /\ UNCHANGED <<phase, connected, steps, stream, jobs, wire, pending, closing, shown, cards,
                 posts, requests, told, loanVars>>

-----------------------------------------------------------------------------
(* tools/loan.                                                             *)

\* _call: what the bank answered, withheld by /post or not.
LoanAnswers(c) ==
  /\ jobs[c] = "bank" /\ visits[c].at \in {"served", "failed"}
  /\ jobs' = [jobs EXCEPT ![c] = "over"]
  /\ \E answer \in IF visits[c].at = "served" THEN {"result", "denied"} ELSE {"failed"} :
       Answered(c, answer)
  /\ UNCHANGED <<phase, connected, steps, stream, wire, pending, closing, shown, cards, posts,
                 requests, told, faults, loanVars>>

\* Ten seconds without an answer; the bank goes on.
LoanTimesOut(c) ==
  /\ jobs[c] = "bank" /\ Fault
  /\ jobs' = [jobs EXCEPT ![c] = "over"]
  /\ Answered(c, "failed")
  /\ UNCHANGED <<phase, connected, steps, stream, wire, pending, closing, shown, cards, posts,
                 requests, told, loanVars>>

-----------------------------------------------------------------------------
(* tools/approvals: request_approval.                                      *)

\* How the tool ends, with a ToolExecutionError or a request id.
Raise(c, answer) ==
  /\ jobs' = [jobs EXCEPT ![c] = "over"]
  /\ Answered(c, answer)

\* fetch_roster, then route_approval: nobody may be eligible.
Route(c) ==
  /\ jobs[c] = "roster"
  /\ \/ /\ jobs' = [jobs EXCEPT ![c] = "create"] /\ posts' = posts \cup {c}
        /\ UNCHANGED <<calls, closed>>
     \/ Raise(c, "failed") /\ UNCHANGED posts
  /\ UNCHANGED <<phase, connected, steps, stream, wire, pending, closing, shown, cards,
                 requests, told, faults, loanVars>>

\* The store takes the post, whether or not its sender is still waiting.
Record(c) ==
  /\ c \in posts
  /\ posts' = posts \ {c} /\ requests' = requests \cup {c}
  /\ UNCHANGED <<phase, connected, steps, stream, calls, jobs, wire, closed, pending, closing,
                 shown, cards, told, faults, loanVars>>

\* create_request: the record came back, or it did not.
Created(c) ==
  /\ jobs[c] = "create"
  /\ \/ /\ c \in requests /\ jobs' = [jobs EXCEPT ![c] = "message"]
        /\ UNCHANGED <<calls, closed, faults>>
     \/ Fault /\ Raise(c, "failed")
  /\ UNCHANGED <<phase, connected, steps, stream, wire, pending, closing, shown, cards, posts,
                 requests, told, loanVars>>

\* Slack's three calls.  Slack may refuse any of them, or take the message and
\* lose its answer; and the request id that comes back may be withheld by /post.
Message(c) ==
  /\ jobs[c] = "message"
  /\ \/ /\ told' = told \cup {c} /\ UNCHANGED faults
        /\ \E answer \in {"request", "denied"} : Raise(c, answer)
     \/ Fault /\ Raise(c, "failed") /\ told' \in {told, told \cup {c}}
  /\ UNCHANGED <<phase, connected, steps, stream, wire, pending, closing, shown, cards, posts,
                 requests, loanVars>>

-----------------------------------------------------------------------------
(* The reader: runTurn.                                                    *)

Card(kind, c) == [kind |-> kind, call |-> c]
Awaited == {card \in cards : card.kind = "waiting"}
Authorizing == {card \in cards : card.kind = "authorization"}

\* endOnAuthorization: the toolset is shut and the loop aborted before the card.
EndOnAuthorization(c) ==
  /\ closed' = TRUE /\ stream' = "aborted" /\ phase' = "trailing" /\ pending' = 0
  /\ cards' = IF Authorizing = {} THEN cards \cup {Card("authorization", c)} ELSE cards

\* Which of a failed call's kinds: authorizationRequired, then isHookDecision, which
\* reads the error's text.  Every refusal of apps/hooks ends in its [ref evt_...]
\* token; no other error of the model carries one of the four marks.
IsAnyFailure(c) == TRUE
IsHookDecision(c) == calls[c].answer = "denied"
FailureShown(c) == IF IsHookDecision(c) THEN "denied" ELSE "fault"

\* The first call after the escalation's result ends the reading.
StopsReading(chunk) == closing
Abort == stream' = "aborted" /\ phase' = "trailing"

ReadCall(c) ==
  /\ shown' = [shown EXCEPT ![c] = "call"]
  /\ UNCHANGED <<phase, stream, closed, pending, closing, cards>>

\* approvalRequested, where the tool is the escalation: the turn is closing.
ReadResult(c) ==
  /\ shown' = [shown EXCEPT ![c] = "result"]
  /\ IF HasRequestId(c) THEN closing' = TRUE /\ cards' = cards \cup {Card("waiting", c)}
                        ELSE UNCHANGED <<closing, cards>>
  /\ UNCHANGED <<phase, stream, closed, pending>>

ReadError(c) ==
  /\ shown' = [shown EXCEPT ![c] = FailureShown(c)]
  /\ UNCHANGED <<phase, stream, closed, pending, closing, cards>>

\* One chunk.  A captured URL is taken by whichever outcome is read first.
Challenged(c) == pending > 0 \/ calls[c].answer = "challenge"
Read ==
  /\ phase = "reading" /\ wire # <<>>
  /\ wire' = Tail(wire)
  /\ LET chunk == Head(wire)  c == chunk.call IN
     \/ /\ StopsReading(chunk) /\ Abort
        /\ UNCHANGED <<closed, pending, closing, shown, cards>>
     \/ /\ ~StopsReading(chunk) /\ chunk.kind = "call" /\ ReadCall(c)
     \/ /\ ~StopsReading(chunk) /\ chunk.kind # "call" /\ Challenged(c)
        /\ EndOnAuthorization(c) /\ UNCHANGED <<closing, shown>>
     \/ /\ ~StopsReading(chunk) /\ chunk.kind = "result" /\ ~Challenged(c) /\ ReadResult(c)
     \/ /\ ~StopsReading(chunk) /\ chunk.kind = "error" /\ ~Challenged(c) /\ ReadError(c)
  /\ UNCHANGED <<connected, steps, calls, jobs, posts, requests, told, faults, loanVars>>

\* The model said its last words and they are read, or the stream breaks.
StopReading ==
  /\ phase = "reading" /\ phase' = "trailing"
  /\ \/ AllReported /\ wire = <<>> /\ UNCHANGED <<cards, faults>>
     \/ Fault /\ cards' = cards \cup {Card("error", 0)}
  /\ UNCHANGED <<connected, steps, stream, calls, jobs, wire, closed, pending, closing, shown,
                 posts, requests, told, loanVars>>

\* A URL nobody took, the done event, and streamTurn's finally.
Done ==
  /\ phase = "trailing"
  /\ IF pending > 0
     THEN /\ closed' = TRUE /\ stream' = "aborted" /\ pending' = 0
          /\ cards' = IF Authorizing = {} THEN cards \cup {Card("authorization", 0)} ELSE cards
     ELSE UNCHANGED <<closed, stream, pending, cards>>
  /\ phase' = "over" /\ connected' = FALSE
  /\ UNCHANGED <<steps, calls, jobs, wire, closing, shown, posts, requests, told, faults,
                 loanVars>>

-----------------------------------------------------------------------------
Loop == Ask \/ \E c \in Calls : Report(c) \/ Dispatch(c)
Gateway == \E c \in Calls : Refuse(c) \/ Elicit(c) \/ Cancelled(c) \/ Run(c) \/ GiveUp(c)
Toolkits == \E c \in Calls : \/ LoanAnswers(c) \/ LoanTimesOut(c)
                             \/ Route(c) \/ Record(c) \/ Created(c) \/ Message(c)
Reader == ListTools \/ Plan \/ Read \/ StopReading \/ Done

\* Bound: nothing happens to a bank that no call of the turn is at, or may return to.
BankMatters == phase = "reading" /\ (remembered # <<>> \/ \E c \in Calls : jobs[c] = "bank")

Next == \/ Loop \/ Gateway \/ Toolkits \/ Reader
        \/ BankStep /\ UNCHANGED turnVars
        \/ BankMatters /\ Meanwhile /\ UNCHANGED turnVars

Spec == Init /\ [][Next]_vars

-----------------------------------------------------------------------------
Answers == {"none", "refused", "failed", "denied", "challenge", "result", "request"}
Call == [tool : Tools \cup {"none"}, answer : Answers, elicited : BOOLEAN,
         at : {"unasked", "asked", "gateway", "settled", "reported"}]
Jobs == {"none", "roster", "create", "message", "bank", "over"}

TypeOK ==
  /\ LoanTypeOK
  /\ phase \in {"listing", "planning", "reading", "trailing", "over"}
  /\ connected \in BOOLEAN /\ closed \in BOOLEAN /\ closing \in BOOLEAN
  /\ stream \in {"open", "aborted"} /\ steps \in 0..MAX_STEPS
  /\ calls \in [Calls -> Call]
  /\ jobs \in [Calls -> Jobs]
  /\ wire \in Seq([kind : {"call", "result", "error"}, call : Calls])
  /\ shown \in [Calls -> {"nothing", "call", "result", "denied", "fault"}]
  /\ cards \subseteq [kind : {"authorization", "waiting", "error"}, call : 0..MaxCalls]
  /\ requests \subseteq Calls /\ posts \subseteq Calls /\ told \subseteq Calls
  /\ pending \in Nat /\ faults \in 0..MaxFaults

\* The turn is over for the model: an approval was requested, or a URL asked for.
TurnEnded == \E c \in Calls : HasRequestId(c) \/ calls[c].elicited

\* Once the turn ended, no call but an escalation starts at the gateway, however
\* many were queued (escalation.ts, closeTurnOnEscalation; native-elicitation.ts).
NothingGovernedAfterTheEnd ==
  [][TurnEnded => \A c \in Calls :
       calls[c].at # "gateway" /\ calls'[c].at = "gateway" => calls[c].tool = Escalation]_vars

Decided(c) == resets > 0 \/ \E i \in DOMAIN book.rows : book.rows[i].by = c

\* What the person is shown happened: a tool shown to have run wrote its row or
\* its request, a denial is a hook's, a refused call reached nothing, and the
\* request a card waits on is recorded and its approver told (events.ts).
ShownIsTrue ==
  /\ \A c \in Calls :
       /\ shown[c] = "result" /\ Writes(calls[c].tool) /\ ~calls[c].elicited => Decided(c)
       /\ shown[c] = "denied" => calls[c].answer = "denied"
       /\ calls[c].answer = "refused" => jobs[c] = "none" /\ shown[c] \notin {"result", "denied"}
  /\ \A card \in Awaited : card.call \in requests \cap told /\ closed
  /\ Authorizing # {} => \E c \in Calls : calls[c].elicited \/ calls[c].answer = "challenge"

-----------------------------------------------------------------------------
(* What the properties rest on: with the bank's, an inductive invariant.   *)

\* The calls are numbered as they are asked for.
Numbered == \E k \in 0..MaxCalls : \A c \in Calls : calls[c].at # "unasked" <=> c <= k

\* A call has an answer once it settled, a job once it was at the gateway, and is
\* shown to have ended only when its outcome was reported.
Progress(c) ==
  /\ calls[c].at # "unasked" => calls[c].tool \in Tools
  /\ calls[c].at \in {"unasked", "asked", "gateway"} => calls[c].answer = "none"
  /\ calls[c].at \in {"unasked", "asked"} => jobs[c] = "none" /\ ~calls[c].elicited
  /\ calls[c].answer = "refused" => jobs[c] = "none"
  /\ shown[c] = "result" => calls[c].at = "reported" /\ calls[c].answer \in {"result", "request"}
  /\ shown[c] = "denied" => calls[c].at = "reported" /\ calls[c].answer = "denied"

\* An escalation's job is a request on its way; any other is a visit to the bank,
\* and a write that is said to have run is one the bank served.
BankServed(c) == visits[c].at = "served" /\ visits[c].kind = KindOf[calls[c].tool]
Work(c) ==
  /\ jobs[c] \in {"roster", "create", "message"} => calls[c].tool = Escalation
  /\ jobs[c] = "bank" => /\ calls[c].tool # Escalation
                         /\ visits[c].at # "no" /\ visits[c].kind = KindOf[calls[c].tool]
  /\ jobs[c] = "message" => c \in requests
  /\ calls[c].answer = "request" =>
       calls[c].tool = Escalation /\ c \in requests \cap told /\ closed
  /\ calls[c].answer = "result" /\ Writes(calls[c].tool) /\ ~calls[c].elicited => BankServed(c)
  /\ calls[c].elicited => closed

\* A chunk on its way says what the call settled with.
Truthful(chunk) ==
  LET call == calls[chunk.call] IN
  /\ chunk.kind \in {"result", "error"} => call.at = "reported"
  /\ chunk.kind = "result" => call.answer \in {"result", "request"}

\* A card waits on a request that is recorded, and a URL was asked for by a call.
CardsStand ==
  /\ \A card \in Awaited : card.call \in requests \cap told /\ closed
  /\ Authorizing # {} => \E c \in Calls : calls[c].elicited \/ calls[c].answer = "challenge"
  /\ pending > 0 => \E c \in Calls : calls[c].elicited

TurnInv ==
  /\ TypeOK /\ Numbered /\ CardsStand
  /\ \A c \in Calls : Progress(c) /\ Work(c)
  /\ \A i \in DOMAIN wire : Truthful(wire[i])

IInv == LoanInv /\ TurnInv
=============================================================================
