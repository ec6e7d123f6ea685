---------------------------- MODULE ApprovalWait ----------------------------
(***************************************************************************)
(* The wait for an approval in apps/web: a browser tab whose agent raised  *)
(* a request and ended its turn, the control plane that decides it and     *)
(* says so once on a live stream, and the one turn that resumes.           *)
(*                                                                         *)
(* The tab is one thread, but between any two awaits a notice, a reconnect *)
(* or the answer of a status check may run, a person may send a prompt and *)
(* the persona may change under a turn that is still streaming.  A step    *)
(* here is what runs between two awaits; the page is what its refs hold.   *)
(***************************************************************************)
EXTENDS Naturals, Sequences

CONSTANTS
  Null,         \* no request
  Personas,     \* people who sign in on this browser
  Requests,     \* approval request ids
  MaxAsks,      \* bound: prompts sent
  MaxDrops,     \* bound: times the stream's connection is lost
  MaxFaults,    \* bound: turns and status checks that fail
  MaxSwitches   \* bound: changes of persona

ASSUME WaitAssumption ==
  /\ Null \notin Requests \cup Personas
  /\ Personas # {}
  /\ {MaxAsks, MaxDrops, MaxFaults, MaxSwitches} \subseteq Nat

VARIABLES
  store,      \* approval_requests: status and requester by id
  page,       \* the refs of the Chat component
  turns,      \* every turn posted to the chat route, in order
  socket,     \* the notices subscription: down, opening or up
  wire,       \* notices written to it and not yet read
  checks,     \* status checks under way, each with what the store said
  unchecked,  \* observed: requests whose status check failed
  displaced,  \* observed: requests held in the place of another
  asks, drops, faults

vars == <<store, page, turns, socket, wire, checks, unchecked, displaced,
          asks, drops, faults>>

\* Approved and denied are one here: the tab resumes on either.
Request == [status : {"unused", "pending", "decided"},
            requester_id : Personas \cup {Null}]

Page == [signedInAs : Personas, generation : Nat, inFlight : BOOLEAN,
         waiting : Requests \cup {Null}, queued : Requests \cup {Null},
         pendingDecision : SUBSET Requests, pendingReconnect : BOOLEAN]

Turn == [persona : Personas, generation : Nat, resumes : Requests \cup {Null},
         raised : Requests \cup {Null},
         phase : {"sent", "running", "refused", "ended"}]

Check == [id : Requests, said : {"asked", "nothing", "pending", "decided"}]

TypeOK ==
  /\ store \in [Requests -> Request]
  /\ page \in Page
  /\ turns \in Seq(Turn)
  /\ socket \in {"down", "opening", "up"}
  /\ wire \in Seq(Requests)
  /\ checks \subseteq Check
  /\ unchecked \subseteq Requests /\ displaced \subseteq Requests
  /\ {asks, drops, faults} \subseteq Nat

SignedIn(persona, generation) ==
  [signedInAs |-> persona, generation |-> generation, inFlight |-> FALSE,
   waiting |-> Null, queued |-> Null, pendingDecision |-> {},
   pendingReconnect |-> FALSE]

Init ==
  /\ store = [r \in Requests |-> [status |-> "unused", requester_id |-> Null]]
  /\ \E persona \in Personas : page = SignedIn(persona, 0)
  /\ turns = <<>>
  /\ socket = "down" /\ wire = <<>>
  /\ checks = {}
  /\ unchecked = {} /\ displaced = {}
  /\ asks = 0 /\ drops = 0 /\ faults = 0

-----------------------------------------------------------------------------
(* resume: one turn on a decision the tab is waiting for.                  *)

NewTurn(id) ==
  [persona |-> page.signedInAs, generation |-> page.generation,
   resumes |-> id, raised |-> Null, phase |-> "sent"]

\* Mutant: the waiting card is cleared when the turn is over, not before it.
TakenLate(p) == [p EXCEPT !.inFlight = TRUE]

Taken(p) == [p EXCEPT !.inFlight = TRUE, !.waiting = Null]

\* Mutant: a decision that finds a turn streaming is dropped.
QueuedNever(p, id) == p

Queued(p, id) == [p EXCEPT !.queued = IF @ = Null THEN id ELSE @]

\* From page p with the turns so far s: nothing unless the id is the one held,
\* a note for later while a turn is streaming, a turn otherwise.
Resume(p, s, id) ==
  \/ /\ p.waiting # id
     /\ page' = p /\ turns' = s
  \/ /\ p.waiting = id /\ p.inFlight
     /\ page' = Queued(p, id) /\ turns' = s
  \/ /\ p.waiting = id /\ ~p.inFlight
     /\ page' = Taken(p) /\ turns' = Append(s, NewTurn(id))

-----------------------------------------------------------------------------
(* The turn: the page posts it, the chat route runs it.                    *)

\* send and continueAuthorization: a prompt, unless a turn is streaming.
Ask ==
  /\ asks < MaxAsks /\ ~page.inFlight
  /\ page' = [page EXCEPT !.inFlight = TRUE]
  /\ turns' = Append(turns, NewTurn(Null))
  /\ asks' = asks + 1
  /\ UNCHANGED <<store, socket, wire, checks, unchecked, displaced, drops, faults>>

\* planResume: the record read back is decided, and this person's.
Planned(turn) ==
  turn.resumes # Null =>
    /\ store[turn.resumes].requester_id = turn.persona
    /\ store[turn.resumes].status = "decided"

Start(n) ==
  /\ turns[n].phase = "sent"
  /\ turns' = [turns EXCEPT ![n].phase = IF Planned(turns[n]) THEN "running"
                                         ELSE "refused"]
  /\ UNCHANGED <<store, page, socket, wire, checks, unchecked, displaced,
                 asks, drops, faults>>

\* The agent raises a request.  seen: the tool answered with its id, so the turn
\* is over and its waiting event on the way; otherwise the tool failed after the
\* record was made.  A turn the page has abandoned may still do this.
Raise(n, r, seen) ==
  /\ turns[n].phase = "running" /\ turns[n].raised = Null
  /\ store[r].status = "unused"
  /\ store' = [store EXCEPT ![r] = [status |-> "pending",
                                    requester_id |-> turns[n].persona]]
  /\ turns' = [turns EXCEPT ![n].raised = IF seen THEN r ELSE Null]
  /\ UNCHANGED <<page, socket, wire, checks, unchecked, displaced,
                 asks, drops, faults>>

Current(n) == turns[n].generation = page.generation

\* The waiting card the end of turn n commits, and a decision that was seen
\* before it: resume finds the turn still streaming.
Committed(n) ==
  LET held == turns[n].raised
      next == [page EXCEPT !.waiting = IF held = Null THEN @ ELSE held,
                           !.pendingDecision = {}, !.pendingReconnect = FALSE]
  IN IF held \in page.pendingDecision THEN Queued(next, held) ELSE next

\* A reconnect that came before the card is caught up once there is an id.
CaughtUp(n) ==
  IF /\ turns[n].raised # Null
     /\ turns[n].raised \notin page.pendingDecision
     /\ page.pendingReconnect
  THEN {[id |-> turns[n].raised, said |-> "asked"]} ELSE {}

\* run's finally, from page p: the lock is free and what was queued resumes.
Released(n, p) ==
  LET ended == [turns EXCEPT ![n].phase = "ended"]
      free == [p EXCEPT !.inFlight = FALSE, !.queued = Null]
  IN IF p.queued = Null
     THEN page' = free /\ turns' = ended
     ELSE Resume(free, ended, p.queued)

\* The stream of the page's own turn ends.
End(n) ==
  /\ Current(n) /\ turns[n].phase \in {"running", "refused"}
  /\ Released(n, Committed(n))
  /\ checks' = checks \cup CaughtUp(n)
  /\ displaced' = IF turns[n].raised # Null /\ page.waiting # Null
                  THEN displaced \cup {turns[n].raised} ELSE displaced
  /\ UNCHANGED <<store, socket, wire, unchecked, asks, drops, faults>>

\* The route refuses, or the connection of the page's own turn breaks: no card.
Fail(n) ==
  /\ Current(n) /\ turns[n].phase \in {"sent", "running"}
  /\ faults < MaxFaults
  /\ Released(n, page)
  /\ faults' = faults + 1
  /\ UNCHANGED <<store, socket, wire, checks, unchecked, displaced, asks, drops>>

\* Mutant: an abandoned turn runs its finally too.
AbandonReleasing(n) == Released(n, page)

\* A turn of an earlier generation finds out and leaves everything alone.
Abandon(n) ==
  /\ page' = page
  /\ turns' = [turns EXCEPT ![n].phase = "ended"]

EndAbandoned(n) ==
  /\ ~Current(n) /\ turns[n].phase # "ended"
  /\ Abandon(n)
  /\ UNCHANGED <<store, socket, wire, checks, unchecked, displaced,
                 asks, drops, faults>>

-----------------------------------------------------------------------------
(* The control plane, and the notices it sends once.                       *)

\* The decision commits and is published to whoever is subscribed just then.
Decide(r) ==
  /\ store[r].status = "pending"
  /\ store' = [store EXCEPT ![r].status = "decided"]
  /\ wire' = IF socket = "down" THEN wire ELSE Append(wire, r)
  /\ UNCHANGED <<page, turns, socket, checks, unchecked, displaced,
                 asks, drops, faults>>

SamePersona(r) == store[r].requester_id = page.signedInAs

\* Both halves: the request held, and the requester's own page.
NoticeIsFor(r, held) == r = held /\ SamePersona(r)

\* onNotice: another person's is not ours; one that comes before its card is
\* remembered while a turn streams; one for the card resumes.
Notice ==
  /\ socket = "up" /\ wire # <<>>
  /\ LET r == Head(wire)
     IN \/ /\ ~SamePersona(r) \/ (page.waiting # Null /\ ~NoticeIsFor(r, page.waiting))
           /\ UNCHANGED <<page, turns>>
        \/ /\ SamePersona(r) /\ page.waiting = Null
           /\ page' = IF page.inFlight
                      THEN [page EXCEPT !.pendingDecision = @ \cup {r}] ELSE page
           /\ UNCHANGED turns
        \/ /\ page.waiting # Null /\ NoticeIsFor(r, page.waiting)
           /\ Resume(page, turns, r)
  /\ wire' = Tail(wire)
  /\ UNCHANGED <<store, socket, checks, unchecked, displaced, asks, drops, faults>>

\* The server subscribes the connection before its headers reach the page.
Open ==
  /\ socket = "down"
  /\ socket' = "opening"
  /\ UNCHANGED <<store, page, turns, wire, checks, unchecked, displaced,
                 asks, drops, faults>>

\* onConnected: ask the store about the card, or remember to.
Connected ==
  /\ socket = "opening"
  /\ socket' = "up"
  /\ IF page.waiting = Null
     THEN /\ page' = [page EXCEPT !.pendingReconnect = @ \/ page.inFlight]
          /\ UNCHANGED checks
     ELSE /\ checks' = checks \cup {[id |-> page.waiting, said |-> "asked"]}
          /\ UNCHANGED page
  /\ UNCHANGED <<store, turns, wire, unchecked, displaced, asks, drops, faults>>

\* The connection is lost with the notices on it.
Drop ==
  /\ socket # "down" /\ drops < MaxDrops
  /\ socket' = "down" /\ wire' = <<>>
  /\ drops' = drops + 1
  /\ UNCHANGED <<store, page, turns, checks, unchecked, displaced, asks, faults>>

-----------------------------------------------------------------------------
(* checkApprovalStatus, and a change of persona.                           *)

\* The route answers for the requester's own session only.  Checks of one id
\* that are at the same point are one: the second to return finds no card.
Answer(c) ==
  /\ c.said = "asked"
  /\ checks' = (checks \ {c}) \cup
       {[c EXCEPT !.said = IF store[c.id].requester_id = page.signedInAs
                           THEN store[c.id].status ELSE "nothing"]}
  /\ UNCHANGED <<store, page, turns, socket, wire, unchecked, displaced,
                 asks, drops, faults>>

Return(c) ==
  /\ c.said # "asked"
  /\ checks' = checks \ {c}
  /\ IF c.said = "decided" THEN Resume(page, turns, c.id)
     ELSE UNCHANGED <<page, turns>>
  /\ UNCHANGED <<store, socket, wire, unchecked, displaced, asks, drops, faults>>

\* The fetch fails or answers an error.  Nothing asks again.
FailCheck(c) ==
  /\ faults < MaxFaults
  /\ checks' = checks \ {c}
  /\ unchecked' = unchecked \cup {c.id}
  /\ faults' = faults + 1
  /\ UNCHANGED <<store, page, turns, socket, wire, displaced, asks, drops>>

\* Mutant: the card survives a change of persona.
SignedInKeepingCard(persona) ==
  [SignedIn(persona, page.generation + 1) EXCEPT !.waiting = page.waiting]

Switched(persona) == SignedIn(persona, page.generation + 1)

\* The persona effect empties the refs, and the subscription starts again.
Switch(persona) ==
  /\ persona # page.signedInAs /\ page.generation < MaxSwitches
  /\ page' = Switched(persona)
  /\ socket' = "down" /\ wire' = <<>>
  /\ UNCHANGED <<store, turns, checks, unchecked, displaced, asks, drops, faults>>

-----------------------------------------------------------------------------

Next ==
  \/ Ask
  \/ \E n \in DOMAIN turns :
       \/ Start(n)
       \/ \E r \in Requests, seen \in BOOLEAN : Raise(n, r, seen)
       \/ End(n)
       \/ Fail(n)
       \/ EndAbandoned(n)
  \/ \E r \in Requests : Decide(r)
  \/ Notice
  \/ Open
  \/ Connected
  \/ Drop
  \/ \E c \in checks : Answer(c) \/ Return(c) \/ FailCheck(c)
  \/ \E persona \in Personas : Switch(persona)

\* The client reconnects until told to stop, what is on the wire is read, a
\* check is answered and a turn comes to an end.  Nobody has to ask, decide,
\* raise or switch, and nothing has to fail.
Fairness ==
  /\ WF_vars(Open) /\ WF_vars(Connected) /\ WF_vars(Notice)
  /\ WF_vars(\E n \in DOMAIN turns : Start(n))
  /\ WF_vars(\E n \in DOMAIN turns : End(n))
  /\ WF_vars(\E c \in checks : Answer(c))
  /\ WF_vars(\E c \in checks : Return(c))

Spec == Init /\ [][Next]_vars /\ Fairness
-----------------------------------------------------------------------------
(* Properties.                                                             *)

\* One decision, one turn: however the live notice, the one remembered, the
\* queued one and the status check race, no request is resumed twice.
ResumedOnce ==
  \A m, n \in DOMAIN turns :
    turns[m].resumes = turns[n].resumes /\ turns[m].resumes # Null => m = n

\* The page never asks the route for a turn it would refuse: what it resumes is
\* decided and was raised by the person the turn will act as, although neither
\* a notice nor a check is trusted by the route.
ResumesItsOwnDecision ==
  \A n \in DOMAIN turns :
    turns[n].resumes # Null =>
      /\ store[turns[n].resumes].requester_id = turns[n].persona
      /\ store[turns[n].resumes].status = "decided"

\* Two streams never interleave in one transcript: at most one unfinished turn
\* is the page's, and the lock is held exactly while there is one, also when a
\* turn of another persona ends late.
OneStream ==
  /\ \A m, n \in DOMAIN turns :
       Current(m) /\ turns[m].phase # "ended" /\ Current(n) /\ turns[n].phase # "ended"
         => m = n
  /\ page.inFlight = \E n \in DOMAIN turns : Current(n) /\ turns[n].phase # "ended"

\* A decision on the card is not left standing: the card goes, unless the check
\* after a reconnect failed or the card took the place of another.
DecisionReachesTheTurn ==
  \A r \in Requests :
    page.waiting = r /\ store[r].status = "decided"
      ~> page.waiting # r \/ r \in unchecked \cup displaced

-----------------------------------------------------------------------------
(* What the safety properties rest on: with them, an inductive invariant.  *)

\* A turn of the page's generation acts as the person now signed in.
TurnsOfTheirTime ==
  \A n \in DOMAIN turns :
    /\ turns[n].generation <= page.generation
    /\ Current(n) => turns[n].persona = page.signedInAs

\* A request raised where the page can see it is one turn's, stored as its
\* person's, and while that turn streams neither held nor resumed.
RaisedByOneTurn ==
  \A n \in DOMAIN turns : turns[n].raised # Null =>
    /\ store[turns[n].raised].status # "unused"
    /\ store[turns[n].raised].requester_id = turns[n].persona
    /\ \A m \in DOMAIN turns : turns[m].raised = turns[n].raised => m = n
    /\ turns[n].phase # "ended" =>
         /\ page.waiting # turns[n].raised
         /\ \A m \in DOMAIN turns : turns[m].resumes # turns[n].raised

\* The card is this person's, and no turn was posted for it.
HeldIsOurs ==
  page.waiting # Null =>
    /\ store[page.waiting].status # "unused"
    /\ store[page.waiting].requester_id = page.signedInAs
    /\ \A n \in DOMAIN turns : turns[n].resumes # page.waiting

\* What says that a request is decided is right: decisions are final.  Only what
\* was raised is asked about.
WordOfADecision ==
  /\ page.queued # Null => store[page.queued].status = "decided"
  /\ \A r \in page.pendingDecision : store[r].status = "decided"
  /\ \A i \in DOMAIN wire : store[wire[i]].status = "decided"
  /\ \A c \in checks : /\ store[c.id].status # "unused"
                       /\ c.said = "decided" => store[c.id].status = "decided"

IInv ==
  /\ TypeOK
  /\ ResumedOnce
  /\ ResumesItsOwnDecision
  /\ OneStream
  /\ TurnsOfTheirTime
  /\ RaisedByOneTurn
  /\ HeldIsOurs
  /\ WordOfADecision

=============================================================================
