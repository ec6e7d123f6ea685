----------------------------- MODULE DemoReset -----------------------------
(***************************************************************************)
(* scripts/reset.ts, and the Reset button of the web application's panel:  *)
(* two callers that put the demo back by a POST to a service's             *)
(* /admin/reset, over a network that refuses, delays or loses the request  *)
(* or its answer.  A request whose caller gave up may still be served.     *)
(*                                                                         *)
(* The control plane is the service of GovernanceFile and answers while    *)
(* its file is served.  A presenter who is told "done" of a reset that did *)
(* not happen goes on stage with half a demo.                              *)
(***************************************************************************)
EXTENDS GovernanceFile, Sequences, SequencesExt

CONSTANTS
  Null,
  Addressed,   \* the services whose addresses the environment gives
  MaxRuns,     \* bound: runs of the command
  MaxPresses   \* bound: presses of the button

Services == {"idp", "hooks", "loan-app"}
Modes == {"policy", "demo"}

ASSUME NullAssumption == Null \notin {TRUE, FALSE} /\ Null \notin Modes

\* servicesFor.
ServicesFor(hard) == (IF hard THEN <<"idp">> ELSE <<>>) \o <<"hooks", "loan-app">>
Scope(hard) == ToSet(ServicesFor(hard))

VARIABLES
  run,      \* the command: where it stands, the services left and those that failed
  press,    \* the button: where it stands and what it asked for
  posts,    \* requests sent and neither served nor lost
  held,     \* by caller: what still stands as it did when the caller began
  runs, presses

callers == <<run, press>>
bounds == <<runs, presses>>
resetVars == <<run, press, posts, held, bounds>>
vars == <<fileVars, resetVars>>

\* ok: whether the answer that came back is a 2xx, Null while there is none.
NoRun == [at |-> "idle", hard |-> FALSE, todo |-> <<>>, ok |-> Null, failed |-> {}]
NoPress == [at |-> "idle", mode |-> Null, ok |-> Null]

TypeOK ==
  /\ FileTypeOK
  /\ run.at \in {"idle", "next", "await", "done", "threw"} /\ run.failed \subseteq Services
  /\ press.at \in {"idle", "await", "ok", "failed"}
  /\ posts \subseteq [by : {"run", "press", "nobody"}, to : Services, mode : Modes]
  /\ held.run \subseteq Services /\ held.press \subseteq Modes

Init ==
  /\ FileInit
  /\ run = NoRun /\ press = NoPress /\ posts = {}
  /\ held = [run |-> {}, press |-> {}]
  /\ runs = 0 /\ presses = 0

-----------------------------------------------------------------------------
(* A service and the network.                                              *)

Post(by, to, mode) == [by |-> by, to |-> to, mode |-> mode]

\* A caller that gives up leaves its request to whoever serves it.
GivenUp(by) == {IF post.by = by THEN [post EXCEPT !.by = "nobody"] ELSE post : post \in posts}

Answered(post, ok) ==
  /\ posts' = posts \ {post}
  /\ run' = IF post.by = "run" THEN [run EXCEPT !.ok = ok] ELSE run
  /\ press' = IF post.by = "press" THEN [press EXCEPT !.ok = ok] ELSE press

Up(service) == service = "hooks" => boot.at = "serving"

\* The parts of the control plane a reset puts back: all that the demo did
\* besides the policy, or the policy alone.
Restored(post) ==
  IF post.to # "hooks" THEN {} ELSE IF post.mode = "demo" THEN Modes ELSE {"policy"}

\* One transaction: emptied and filled from the fixture.
Serve(post) ==
  /\ Up(post.to) /\ (post.to = "hooks" => other # "writing")
  /\ Answered(post, TRUE)
  /\ held' = [run   |-> IF post.mode = "demo" THEN held.run \ {post.to} ELSE held.run,
              press |-> held.press \ Restored(post)]
  /\ file' = IF "demo" \in Restored(post) THEN [file EXCEPT !.rows = FALSE] ELSE file
  /\ UNCHANGED <<boot, other, crashes, shells, bounds>>

\* 404 without a token, 401 with another, 500 of a transaction that threw.
Refuse(post) ==
  /\ Up(post.to)
  /\ Answered(post, FALSE)
  /\ UNCHANGED <<fileVars, held, bounds>>

\* The identity provider's own alarm, after it reset its people: 500.
Alarm(post) ==
  /\ post.to = "idp"
  /\ Answered(post, FALSE)
  /\ held' = [held EXCEPT !.run = @ \ {"idp"}]
  /\ UNCHANGED <<fileVars, bounds>>

Lose(post) ==
  /\ posts' = posts \ {post}
  /\ UNCHANGED <<fileVars, callers, held, bounds>>

-----------------------------------------------------------------------------
(* runReset of the command: the services in order, one line each.          *)

\* An address that is not given ends it before anything is sent.
Start(hard) ==
  /\ run.at \in {"idle", "done", "threw"} /\ runs < MaxRuns
  /\ Scope(hard) \subseteq Addressed
  /\ runs' = runs + 1
  /\ run' = [NoRun EXCEPT !.at = "next", !.hard = hard, !.todo = ServicesFor(hard)]
  /\ held' = [held EXCEPT !.run = Services]
  /\ UNCHANGED <<fileVars, press, posts, presses>>

\* resetOne, up to its fetch.
Send ==
  /\ run.at = "next" /\ run.todo # <<>>
  /\ posts' = posts \cup {Post("run", Head(run.todo), "demo")}
  /\ run' = [run EXCEPT !.at = "await"]
  /\ UNCHANGED <<fileVars, press, held, bounds>>

\* The line of one service; the next is called whatever it says.
Reported(failed) == [run EXCEPT !.at = "next", !.todo = Tail(@), !.ok = Null, !.failed = failed]
WithService == run.failed \cup {Head(run.todo)}

\* rotations: of the identity provider the ids it had before are compared too.
Line ==
  /\ run.at = "await" /\ run.ok # Null
  /\ \/ ~run.ok /\ run' = Reported(WithService)
     \/ run.ok /\ run' = Reported(run.failed)
     \/ run.ok /\ Head(run.todo) = "idp" /\ run' = Reported(WithService)
  /\ UNCHANGED <<fileVars, press, posts, held, bounds>>

\* The connection fails or thirty seconds pass.
UnreachedSkipped == run.failed
Unreached == WithService
GiveUp ==
  /\ run.at = "await"
  /\ run' = Reported(Unreached) /\ posts' = GivenUp("run")
  /\ UNCHANGED <<fileVars, press, held, bounds>>

\* A body that ends early, or is not JSON, throws out of the command.
Throw ==
  /\ run.at = "await" /\ run.ok # Null
  /\ run' = [NoRun EXCEPT !.at = "threw"]
  /\ UNCHANGED <<fileVars, press, posts, held, bounds>>

Verdict ==
  /\ run.at = "next" /\ run.todo = <<>>
  /\ run' = [run EXCEPT !.at = "done"]
  /\ UNCHANGED <<fileVars, press, posts, held, bounds>>

-----------------------------------------------------------------------------
(* runReset of the panel: one service, ten seconds, and nothing thrown.    *)

Press(mode) ==
  /\ press.at # "await" /\ presses < MaxPresses
  /\ presses' = presses + 1
  /\ press' = [at |-> "await", mode |-> mode, ok |-> Null]
  /\ posts' = posts \cup {Post("press", "hooks", mode)}
  /\ held' = [held EXCEPT !.press = Modes]
  /\ UNCHANGED <<fileVars, run, runs>>

Told ==
  /\ press.at = "await"
  /\ \E at \in {"failed"} \cup (IF press.ok = TRUE THEN {"ok"} ELSE {}) :
       press' = [press EXCEPT !.at = at, !.ok = Null]
  /\ posts' = GivenUp("press")
  /\ UNCHANGED <<fileVars, run, held, bounds>>

-----------------------------------------------------------------------------

Command == (\E hard \in BOOLEAN : Start(hard)) \/ Send \/ Line \/ GiveUp \/ Throw \/ Verdict
Panel == Told \/ \E mode \in Modes : Press(mode)
Network == \E post \in posts : Serve(post) \/ Refuse(post) \/ Alarm(post) \/ Lose(post)
FileStep == FileNext /\ UNCHANGED resetVars

Next == Command \/ Panel \/ Network \/ FileStep

\* Render starts a service that exits and its boot goes on; people and the
\* network owe nothing.
Spec == Init /\ [][Next]_vars /\ WF_vars(BootStep /\ UNCHANGED resetVars)

-----------------------------------------------------------------------------
(* A command that exits 0 has reset every service it was asked to since it *)
(* began, and a press that says so what it named of the control plane,     *)
(* however late the requests of a caller that gave up are served.          *)
OkMeansReset ==
  /\ run.at = "done" /\ run.failed = {} => held.run \cap Scope(run.hard) = {}
  /\ press.at = "ok" => press.mode \notin held.press
=============================================================================
