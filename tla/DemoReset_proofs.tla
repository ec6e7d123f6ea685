------------------------- MODULE DemoReset_proofs -------------------------
(***************************************************************************)
(* Proofs about DemoReset, for every file a build may have left behind and *)
(* every number of crashes, shells, runs and presses.                      *)
(*                                                                         *)
(* A stamp is about what happened before it, over several boots, so the    *)
(* invariant says how far the boot has brought the file at each of its     *)
(* steps; and that a command was told "ok" is about a service named in a   *)
(* request, so it says what requests and answers stand for.                *)
(***************************************************************************)
EXTENDS DemoReset, TLAPS

\* How far the boot has brought the file.
BootInv ==
  /\ boot.at = "seed" => ~HasSchema
  /\ boot.at = "upgrade" => boot.found = file.version /\ boot.found < SchemaVersion /\ HasSchema
  /\ boot.at \in {"vacuum", "checkpoint", "stamp"} =>
       /\ boot.found < SchemaVersion /\ file.version = 3 /\ file.tables = Tables
       /\ "redactions" \in file.columns
  /\ boot.at \in {"checkpoint", "stamp"} => ~file.free
  /\ boot.at = "stamp" => file.log # "payload"

FileInv == FileTypeOK /\ Honest(file) /\ BootInv

LEMMA OneDeferred ==
  ASSUME NEW found \in Nat, found < SchemaVersion
  PROVE  Deferred(found) = {4} /\ Stamped(found) = 3 /\ Max(Deferred(found)) = 4
<1>1. Deferred(found) = {4}
  BY DEF Deferred, Owed, Migrations, OutsideTransaction, SchemaVersion
<1>2. Min({4}) = 4 /\ Max({4}) = 4
  BY DEF Min, Max
<1> QED BY <1>1, <1>2 DEF Stamped

(* A file at this build's version is done.                                 *)
LEMMA InvMeansDone == FileInv => StampMeansDone
BY DEF FileInv, FileTypeOK, File, Honest, StampMeansDone, SchemaVersion, Tables

LEMMA FileInitially == FileInit => FileInv
BY FilesAssumption DEF FileInit, FileInv, FileTypeOK, BootInv, Honest, Steps

LEMMA OpenPreserves == FileInv /\ Open => FileInv'
BY DEF FileInv, FileTypeOK, BootInv, Honest, Open, HasSchema, FirstStep, Steps, File, SchemaVersion

LEMMA SeedPreserves == FileInv /\ Seed => FileInv'
<1> SUFFICES ASSUME FileInv, Seed PROVE FileInv'
  OBVIOUS
<1>1. CASE file.cast
  BY <1>1 DEF FileInv, FileTypeOK, BootInv, Honest, Seed, Exit, HasSchema, Steps
<1>2. CASE ~file.cast
  <2>1. /\ file' = [Replayed(file) EXCEPT !.version = SchemaVersion, !.cast = TRUE]
        /\ boot' = [at |-> "serving", found |-> 0]
    BY <1>2 DEF Seed, Served
  <2>2. /\ file.tables = {} /\ ~file.free /\ file.log # "payload"
    BY <1>2 DEF FileInv, Honest, FileTypeOK, File
  <2>3. /\ file'.tables = Tables /\ file'.columns = {"redactions"} /\ file'.version = SchemaVersion
        /\ file'.cast = TRUE /\ file'.free = file.free /\ file'.log = file.log /\ file'.rows = file.rows
        /\ file' \in File
    BY <2>1, <2>2 DEF Replayed, FileInv, FileTypeOK, File, Tables, SchemaVersion
  <2> QED BY <2>1, <2>2, <2>3
          DEF FileInv, FileTypeOK, BootInv, Honest, Seed, Steps, Payload, Tables, SchemaVersion
<1> QED BY <1>1, <1>2

LEMMA UpgradePreserves == FileInv /\ Upgrade => FileInv'
<1> SUFFICES ASSUME FileInv, Upgrade PROVE FileInv'
  OBVIOUS
<1>1. /\ boot.at = "upgrade" /\ boot.found \in Nat /\ boot.found = file.version
      /\ boot.found < SchemaVersion /\ HasSchema /\ boot' = [boot EXCEPT !.at = "vacuum"]
  BY OneDeferred DEF Upgrade, Goes, Served, FileInv, FileTypeOK, BootInv
<1>2. file' = [DropPayloads(AddRedactions(Replayed(file))) EXCEPT !.version = 3]
  BY <1>1, OneDeferred DEF Upgrade
<1> DEFINE r == Replayed(file)  a == AddRedactions(r)  d == DropPayloads(a)
<1>3. /\ r \in File /\ r.tables = Tables /\ r.cast = TRUE /\ r.version = file.version
      /\ file.version >= 2 => "redactions" \in r.columns
      /\ file.version >= 3 => r.columns \cap Payload = {}
  BY <1>1 DEF Replayed, FileInv, FileTypeOK, File, Honest, HasSchema, Tables, Payload
<1>4. /\ a \in File /\ a.tables = Tables /\ a.cast = TRUE
      /\ "redactions" \in a.columns
      /\ file.version >= 3 => a.columns \cap Payload = {}
  <2>1. 2 \in Inline(boot.found) <=> file.version < 2
    BY <1>1 DEF Inline, Owed, Migrations, OutsideTransaction
  <2> HIDE DEF r
  <2>2. /\ [r EXCEPT !.columns = @ \cup {"redactions"}] \in File
    BY <1>3 DEF File
  <2> QED BY <1>1, <1>3, <2>1, <2>2 DEF AddRedactions, File, FileInv, FileTypeOK, Payload
<1>5. /\ d \in File /\ d.tables = Tables /\ d.cast = TRUE
      /\ "redactions" \in d.columns /\ d.columns \cap Payload = {}
  <2>1. 3 \in Inline(boot.found) <=> file.version < 3
    BY <1>1 DEF Inline, Owed, Migrations, OutsideTransaction, FileInv, FileTypeOK, File
  <2> HIDE DEF a
  <2>2. CASE 3 \in Inline(boot.found) /\ a.columns \cap Payload # {}
    <3> DEFINE free == a.free \/ a.rows
               log == IF a.rows THEN "payload" ELSE a.log
    <3>1. d = [a EXCEPT !.columns = @ \ Payload, !.free = free, !.log = log]
      BY <2>2 DEF DropPayloads
    <3>2. free \in BOOLEAN /\ log \in {"clean", "payload", "kept"}
      BY <1>4 DEF File
    <3> HIDE DEF free, log, d
    <3>3. d.columns = a.columns \ Payload /\ d.tables = a.tables /\ d.cast = a.cast
      BY <3>1, <1>4 DEF File
    <3>4. d \in File
      BY <3>1, <3>2, <1>4 DEF File
    <3> QED BY <3>3, <3>4, <1>4 DEF Payload
  <2>3. CASE ~(3 \in Inline(boot.found) /\ a.columns \cap Payload # {})
    BY <1>4, <2>1, <2>3 DEF DropPayloads, FileInv, FileTypeOK, File
  <2> QED BY <2>2, <2>3
<1> HIDE DEF d
<1>6. file' \in File /\ file'.version = 3 /\ file'.tables = Tables /\ file'.cast = TRUE
      /\ "redactions" \in file'.columns /\ file'.columns \cap Payload = {}
  BY <1>2, <1>5 DEF File, d
<1> QED BY <1>1, <1>6 DEF FileInv, FileTypeOK, BootInv, Honest, Upgrade, Steps, Tables, SchemaVersion

LEMMA VacuumPreserves == FileInv /\ Vacuum => FileInv'
BY DEF FileInv, FileTypeOK, BootInv, Honest, Vacuum, Goes, Steps, File, SchemaVersion, Tables

LEMMA CheckpointPreserves == FileInv /\ Checkpoint => FileInv'
BY DEF FileInv, FileTypeOK, BootInv, Honest, Checkpoint, Goes, Steps, File, SchemaVersion, Tables

LEMMA StampPreserves == FileInv /\ Stamp => FileInv'
<1> SUFFICES ASSUME FileInv, Stamp PROVE FileInv'
  OBVIOUS
<1>1. file' = [file EXCEPT !.version = 4]
  BY OneDeferred DEF Stamp, FileInv, FileTypeOK, BootInv
<1> QED BY <1>1 DEF FileInv, FileTypeOK, BootInv, Honest, Stamp, Served, Steps, File, SchemaVersion, Tables

LEMMA AroundPreserves ==
  FileInv /\ (Busy \/ Crash \/ Leave \/ \E use \in {"reading", "writing"} : Shell(use)) => FileInv'
<1>1. FileInv /\ (Busy \/ Crash) => FileInv'
  BY DEF FileInv, FileTypeOK, BootInv, Honest, Busy, Crash, Exit, Steps, HasSchema
<1>2. FileInv /\ (Leave \/ \E use \in {"reading", "writing"} : Shell(use)) => FileInv'
  BY DEF FileInv, FileTypeOK, BootInv, Honest, Leave, Shell, HasSchema
<1> QED BY <1>1, <1>2

LEMMA FilePreserves == FileInv /\ FileNext => FileInv'
BY OpenPreserves, SeedPreserves, UpgradePreserves, VacuumPreserves, CheckpointPreserves,
   StampPreserves, AroundPreserves DEF FileNext, BootStep

-----------------------------------------------------------------------------
(* The callers.                                                            *)

\* A request stands for the service its caller waits for, an answer "ok" for
\* its reset since then, and a command at work has reset what it left behind or
\* counts it among the failed.
RunInv ==
  /\ run \in [at : {"idle", "next", "await", "done", "threw"}, hard : BOOLEAN,
              todo : Seq(Services), ok : BOOLEAN \cup {Null}, failed : SUBSET Services]
  /\ held.run \subseteq Services
  /\ run.at = "await" => run.todo # <<>>
  /\ run.at = "done" => run.todo = <<>>
  /\ run.at \in {"next", "await", "done"} =>
       held.run \cap Scope(run.hard) \subseteq ToSet(run.todo) \cup run.failed
  /\ run.at = "next" => run.ok = Null
  /\ run.at = "await" /\ run.ok = TRUE => Head(run.todo) \notin held.run
  /\ \A post \in posts : post.by = "run" =>
       run.at = "await" /\ run.ok = Null /\ post.to = Head(run.todo) /\ post.mode = "demo"

PressInv ==
  /\ press \in [at : {"idle", "await", "ok", "failed"}, mode : Modes \cup {Null},
                ok : BOOLEAN \cup {Null}]
  /\ held.press \subseteq Modes
  /\ press.at = "ok" \/ press.ok = TRUE => press.mode \notin held.press
  /\ \A post \in posts : post.by = "press" =>
       press.at = "await" /\ post.to = "hooks" /\ post.mode = press.mode

CallersTypeOK ==
  /\ posts \subseteq [by : {"run", "press", "nobody"}, to : Services, mode : Modes]
  /\ held = [run |-> held.run, press |-> held.press]

Inv == FileInv /\ CallersTypeOK /\ RunInv /\ PressInv

LEMMA Elements ==
  ASSUME NEW S, NEW s \in Seq(S), s # <<>>
  PROVE  /\ Head(s) \in S /\ Tail(s) \in Seq(S)
         /\ ToSet(s) \subseteq {Head(s)} \cup ToSet(Tail(s))
<1>1. Head(s) \in S /\ Tail(s) \in Seq(S)
  OBVIOUS
<1>2. ASSUME NEW i \in DOMAIN s PROVE s[i] \in {Head(s)} \cup ToSet(Tail(s))
  <2>1. CASE i = 1
    BY <2>1
  <2>2. CASE i # 1
    <3>1. i - 1 \in DOMAIN Tail(s) /\ Tail(s)[i - 1] = s[i]
      BY <2>2
    <3> QED BY <3>1 DEF ToSet
  <2> QED BY <2>1, <2>2
<1> QED BY <1>1, <1>2 DEF ToSet

LEMMA Ordered ==
  ASSUME NEW hard \in BOOLEAN
  PROVE  ServicesFor(hard) \in Seq(Services)
<1>1. <<>> \in Seq(Services) /\ <<"idp">> \in Seq(Services)
      /\ <<"hooks", "loan-app">> \in Seq(Services)
  BY DEF Services
<1>2. \A s, t \in Seq(Services) : s \o t \in Seq(Services)
  OBVIOUS
<1>3. (IF hard THEN <<"idp">> ELSE <<>>) \in Seq(Services)
  BY <1>1
<1> QED BY <1>1, <1>2, <1>3 DEF ServicesFor

LEMMA Initially == Init => Inv
<1> SUFFICES ASSUME Init PROVE Inv
  OBVIOUS
<1>1. FileInv
  BY FileInitially DEF Init
<1>2. CallersTypeOK
  BY DEF Init, CallersTypeOK
<1>3. RunInv
  BY DEF Init, RunInv, NoRun
<1>4. PressInv
  BY DEF Init, PressInv, NoPress
<1> QED BY <1>1, <1>2, <1>3, <1>4 DEF Inv

\* A reset changes of the file only whether old rows are in it.
LEMMA FileThroughReset ==
  ASSUME FileInv, UNCHANGED <<boot, other, crashes, shells>>,
         file' = file \/ file' = [file EXCEPT !.rows = FALSE]
  PROVE  FileInv'
<1>1. CASE file' = file
  BY <1>1 DEF FileInv, FileTypeOK, BootInv, Honest, HasSchema
<1>2. CASE file' = [file EXCEPT !.rows = FALSE]
  BY <1>2 DEF FileInv, FileTypeOK, BootInv, Honest, HasSchema, File
<1> QED BY <1>1, <1>2

LEMMA NullIsNoAnswer == Null # TRUE
BY NullAssumption

LEMMA StartPreserves == ASSUME Inv, NEW hard \in BOOLEAN, Start(hard) PROVE Inv'
<1>1. FileInv'
  BY FileThroughReset DEF Start, fileVars, Inv
<1>2. /\ run' = [at |-> "next", hard |-> hard, todo |-> ServicesFor(hard), ok |-> Null, failed |-> {}]
      /\ posts' = posts /\ press' = press /\ held' = [held EXCEPT !.run = Services]
  BY DEF Start, NoRun
<1>3. \A post \in posts : post.by # "run"
  BY DEF Start, Inv, RunInv
<1>4. RunInv'
  BY <1>2, <1>3, Ordered DEF RunInv, Scope, Inv, CallersTypeOK
<1> QED BY <1>1, <1>2, <1>4 DEF Inv, CallersTypeOK, PressInv

LEMMA SendPreserves == ASSUME Inv, Send PROVE Inv'
<1>1. FileInv'
  BY FileThroughReset DEF Send, fileVars, Inv
<1>2. Head(run.todo) \in Services
  BY Elements DEF Send, Inv, RunInv
<1>3. /\ run' = [run EXCEPT !.at = "await"] /\ press' = press /\ held' = held
      /\ posts' = posts \cup {[by |-> "run", to |-> Head(run.todo), mode |-> "demo"]}
      /\ run.at = "next" /\ run.todo # <<>>
  BY DEF Send, Post
<1>4. CallersTypeOK'
  BY <1>2, <1>3 DEF Inv, CallersTypeOK, Modes
<1>5. RunInv'
  <2>1. \A post \in posts : post.by # "run"
    BY <1>3 DEF Inv, RunInv
  <2>2. run.ok = Null
    BY <1>3 DEF Inv, RunInv
  <2>3. /\ run'.at = "await" /\ run'.hard = run.hard /\ run'.todo = run.todo
        /\ run'.ok = Null /\ run'.failed = run.failed
        /\ run' \in [at : {"await"}, hard : BOOLEAN, todo : Seq(Services),
                     ok : {Null}, failed : SUBSET Services]
    BY <1>3, <2>2 DEF Inv, RunInv
  <2>4. \A post \in posts' : post.by = "run" =>
          post.to = Head(run'.todo) /\ post.mode = "demo"
    BY <1>3, <2>1, <2>3
  <2>5. run'.ok # TRUE
    BY <2>3, NullIsNoAnswer
  <2>6. run'.todo # <<>> /\ held'.run \subseteq Services
        /\ held'.run \cap Scope(run'.hard) \subseteq ToSet(run'.todo) \cup run'.failed
    BY <1>3, <2>3 DEF Inv, RunInv
  <2> QED BY <2>3, <2>4, <2>5, <2>6 DEF RunInv
<1>6. PressInv'
  BY <1>3 DEF Inv, PressInv
<1> QED BY <1>1, <1>4, <1>5, <1>6 DEF Inv

LEMMA GivenUpTypes ==
  ASSUME posts \subseteq [by : {"run", "press", "nobody"}, to : Services, mode : Modes],
         NEW by \in {"run", "press"}
  PROVE  /\ GivenUp(by) \subseteq [by : {"run", "press", "nobody"}, to : Services, mode : Modes]
         /\ \A post \in GivenUp(by) : post.by # by /\ (post.by # "nobody" => post \in posts)
<1> SUFFICES ASSUME NEW post \in posts,
                    NEW left, left = IF post.by = by THEN [post EXCEPT !.by = "nobody"] ELSE post
             PROVE  /\ left \in [by : {"run", "press", "nobody"}, to : Services, mode : Modes]
                    /\ left.by # by /\ (left.by # "nobody" => left \in posts)
  BY DEF GivenUp
<1>1. post \in [by : {"run", "press", "nobody"}, to : Services, mode : Modes]
  OBVIOUS
<1>2. CASE post.by = by
  BY <1>1, <1>2
<1>3. CASE post.by # by
  BY <1>1, <1>3
<1> QED BY <1>2, <1>3

\* The end of one service's line: it is reset, or it failed.
LEMMA ReportedPreserves ==
  ASSUME Inv, run.at = "await", NEW failed, failed \in {run.failed, WithService},
         Head(run.todo) \in held.run => Head(run.todo) \in failed,
         run' = Reported(failed), UNCHANGED <<fileVars, press, held, bounds>>,
         \/ posts' = posts /\ (\A post \in posts : post.by # "run")
         \/ posts' = GivenUp("run")
  PROVE  Inv'
<1>1. FileInv'
  BY FileThroughReset DEF fileVars, Inv
<1>2. /\ Head(run.todo) \in Services /\ Tail(run.todo) \in Seq(Services)
      /\ ToSet(run.todo) \subseteq {Head(run.todo)} \cup ToSet(Tail(run.todo))
  BY Elements DEF Inv, RunInv
<1>3. /\ run'.at = "next" /\ run'.hard = run.hard /\ run'.todo = Tail(run.todo)
      /\ run'.ok = Null /\ run'.failed = failed
      /\ run' \in [at : {"next"}, hard : BOOLEAN, todo : Seq(Services), ok : {Null}, failed : SUBSET Services]
  BY <1>2 DEF Reported, WithService, Inv, RunInv
<1>4. /\ \A post \in posts' : post.by # "run"
      /\ posts' \subseteq [by : {"run", "press", "nobody"}, to : Services, mode : Modes]
      /\ \A post \in posts' : post.by = "press" => post \in posts
  BY GivenUpTypes DEF Inv, CallersTypeOK
<1>5. held.run \cap Scope(run.hard) \subseteq ToSet(Tail(run.todo)) \cup failed
  BY <1>2 DEF Inv, RunInv, WithService
<1>6. RunInv'
  BY <1>3, <1>4, <1>5 DEF RunInv, Inv
<1> QED BY <1>1, <1>4, <1>6 DEF Inv, CallersTypeOK, PressInv

LEMMA LinePreserves == ASSUME Inv, Line PROVE Inv'
<1>1. PICK failed \in {run.failed, WithService} :
        run' = Reported(failed) /\ (run.ok = TRUE \/ failed = WithService)
  BY NullAssumption DEF Line, Inv, RunInv
<1>2. Head(run.todo) \in held.run => Head(run.todo) \in failed
  BY <1>1 DEF Line, Inv, RunInv, WithService
<1>3. \A post \in posts : post.by # "run"
  BY DEF Line, Inv, RunInv
<1> QED BY <1>1, <1>2, <1>3, ReportedPreserves DEF Line

LEMMA GiveUpPreserves == ASSUME Inv, GiveUp PROVE Inv'
<1>1. Head(run.todo) \in Unreached /\ Unreached = WithService
  BY DEF Unreached, WithService
<1> QED BY <1>1, ReportedPreserves DEF GiveUp

LEMMA ThrowPreserves == ASSUME Inv, Throw PROVE Inv'
<1>1. FileInv'
  BY FileThroughReset DEF Throw, fileVars, Inv
<1>2. run' = [at |-> "threw", hard |-> FALSE, todo |-> <<>>, ok |-> Null, failed |-> {}]
  BY DEF Throw, NoRun
<1>3. \A post \in posts : post.by # "run"
  BY DEF Throw, Inv, RunInv
<1>4. posts' = posts /\ press' = press /\ held' = held
  BY DEF Throw
<1>5. RunInv'
  BY <1>2, <1>3, <1>4 DEF Inv, RunInv
<1>6. CallersTypeOK' /\ PressInv'
  BY <1>4 DEF Inv, CallersTypeOK, PressInv
<1> QED BY <1>1, <1>5, <1>6 DEF Inv

LEMMA VerdictPreserves == ASSUME Inv, Verdict PROVE Inv'
<1>1. FileInv'
  BY FileThroughReset DEF Verdict, fileVars, Inv
<1> QED BY <1>1 DEF Inv, CallersTypeOK, RunInv, PressInv, Verdict

LEMMA PressPreserves == ASSUME Inv, NEW mode \in Modes, Press(mode) PROVE Inv'
<1>1. FileInv'
  BY FileThroughReset DEF Press, fileVars, Inv
<1>2. \A post \in posts : post.by # "press"
  BY DEF Press, Inv, PressInv
<1>3. /\ posts' = posts \cup {[by |-> "press", to |-> "hooks", mode |-> mode]}
      /\ "hooks" \in Services
      /\ run' = run /\ press' = [at |-> "await", mode |-> mode, ok |-> Null]
  BY DEF Press, Post, Services
<1>4. held' = [run |-> held.run, press |-> Modes]
  BY DEF Press, Inv, CallersTypeOK
<1>5. RunInv'
  BY <1>3, <1>4 DEF Inv, RunInv
<1>6. PressInv'
  <2>1. \A post \in posts' : post.by = "press" => post.to = "hooks" /\ post.mode = mode
    BY <1>2, <1>3
  <2>2. press'.ok # TRUE /\ press'.at = "await" /\ press'.mode = mode /\ held'.press = Modes
        /\ press' \in [at : {"idle", "await", "ok", "failed"}, mode : Modes \cup {Null},
                       ok : BOOLEAN \cup {Null}]
    BY <1>3, <1>4, NullIsNoAnswer
  <2> QED BY <2>1, <2>2 DEF PressInv
<1>7. CallersTypeOK'
  BY <1>3, <1>4 DEF Inv, CallersTypeOK
<1> QED BY <1>1, <1>5, <1>6, <1>7 DEF Inv

LEMMA ToldPreserves == ASSUME Inv, Told PROVE Inv'
<1>1. FileInv'
  BY FileThroughReset DEF Told, fileVars, Inv
<1>2. PICK at \in {"failed"} \cup (IF press.ok = TRUE THEN {"ok"} ELSE {}) :
        press' = [press EXCEPT !.at = at, !.ok = Null]
  BY DEF Told
<1>3. /\ posts' \subseteq [by : {"run", "press", "nobody"}, to : Services, mode : Modes]
      /\ \A post \in posts' : post.by # "press" /\ (post.by = "run" => post \in posts)
  BY GivenUpTypes DEF Told, Inv, CallersTypeOK
<1>4. PressInv'
  BY <1>2, <1>3, NullAssumption DEF Inv, PressInv, Told
<1>5. RunInv'
  BY <1>3 DEF Inv, RunInv, Told
<1> QED BY <1>1, <1>3, <1>4, <1>5 DEF Inv, CallersTypeOK, Told

\* What a service or the network does with a request.
LEMMA AnsweredPreserves ==
  ASSUME Inv, NEW post \in posts, NEW ok \in BOOLEAN, Answered(post, ok),
         file' = file \/ file' = [file EXCEPT !.rows = FALSE],
         UNCHANGED <<boot, other, crashes, shells>>,
         held' = [run |-> held'.run, press |-> held'.press],
         held'.run \subseteq held.run, held'.press \subseteq held.press,
         ok /\ post.by = "run" => post.to \notin held'.run,
         ok /\ post.by = "press" => post.mode \notin held'.press
  PROVE  Inv'
<1>1. FileInv'
  BY FileThroughReset DEF Inv
<1>2. posts' = posts \ {post}
      /\ post \in [by : {"run", "press", "nobody"}, to : Services, mode : Modes]
  BY DEF Answered, Inv, CallersTypeOK
<1>3. CallersTypeOK'
  BY <1>2 DEF Inv, CallersTypeOK
<1>4. RunInv'
  <2>1. CASE post.by = "run"
    <3>1. \A late \in posts' : late.by # "run"
      BY <1>2, <2>1 DEF Inv, RunInv, CallersTypeOK
    <3>2. run' = [run EXCEPT !.ok = ok] /\ run.at = "await" /\ post.to = Head(run.todo)
      BY <2>1 DEF Answered, Inv, RunInv
    <3> QED BY <2>1, <3>1, <3>2 DEF Inv, RunInv
  <2>2. CASE post.by # "run"
    BY <1>2, <2>2 DEF Inv, RunInv, Answered
  <2> QED BY <2>1, <2>2
<1>5. PressInv'
  <2>1. CASE post.by = "press"
    <3>1. press' = [press EXCEPT !.ok = ok] /\ press.at = "await" /\ post.mode = press.mode
      BY <2>1 DEF Answered, Inv, PressInv
    <3> QED BY <1>2, <2>1, <3>1 DEF Inv, PressInv
  <2>2. CASE post.by # "press"
    BY <1>2, <2>2 DEF Inv, PressInv, Answered
  <2> QED BY <2>1, <2>2
<1> QED BY <1>1, <1>3, <1>4, <1>5 DEF Inv

LEMMA ServePreserves == ASSUME Inv, NEW post \in posts, Serve(post) PROVE Inv'
<1>1. post.by = "run" => post.mode = "demo"
  BY DEF Inv, RunInv
<1>2. post.by = "press" => post.to = "hooks" /\ post.mode \in Restored(post)
  BY DEF Inv, PressInv, CallersTypeOK, Restored, Modes
<1> QED BY <1>1, <1>2, AnsweredPreserves DEF Serve

LEMMA RefusePreserves == ASSUME Inv, NEW post \in posts, Refuse(post) PROVE Inv'
BY AnsweredPreserves DEF Refuse, fileVars, Inv, CallersTypeOK

LEMMA AlarmPreserves == ASSUME Inv, NEW post \in posts, Alarm(post) PROVE Inv'
<1>1. held' = [run |-> held.run \ {"idp"}, press |-> held.press]
  BY DEF Alarm, Inv, CallersTypeOK
<1> QED BY <1>1, AnsweredPreserves DEF Alarm, fileVars

LEMMA LosePreserves == ASSUME Inv, NEW post \in posts, Lose(post) PROVE Inv'
<1>1. FileInv'
  BY FileThroughReset DEF Lose, fileVars, Inv
<1> QED BY <1>1 DEF Inv, CallersTypeOK, RunInv, PressInv, Lose, callers

LEMMA FileStepPreserves == ASSUME Inv, FileStep PROVE Inv'
BY FilePreserves DEF Inv, FileStep, resetVars, CallersTypeOK, RunInv, PressInv

LEMMA StepPreserves == Inv /\ [Next]_vars => Inv'
<1> SUFFICES ASSUME Inv, [Next]_vars PROVE Inv'
  OBVIOUS
<1>1. CASE Command
  BY <1>1, StartPreserves, SendPreserves, LinePreserves, GiveUpPreserves, ThrowPreserves,
     VerdictPreserves DEF Command
<1>2. CASE Panel
  BY <1>2, PressPreserves, ToldPreserves DEF Panel
<1>3. CASE Network
  BY <1>3, ServePreserves, RefusePreserves, AlarmPreserves, LosePreserves DEF Network
<1>4. CASE FileStep
  BY <1>4, FileStepPreserves
<1>5. CASE UNCHANGED vars
  <2>1. FileInv'
    BY <1>5, FileThroughReset DEF vars, fileVars, Inv
  <2> QED BY <1>5, <2>1 DEF vars, resetVars, Inv, CallersTypeOK, RunInv, PressInv
<1> QED BY <1>1, <1>2, <1>3, <1>4, <1>5 DEF Next

LEMMA Inductive == Spec => []Inv
<1>1. Init => Inv
  BY Initially
<1>2. Inv /\ [Next]_vars => Inv'
  BY StepPreserves
<1> QED BY <1>1, <1>2, PTL DEF Spec

\* A stamp of this build's version is never on a file that is not done, over
\* any sequence of crashes, locks and boots (upgradeSchema).
THEOREM StampedIsDone == Spec => []StampMeansDone
<1>1. Inv => StampMeansDone
  BY InvMeansDone DEF Inv
<1> QED BY <1>1, Inductive, PTL

\* No caller is told "ok" of a reset that did not happen since it asked, with any
\* number of runs, presses and requests still on their way (scripts/reset.ts).
THEOREM OkIsEarned == Spec => []OkMeansReset
<1>1. Inv => OkMeansReset
  <2> SUFFICES ASSUME Inv PROVE OkMeansReset
    OBVIOUS
  <2>1. run.at = "done" /\ run.failed = {} => held.run \cap Scope(run.hard) = {}
    BY DEF Inv, RunInv, ToSet
  <2> QED BY <2>1 DEF OkMeansReset, Inv, PressInv
<1> QED BY <1>1, Inductive, PTL
=============================================================================
