-------------------------- MODULE GovernanceFile --------------------------
(***************************************************************************)
(* apps/hooks/src/policy-store.ts, opening: governance.db on a disk that   *)
(* outlives every build.  A boot seeds an empty file, brings an older one  *)
(* up to the schema of this build and refuses a newer one; it may be       *)
(* killed, or refused by a file another connection has locked, between any *)
(* two of its statements, and is started again.                            *)
(*                                                                         *)
(* Rows of the audit log written before version 3 hold raw tool output.    *)
(* Dropping their columns leaves its bytes on free pages until a VACUUM    *)
(* writes the file again, and until a checkpoint in the write-ahead log and *)
(* in the pages of the main file that the log supersedes.                  *)
(***************************************************************************)
EXTENDS Integers, FiniteSets, FiniteSetsExt

CONSTANTS
  Files,        \* the files a boot may find
  MaxCrashes,   \* bound: boots and services killed
  MaxShells     \* bound: connections a person opens to the file

\* SCHEMA_VERSION.
SchemaVersion == 4

\* MIGRATIONS, by the version each brings the file to.
Migrations == {2, 3, 4}
OutsideTransaction == {4}
Owed(found) == {to \in Migrations : to > found}
Deferred(found) == Owed(found) \cap OutsideTransaction
Inline(found) == Owed(found) \ OutsideTransaction

\* What the queries of this build name: SCHEMA's tables, one of them younger
\* than the first builds, and the column version 2 added to the audit log.
Tables == {"policy_rules", "audit_log", "approval_requests"}
Payload == {"before", "after"}

VARIABLES
  file,      \* governance.db
  boot,      \* the process: where it stands and the version it found
  other,     \* a connection of a person's shell: closed, reading or writing
  crashes, shells

fileVars == <<file, boot, other, crashes, shells>>

\* A file nobody wrote has no tables; SQLite reads its version as 0.  rows: the
\* audit log has rows of a build that kept payloads; free: a free page holds
\* payload; log: so does the log or a page it supersedes, to be truncated, or
\* kept by a connection that was in the way.
Blank == [version |-> 0, tables |-> {}, columns |-> {}, cast |-> FALSE,
          rows |-> FALSE, free |-> FALSE, log |-> "clean"]

\* A file some build of this service left behind, finished or not: a policy table
\* only with its rows, and of each version what came with it.
Honest(f) ==
  /\ f.tables # {} => "policy_rules" \in f.tables
  /\ f.cast <=> "policy_rules" \in f.tables
  /\ f.version >= 2 /\ "audit_log" \in f.tables => "redactions" \in f.columns
  /\ f.version >= 3 => f.columns \cap Payload = {}
  /\ f.version >= SchemaVersion => f.tables = Tables
  /\ f.free \/ f.log = "payload" => f.version < SchemaVersion /\ f.tables # {}

File == [version : Nat, tables : SUBSET Tables, columns : SUBSET (Payload \cup {"redactions"}),
         cast : BOOLEAN, rows : BOOLEAN, free : BOOLEAN, log : {"clean", "payload", "kept"}]

ASSUME FilesAssumption == Files \subseteq {f \in File : Honest(f)}

Steps == {"down", "seed", "upgrade", "vacuum", "checkpoint", "stamp", "serving"}

FileTypeOK ==
  /\ file \in File
  /\ boot \in [at : Steps, found : Nat]
  /\ other \in {"closed", "reading", "writing"}
  /\ crashes \in Nat /\ shells \in Nat

FileInit ==
  /\ file \in Files
  /\ boot = [at |-> "down", found |-> 0]
  /\ other = "closed"
  /\ crashes = 0 /\ shells = 0

-----------------------------------------------------------------------------
(* openGovernance.                                                         *)

Goes(step) == boot' = [boot EXCEPT !.at = step]

\* openGovernance returns, and the port opens; or it throws, and the process exits.
Served == boot' = [at |-> "serving", found |-> 0]
Exit == boot' = [at |-> "down", found |-> 0]

\* hasSchema: asked of one table, and only about bootstrapping.
BootstrappedByVersion == file.version > 0
HasSchema == "policy_rules" \in file.tables

\* What upgradeSchema does first, with the version it read.
FirstStep(found) == CASE found > SchemaVersion -> "down"      \* SchemaTooNewError
                      [] found = SchemaVersion -> "serving"
                      [] OTHER -> "upgrade"

Open ==
  /\ boot.at = "down"
  /\ LET step == IF HasSchema THEN FirstStep(file.version) ELSE "seed"
     IN  boot' = [at |-> step, found |-> IF step = "upgrade" THEN file.version ELSE 0]
  /\ UNCHANGED <<file, other, crashes, shells>>

\* CREATE ... IF NOT EXISTS: a table that is missing comes with every column
\* this build knows; one that is there keeps the columns it has.
Replayed(f) ==
  [f EXCEPT !.tables = Tables,
            !.columns = IF "audit_log" \in f.tables THEN @ ELSE {"redactions"}]

\* seed: tables, version and rows in one transaction.  Rows of a policy that is
\* already there collide with the fixture's, and nothing of it stays.
Seed ==
  /\ boot.at = "seed" /\ other # "writing"
  /\ IF file.cast
     THEN Exit /\ UNCHANGED file
     ELSE /\ file' = [Replayed(file) EXCEPT !.version = SchemaVersion, !.cast = TRUE]
          /\ Served
  /\ UNCHANGED <<other, crashes, shells>>

\* The migrations a transaction can hold.
AddRedactions(f) ==
  IF 2 \in Inline(boot.found) THEN [f EXCEPT !.columns = @ \cup {"redactions"}] ELSE f
DropPayloads(f) ==
  IF 3 \in Inline(boot.found) /\ f.columns \cap Payload # {}
  THEN [f EXCEPT !.columns = @ \ Payload, !.free = @ \/ f.rows, !.log = IF f.rows THEN "payload" ELSE @]
  ELSE f

\* The version the transaction may claim: below the first step it cannot hold.
StampedWhole(found) == SchemaVersion
Stamped(found) ==
  IF Deferred(found) = {} THEN SchemaVersion ELSE Min(Deferred(found)) - 1

Upgrade ==
  /\ boot.at = "upgrade" /\ other # "writing"
  /\ file' = [DropPayloads(AddRedactions(Replayed(file)))
                EXCEPT !.version = Stamped(boot.found)]
  /\ IF Deferred(boot.found) = {} THEN Served ELSE Goes("vacuum")
  /\ UNCHANGED <<other, crashes, shells>>

\* VACUUM: the file whole again without its free pages, in the log so far.
Vacuum ==
  /\ boot.at = "vacuum" /\ other # "writing"
  /\ file' = [file EXCEPT !.free = FALSE, !.log = IF file.free THEN "payload" ELSE @]
  /\ Goes("checkpoint")
  /\ UNCHANGED <<other, crashes, shells>>

\* PRAGMA wal_checkpoint(TRUNCATE): held up by another connection it says so in
\* a row nobody reads, and throws nothing.
Checkpoint ==
  /\ boot.at = "checkpoint"
  /\ file' = [file EXCEPT !.log = IF @ = "payload" /\ other # "closed" THEN "kept" ELSE "clean"]
  /\ Goes("stamp")
  /\ UNCHANGED <<other, crashes, shells>>

Stamp ==
  /\ boot.at = "stamp" /\ other # "writing"
  /\ file' = [file EXCEPT !.version = Max(Deferred(boot.found))]
  /\ Served
  /\ UNCHANGED <<other, crashes, shells>>

-----------------------------------------------------------------------------
(* What goes on around it.                                                 *)

\* A write waits a second for the lock another connection holds, then throws.
Busy ==
  /\ boot.at \in {"seed", "upgrade", "vacuum", "stamp"} /\ other = "writing"
  /\ Exit
  /\ UNCHANGED <<file, other, crashes, shells>>

Crash ==
  /\ boot.at # "down" /\ crashes < MaxCrashes
  /\ Exit /\ crashes' = crashes + 1
  /\ UNCHANGED <<file, other, shells>>

Shell(use) ==
  /\ other = "closed" /\ shells < MaxShells
  /\ other' = use /\ shells' = shells + 1
  /\ UNCHANGED <<file, boot, crashes>>

Leave == other # "closed" /\ other' = "closed"
         /\ UNCHANGED <<file, boot, crashes, shells>>

\* Render starts the service again whenever it exits.
BootStep == Open \/ Seed \/ Upgrade \/ Vacuum \/ Checkpoint \/ Stamp \/ Busy

FileNext == BootStep \/ Crash \/ Leave \/ \E use \in {"reading", "writing"} : Shell(use)

-----------------------------------------------------------------------------
(* A stamp means that all of it is done: a file at this build's version has *)
(* every table and column its queries name and its policy, holds no payload *)
(* in a column or on a free page, whichever boots died on the way to it -   *)
(* and none in its log, unless another connection was in the way.           *)
StampMeansDone ==
  file.version = SchemaVersion =>
    /\ file.tables = Tables /\ "redactions" \in file.columns /\ file.cast
    /\ file.columns \cap Payload = {} /\ ~file.free
    /\ file.log # "payload"

(* A file this build understands is served in the end, or a shell holds its *)
(* lock: no crash or half-done upgrade leaves one every later boot dies on. *)
ComesUp == (file.version <= SchemaVersion) ~> (boot.at = "serving" \/ other = "writing")
=============================================================================
