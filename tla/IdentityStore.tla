--------------------------- MODULE IdentityStore ---------------------------
(***************************************************************************)
(* apps/idp/src/db.ts, client.ts and reset.ts: idp.db and the processes    *)
(* that open it.  The service boots, brings the file up to the schema it   *)
(* knows or seeds an empty one, and makes sure that every configured OAuth *)
(* client has its row; a person in a shell may run the oauth-client or the *)
(* reset script against the same file meanwhile.  Transactions and single  *)
(* statements are steps; everything is awaited between them.               *)
(*                                                                         *)
(* Arcade is registered against a client id and a secret, by hand: a row   *)
(* minted twice, or a secret changed, fails every sign-in before any hook  *)
(* runs.  A person is an e-mail address; a secret is a number nobody else  *)
(* drew, stored as a hash or, by an old build, as a cipher text.           *)
(***************************************************************************)
EXTENDS Integers, Sequences, FiniteSets, SequencesExt

CONSTANTS
  None,
  Config,      \* the configured client keys, in order; the first is primary
  DisplayName, \* DisplayName[key]: the name readClients gives the client of a key
  Fixtures,    \* what an image may seed: people in order, in lower case
  Lower,       \* Lower[e]: an address in lower case
  Disks,       \* the files a process may find
  MaxShells,   \* bound: commands run in the shell
  MaxCrashes   \* bound: processes killed, or refused by a locked file

Primary == Head(Config)
Keys == ToSet(Config)

\* The revision this build writes; a file nobody wrote has none.
SchemaVersion == 1
NoSchema == -1

ClientName == "Arcade"

\* What is in a file: a client's name and key, its id and its secret, and whether
\* its redirect URIs and method are those of the configuration; and, beside the
\* people, whether some row of a table that names one belongs to nobody.
RowIds == Keys \cup UNION {{row.id : row \in file.clients} : file \in Disks}
RowNames == {DisplayName[key] : key \in Keys} \cup UNION {{row.name : row \in file.clients} : file \in Disks}
Secret == [form : {"none", "hash", "cipher", "lost"}, value : Nat]
Row == [id : RowIds, name : RowNames, clientId : Nat, secret : Secret, configured : BOOLEAN]
File == [version : {NoSchema} \cup 0..SchemaVersion + 1, people : SUBSET DOMAIN Lower,
         orphans : BOOLEAN, clients : SUBSET Row]

\* The only row of the name Arcade is registered under.
Sole(clients, row) ==
  row.name = ClientName /\ \A other \in clients : other.name = ClientName => other = row

\* id is the primary key, and the name goes with the primary key: a build gives it
\* to that row alone, or gave it to one that had no key yet.
OneRowEach(clients) ==
  /\ \A q, r \in clients : q.id = r.id => q = r
  /\ \A row \in clients : row.id \in Keys => (row.name = ClientName <=> row.id = Primary)
  /\ \A row \in clients : row.id = Primary => Sole(clients, row)

\* readClients puts the primary key first.  A name is its key with capitals and
\* spaces, so that no other client has the primary one's.
ASSUME StoreAssumption ==
  /\ Config \in Seq(Keys) /\ Config # <<>>
  /\ \A key \in Keys : DisplayName[key] = ClientName <=> key = Primary
  /\ \A people \in Fixtures : people \in Seq(DOMAIN Lower)
  /\ \A e \in DOMAIN Lower : Lower[e] \in DOMAIN Lower
  /\ MaxShells \in Nat /\ MaxCrashes \in Nat
  /\ \A file \in Disks :
       file \in File /\ IsFiniteSet(file.clients) /\ OneRowEach(file.clients)

VARIABLES
  fixture,     \* the people of this image
  disk,        \* idp.db: its version, its people and its client rows
  work,        \* by process: where it stands and what it holds in memory
  fresh,       \* the next number nobody drew
  told,        \* the <<key, client id>> a process reported, or Arcade holds
  resets,      \* by finished reset: the clients' rows at its ends
  shells, crashes

storeVars == <<fixture, disk, work, fresh, told, resets, shells, crashes>>

Procs == {"service", "shell"}
Tasks == {"boot", "show", "rotate", "reset"}

\* row: the client row it read.  ensured: what ensureOAuthClients returned, by
\* key.  before: the same, of a reset's first call.  rows: see resets.
Down == [pc |-> "down", task |-> "boot", keys |-> <<>>, row |-> None,
         ensured |-> <<>>, before |-> None, rows |-> None]

Hash(value) == [form |-> "hash", value |-> value]

\* A secret whose cipher text this BETTER_AUTH_SECRET decrypts, or does not.
Cipher(value) == [form |-> "cipher", value |-> value]
Undecryptable(value) == [form |-> "lost", value |-> value]
NoSecret == [form |-> "none", value |-> 0]

Found(key) == {row \in disk.clients : row.id = key}

\* findStoredClient, when there is one.
Stored(key) == CHOOSE row \in Found(key) : TRUE

\* adapter.update where id is the key.
Rewrite(key, field, value) ==
  disk' = [disk EXCEPT !.clients =
             (@ \ Found(key)) \cup {[row EXCEPT ![field] = value] : row \in Found(key)}]

Statements == {"down", "open", "seed", "adopt", "named", "adopting", "find", "reconcile",
           "migrate", "strangers", "mint", "replace", "serving", "stopped"}
Entry == [key : Keys, clientId : Nat, secret : {None} \cup Nat,
          state : {"unchanged", "migrated", "rotated", "created"}]
Work == [pc : Statements, task : Tasks, keys : Seq(Keys), row : {None} \cup Row,
         ensured : Seq(Entry), before : {None} \cup Seq(Entry), rows : {None} \cup SUBSET Row]

Ends == [before : {None} \cup SUBSET Row, after : SUBSET Row]

StoreTypeOK ==
  /\ fixture \in Fixtures /\ disk \in File /\ IsFiniteSet(disk.clients)
  /\ work \in [Procs -> Work]
  /\ fresh \in Nat /\ told \subseteq Keys \X Nat
  /\ resets \subseteq Ends
  /\ shells \in 0..MaxShells /\ crashes \in 0..MaxCrashes

\* The row Arcade was registered against, if the file leaves no doubt.
Held(clients) == LET named == {row \in clients : row.name = ClientName} IN
                 IF Cardinality(named) = 1 THEN named ELSE {}

StoreInit ==
  /\ fixture \in Fixtures /\ disk \in Disks
  /\ work = [p \in Procs |-> Down]
  /\ fresh = 10
  /\ told = {<<Primary, row.clientId>> : row \in Held(disk.clients)}
  /\ resets = {}
  /\ shells = 0 /\ crashes = 0

-----------------------------------------------------------------------------
(* Opening the file.                                                       *)

Goes(p, step) == work' = [work EXCEPT ![p].pc = step]

\* Whose port is open: a reset is a request to a service that goes on serving.
Serves(p) == p = "service" /\ (work[p].pc = "serving" \/ work[p].task = "reset")

\* A throw, or a script that ends: the process is gone, unless it is serving.
Stop(p) == work' = [work EXCEPT ![p] =
                      [Down EXCEPT !.pc = IF Serves(p) THEN "serving" ELSE "stopped"]]

\* A transaction that throws: rolled back, the file closed, the process gone.
RolledBack(p) == Stop(p) /\ UNCHANGED disk

\* ensureOAuthClients from its start.
Ensures(p) ==
  work' = [work EXCEPT ![p].pc = "adopt", ![p].keys = Config, ![p].ensured = <<>>]

Folded(people) == {Lower[e] : e \in people}

\* rebuildUserWithNocaseEmail: two rows whose addresses differ by case collapse.
Collapses(people) == Cardinality(Folded(people)) < Cardinality(people)

\* The rebuilt table is checked against the rows that refer to it.
Upgradable(file) == ~Collapses(file.people) /\ ~file.orphans

\* upgradeSchema: keeps every row, or leaves the file as it found it.
Upgrade(p) ==
  \/ /\ disk.version = SchemaVersion
     /\ Ensures(p) /\ UNCHANGED disk
  \/ /\ disk.version < SchemaVersion /\ Upgradable(disk)
     /\ disk' = [disk EXCEPT !.version = SchemaVersion, !.people = Folded(@)]
     /\ Ensures(p)
  \/ /\ disk.version > SchemaVersion \/ (disk.version < SchemaVersion /\ ~Upgradable(disk))
     /\ RolledBack(p)

\* openPeople: hasSchema asks for one table; passwords are hashed before the
\* transaction that seeds.
Open(p) ==
  /\ work[p].pc = "open"
  /\ IF disk.version = NoSchema THEN Goes(p, "seed") /\ UNCHANGED disk ELSE Upgrade(p)
  /\ UNCHANGED <<fixture, fresh, told, resets, shells, crashes>>

\* insertPeople beside those already there: an address is unique.
MayInsert(people) == IsInjective(fixture) /\ people \cap ToSet(fixture) = {}

\* seed: the tables, the version and the rows in one transaction; a throw
\* halfway leaves none of them.
SeedFails(d) == d
Seed(p) ==
  /\ work[p].pc = "seed"
  /\ IF MayInsert(disk.people)
     THEN /\ disk' = [disk EXCEPT !.version = SchemaVersion, !.people = @ \cup ToSet(fixture)]
          /\ Ensures(p)
     ELSE disk' = SeedFails(disk) /\ Stop(p)
  /\ UNCHANGED <<fixture, fresh, told, resets, shells, crashes>>

-----------------------------------------------------------------------------
(* ensureOAuthClients: adopt the row of an older build, then one key after *)
(* another.                                                                *)

FindPrimary(p) ==
  /\ work[p].pc = "adopt"
  /\ Goes(p, IF Found(Primary) # {} THEN "find" ELSE "named")
  /\ UNCHANGED <<fixture, disk, fresh, told, resets, shells, crashes>>

\* Two rows of the old name would be ambiguous: neither is adopted.
FindNamedSwapped(p) ==
  /\ work[p].pc = "named"
  /\ IF Held(disk.clients) # {} THEN Goes(p, "find")
     ELSE \E row \in Held(disk.clients) :
            work' = [work EXCEPT ![p].pc = "adopting", ![p].row = row]
  /\ UNCHANGED <<fixture, disk, fresh, told, resets, shells, crashes>>

FindNamed(p) ==
  /\ work[p].pc = "named"
  /\ IF Held(disk.clients) = {} THEN Goes(p, "find")
     ELSE \E row \in Held(disk.clients) :
            work' = [work EXCEPT ![p].pc = "adopting", ![p].row = row]
  /\ UNCHANGED <<fixture, disk, fresh, told, resets, shells, crashes>>

\* The row read may have been adopted by another process since.
AdoptLegacyRow(p) ==
  /\ work[p].pc = "adopting"
  /\ Rewrite(work[p].row.id, "id", Primary)
  /\ Goes(p, "find")
  /\ UNCHANGED <<fixture, fresh, told, resets, shells, crashes>>

Key(p) == Head(work[p].keys)

Find(p) ==
  /\ work[p].pc = "find" /\ work[p].keys # <<>>
  /\ work' = IF Found(Key(p)) # {}
             THEN [work EXCEPT ![p].pc = "reconcile", ![p].row = Stored(Key(p))]
             ELSE [work EXCEPT ![p].pc = "strangers", ![p].row = None]
  /\ UNCHANGED <<fixture, disk, fresh, told, resets, shells, crashes>>

\* One key is done, with this result; on to the next.
Ensured(p, clientId, secret, state) ==
  work' = [work EXCEPT
    ![p].pc = "find", ![p].keys = Tail(@), ![p].row = None,
    ![p].ensured = Append(@, [key |-> Key(p), clientId |-> clientId,
                              secret |-> secret, state |-> state])]

\* A row without a secret is a throw; otherwise redirect URIs and the authentication
\* method follow the configuration.
Reconcile(p) ==
  /\ work[p].pc = "reconcile"
  /\ LET row == work[p].row IN
     \/ row.secret.form = "none" /\ Stop(p) /\ UNCHANGED disk
     \/ /\ row.secret.form # "none"
        /\ Rewrite(Key(p), "configured", TRUE)
        /\ IF row.secret.form = "hash" THEN Ensured(p, row.clientId, None, "unchanged")
                                       ELSE Goes(p, "migrate")
  /\ UNCHANGED <<fixture, fresh, told, resets, shells, crashes>>

\* migrateStoredClientSecret, after it has decrypted and hashed: the same
\* secret stored hashed, or a new one if the old cannot be read.
Migrate(p) ==
  /\ work[p].pc = "migrate"
  /\ LET old == work[p].row.secret
         kept == old.form = "cipher"
         value == IF kept THEN old.value ELSE fresh
     IN /\ Rewrite(Key(p), "secret", Hash(value))
        /\ fresh' = IF kept THEN fresh ELSE fresh + 1
        /\ Ensured(p, work[p].row.clientId, IF kept THEN None ELSE value,
                   IF kept THEN "migrated" ELSE "rotated")
  /\ UNCHANGED <<fixture, told, resets, shells, crashes>>

\* The rows nobody here is configured for.
StrangersByName == {row \in disk.clients : row.id \notin Keys /\ row.name # ClientName}
Strangers == {row \in disk.clients : row.id \notin Keys}

RefuseToMint(p) ==
  /\ work[p].pc = "strangers"
  /\ IF Strangers = {} THEN Goes(p, "mint") ELSE Stop(p)
  /\ UNCHANGED <<fixture, disk, fresh, told, resets, shells, crashes>>

\* adapter.create, which a row of that key refuses: then theirs is the client.
MintClient(p) ==
  /\ work[p].pc = "mint"
  /\ IF Found(Key(p)) # {}
     THEN Goes(p, "find") /\ UNCHANGED <<disk, fresh>>
     ELSE /\ disk' = [disk EXCEPT !.clients = @ \cup
               {[id |-> Key(p), name |-> DisplayName[Key(p)],
                 clientId |-> fresh, secret |-> Hash(fresh), configured |-> TRUE]}]
          /\ Ensured(p, fresh, fresh, "created")
          /\ fresh' = fresh + 1
  /\ UNCHANGED <<fixture, told, resets, shells, crashes>>

-----------------------------------------------------------------------------
(* What is done with the clients.                                          *)

Ready(p, task) == work[p].pc = "find" /\ work[p].keys = <<>> /\ work[p].task = task

Clients(ensured) == {<<each.key, each.clientId>> : each \in ToSet(ensured)}

\* The service opens its port and says which clients it has.
Serve(p) ==
  /\ Ready(p, "boot")
  /\ told' = told \cup Clients(work[p].ensured)
  /\ work' = [work EXCEPT ![p] = [Down EXCEPT !.pc = "serving"]]
  /\ UNCHANGED <<fixture, disk, fresh, resets, shells, crashes>>

\* oauth-client says what it has.
Show(p) ==
  /\ Ready(p, "show")
  /\ told' = told \cup Clients(work[p].ensured)
  /\ Stop(p)
  /\ UNCHANGED <<fixture, disk, fresh, resets, shells, crashes>>

\* oauth-client --rotate --client: a row just created needs no rotation.
Rotate(p) ==
  /\ Ready(p, "rotate")
  /\ told' = told \cup Clients(work[p].ensured)
  /\ \E each \in ToSet(work[p].ensured) :
       IF each.state = "created" THEN UNCHANGED <<disk, fresh>>
       ELSE /\ Rewrite(each.key, "secret", Hash(fresh))
            /\ fresh' = fresh + 1
  /\ Stop(p)
  /\ UNCHANGED <<fixture, resets, shells, crashes>>

-----------------------------------------------------------------------------
(* Reset: reconcile, replace the people, reconcile again, compare.         *)

Resetting(p) == [Down EXCEPT !.task = "reset", !.rows = disk.clients]

\* POST /admin/reset to the service; its port stays open.
ResetRequested(p) ==
  /\ work[p].pc = "serving" /\ shells < MaxShells
  /\ shells' = shells + 1
  /\ work' = [work EXCEPT ![p] = [Resetting(p) EXCEPT !.pc = "adopt", !.keys = Config]]
  /\ UNCHANGED <<fixture, disk, fresh, told, resets, crashes>>

\* The first reconcile is done; the people's passwords are hashed.
HashPeople(p) ==
  /\ Ready(p, "reset") /\ work[p].before = None
  /\ work' = [work EXCEPT ![p].pc = "replace", ![p].before = work[p].ensured]
  /\ UNCHANGED <<fixture, disk, fresh, told, resets, shells, crashes>>

\* resetPeople, one transaction: nothing of the people, then the fixture's.
ResetPeople(p) ==
  /\ work[p].pc = "replace"
  /\ IF MayInsert({})
     THEN disk' = [disk EXCEPT !.people = ToSet(fixture), !.orphans = FALSE] /\ Ensures(p)
     ELSE Stop(p) /\ UNCHANGED disk
  /\ UNCHANGED <<fixture, fresh, told, resets, shells, crashes>>

\* Only the ids are compared; a difference is reported and nothing undone.
CompareClients(p) ==
  /\ Ready(p, "reset") /\ work[p].before # None
  /\ LET same == Clients(work[p].before) = Clients(work[p].ensured) IN
     resets' = IF same THEN resets \cup {[before |-> work[p].rows, after |-> disk.clients]}
               ELSE resets
  /\ told' = told \cup Clients(work[p].ensured)
  /\ Stop(p)
  /\ UNCHANGED <<fixture, disk, fresh, shells, crashes>>

-----------------------------------------------------------------------------
(* Processes come and go.                                                  *)

\* The platform starts the service, and starts it again when it exits.
StartService ==
  /\ work["service"].pc \in {"down", "stopped"}
  /\ work' = [work EXCEPT !["service"] = [Down EXCEPT !.pc = "open"]]
  /\ UNCHANGED <<fixture, disk, fresh, told, resets, shells, crashes>>

\* Somebody runs a script in a shell, beside the service or before it.
RunScript(task) ==
  /\ task # "boot"
  /\ work["shell"].pc \in {"down", "stopped"} /\ shells < MaxShells
  /\ shells' = shells + 1
  /\ work' = [work EXCEPT !["shell"] =
       [Resetting("shell") EXCEPT !.pc = "open", !.task = task]]
  /\ UNCHANGED <<fixture, disk, fresh, told, resets, crashes>>

\* Killed, or thrown out by a locked file, between any two steps.
Crash(p) ==
  /\ work[p].pc \notin {"down", "stopped"} /\ crashes < MaxCrashes
  /\ crashes' = crashes + 1
  /\ work' = [work EXCEPT ![p] = [Down EXCEPT !.pc = "stopped"]]
  /\ UNCHANGED <<fixture, disk, fresh, told, resets, shells>>

Step(p) ==
  \/ Open(p) \/ Seed(p)
  \/ FindPrimary(p) \/ FindNamed(p) \/ AdoptLegacyRow(p)
  \/ Find(p) \/ Reconcile(p) \/ Migrate(p) \/ RefuseToMint(p) \/ MintClient(p)
  \/ Serve(p) \/ Show(p) \/ Rotate(p)
  \/ HashPeople(p) \/ ResetPeople(p) \/ CompareClients(p)

StoreNext ==
  \/ StartService
  \/ \E task \in Tasks : RunScript(task)
  \/ \E p \in Procs : Step(p) \/ ResetRequested(p) \/ Crash(p)

\* A process that runs goes on, and the platform restarts the service.
Fairness == WF_storeVars(StartService) /\ \A p \in Procs : WF_storeVars(Step(p))

StoreSpec == StoreInit /\ [][StoreNext]_storeVars /\ Fairness

-----------------------------------------------------------------------------
(* Properties.                                                             *)

\* A client key has one client id for good: whatever processes race on an
\* empty or an old file, whatever dies in between and however often the people
\* are reset, every id that was ever reported or registered for a key is the
\* one in its row, and none is minted beside a row Arcade may hold.
OneRegistration ==
  /\ \A issued \in told :
       /\ \A row \in Found(issued[1]) : row.clientId = issued[2]
       /\ \A other \in told : other[1] = issued[1] => other[2] = issued[2]
  /\ \A row \in Found(Primary) : Held(disk.clients) = {row}

\* What that rests on.  A client is registered by its key, or still waits to be
\* adopted as the primary one.
Registered(clients, key, clientId) ==
  \E row \in clients : row.id = key /\ row.clientId = clientId
Awaits(clients, clientId) ==
  \E row \in clients : Sole(clients, row) /\ row.id # Primary /\ row.clientId = clientId
KnownAs(clients, key, clientId) ==
  Registered(clients, key, clientId) \/ (key = Primary /\ Awaits(clients, clientId))

\* Nobody mints beside a row that may be Arcade's, a row about to be adopted is the
\* only one of the name (another process may have adopted it already), and what a process holds in
\* memory of a client is still so.
Underway(w, clients) ==
  /\ w.pc \in {"reconcile", "migrate", "strangers", "mint"} => w.keys # <<>>
  /\ w.pc \in {"reconcile", "migrate"} =>
       w.row \in Row /\ Registered(clients, Head(w.keys), w.row.clientId)
  /\ w.pc = "adopting" =>
       /\ w.row \in Row /\ w.row.id \notin Keys \ {Primary}
       /\ \A row \in clients : row.id = w.row.id => Sole(clients, row)
  /\ w.pc = "mint" => \A row \in clients : row.id \in Keys
  /\ \A i \in DOMAIN w.ensured : Registered(clients, w.ensured[i].key, w.ensured[i].clientId)

StoreInv ==
  /\ StoreTypeOK /\ OneRowEach(disk.clients)
  /\ \A p \in Procs : Underway(work[p], disk.clients)
  /\ \A issued \in told : KnownAs(disk.clients, issued[1], issued[2])

\* What a boot cannot settle by itself: a newer file, an older one whose people
\* collapse or whose rows belong to nobody, a fixture that names one twice, a
\* client without a secret, rows nobody is configured for beside a client that is
\* missing.
NeedsAHuman ==
  LET adopted == IF Found(Primary) = {} THEN Held(disk.clients) ELSE {} IN
  \/ disk.version > SchemaVersion
  \/ disk.version \in 0..SchemaVersion - 1 /\ ~Upgradable(disk)
  \/ disk.version = NoSchema /\ ~MayInsert({})
  \/ \E row \in (disk.clients \ Strangers) \cup adopted : row.secret.form = "none"
  \/ /\ Strangers \ adopted # {}
     /\ \E key \in Keys : Found(key) = {} /\ (key = Primary => adopted = {})

\* A file of this build with somebody in it, each once whatever the case.
Peopled == disk.people # {} /\ disk.people = Folded(disk.people)

\* The service comes up with its people, and again after every failure, beside
\* whatever runs in the shell, unless a person has to decide something about
\* its file: no throw or crash leaves tables that the next boot takes for a
\* database nobody can sign in to.
ServesUnlessAHumanMustAct == <>[](Serves("service") /\ Peopled) \/ <>[]NeedsAHuman
=============================================================================
