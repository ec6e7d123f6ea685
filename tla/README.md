# A verification development for mastra-contextual-governance

The repository is a demonstration bank whose AI agent is governed from outside:
every tool call passes a hook server that may deny it, a denial may be lifted by
an approval somebody else gives, and every decision is recorded and streamed to a
panel. These modules model the parts in which the order of events matters. TLC
checks them on small instances; TLAPS proves the main safety properties for every
value of their constants. `PROJECT.json` maps every definition to the source lines
it stands for; all paths below are under `src/`.

## The system

| part | state it keeps | operations | talks to |
|---|---|---|---|
| Hook server, `apps/hooks/src/server.ts`, `handlers.ts` | none of its own | `/access`, `/pre`, `/post`, `/health`, with a time budget, failing closed | all of the below, in process |
| Approval store, `approvals-store.ts`, `grants-store.ts`, `approval-governance.ts`, `approvals-api.ts` | `approval_requests`, `grants` in governance.db | create, decide, mint, activate, void, select, consume | written by the toolkit over HTTP and by `/pre` |
| Grant checker, `packages/governance-core/src/grant-checker.ts` | pure | ten checks, `selectGrant`, `consumeGrant` | called by `/pre` |
| Policy store and cache, `policy-store.ts`, `policy-cache.ts`, `policy-recovery.ts`, `fixture-drift.ts` | policy tables, `policy_revision`; compiled policy in memory | seed, upgrade, poll, reload, compare, reset, recover at boot | an operator's `sqlite3` shell edits the same file |
| Audit log and stream, `audit-log.ts`, `events.ts`, `event-bus.ts`, `apps/web/lib/governance/subscribe.ts` | `audit_log`, one queue per connection; the panel's last id | record, publish, replay, disconnect, resume | hook server to browser, over SSE |
| The wait, `apps/web/components/chat/Chat.tsx`, `lib/agent/resume.ts`, `lib/governance/approval-stream.ts` | the refs of one browser tab | prompt, turn, notice, reconnect, check, resume, change of persona | chat route, SSE, status route |
| Policy and redaction engines, `packages/governance-core/src/policy-engine.ts`, `redaction-engine.ts` | pure | compile, evaluate, redact | called by `/access`, `/pre`, `/post` |
| Agent turn, `apps/web/lib/agent` | one turn: its stream, its wrapped tools, what was shown | list tools, plan a resume, run, escalate, read the chunks | model, gateway, chat component |
| Identity of the browser, `apps/web/lib/identity`, `lib/loan-context` | a sealed cookie in chunks | sign in, authorize the gateway, confirm, renew, drop a refused bearer | identity provider, gateway, Arcade |
| Approvals toolkit, `tools/approvals` | none | `RequestApproval`, `Decide`, a Slack message | approval store, Slack |
| Loan application, `apps/loan-app`, and `tools/loan` | `loans.db`; who a bearer was, for a minute | read, decide a loan, reset | called with the person's token; asks the identity provider |
| Identity provider, `apps/idp` | Better Auth's tables and the OAuth clients in idp.db | boot, register, rotate, sign in, code exchange, reset | web application, loan application, Arcade |
| Reset script and button, `scripts/reset.ts`, `apps/web/lib/governance/control-plane.ts` | none | reset three services in turn, or one | their `/admin/reset` |

What is hard about it, and where each difficulty is taken up, is the list
`hazards` of `PROJECT.json`. The main ones:

- `/pre` decides *before* the tool runs and the tool's write arrives later over
  HTTP, or never, or again. What was checked and what is recorded are two steps.
- A handler that has written may still answer a denial (budget, audit failure,
  lost response).
- governance.db is edited by hand while the process serves from memory.
- The audit stream must neither repeat nor silently skip a row across lost
  connections, slow readers, resets and restarts.
- An approval is announced once, on a live stream, to a tab that may be in the
  middle of a turn, disconnected, or signed in as somebody else by then.

## Modules

| module | models | proofs |
|---|---|---|
| `GrantChecker` | the checks of a grant, selection and consumption, as operators | used by both below |
| `GrantSelection` (`MCGrantSelection`) | a run of calls against a person's rows, whatever the rows hold | `Grants_proofs` |
| `ApprovalGrants` (`MCApprovalGrants`) | requests, grants, `/pre` and the store's decision endpoint | `Grants_proofs` |
| `ApprovalAuthority` | the abstract promise of the approval flow | refined by `ApprovalGrants` |
| `PolicyCache` (`MCPolicyCache`) | the policy rows, the cache, the poller, reset, boot recovery | `Policy_proofs` |
| `PolicyEngine` | compiling a table of rules and deciding one call, as operators | used by `PolicyDecisions` |
| `PolicyDecisions` (`MCPolicyDecisions`) | decisions on what was compiled last, rows in any order | `Policy_proofs` |
| `Redaction` | compiling output rules and redacting a payload, as operators | |
| `HookServer` (`MCHookServer`) | calls of the three hooks from first byte to answer, over `Redaction` | `HookServer_proofs` |
| `EventStream` | the audit log, one connection of `/events`, one panel | `EventStream_proofs` |
| `ApprovalWait` | one browser tab: its turns, the notices, status checks, changes of persona | `Web_proofs` |
| `SignIn` (`MCSignIn`) | one browser's cookies and the requests that read and write them | `Web_proofs` |
| `LoanBook` | the loan application over loans.db | in `AgentTurn_proofs` |
| `AgentTurn` (`MCAgentTurn`) | one turn, its toolkits and the gateway, over `LoanBook` | `AgentTurn_proofs` |
| `IdentityStore` (`MCIdentityStore`) | idp.db and the processes that open it | `Idp_proofs` |
| `TokenEndpoint` (`MCTokenEndpoint`) | code exchange, its replays and its doubled credentials | `Idp_proofs` |
| `CodePromise` | the abstract promise of an authorization code | refined by `TokenEndpoint` |
| `GovernanceFile` | governance.db: seeding and upgrading it through crashes | in `DemoReset_proofs` |
| `DemoReset` (`MCDemoReset`) | the reset command and button over a network, over `GovernanceFile` | `DemoReset_proofs` |

### ApprovalGrants

`requests` and `grants` are the two tables. `posts` is what Decide runs were let
through to record: the set only grows, so a decision may reach the store late,
twice, or not at all, without an action for each. `lifts` records, by request, the
over-authority calls that were answered OK; it is what a reader would count in the
loan book. Each handler is synchronous over SQLite, so each is one step:
`RequestApproval` (the toolkit's POST, `CreateApproval` and who may be asked),
`PreDecide` (the four `pre.decide-*` rules, `grantFrom`, `insertGrant` with its unique
index), `Decide` (the compare-and-swap, `RecordDecision` with the activation or voiding
it commits with, or `RefuseDecision`), `PreApproveLoan`
(`grantsFor`, `whyUnusable`, `selectGrant`, `consumeGrant` and its write back),
`DemoReset`, and `Tick`. The parameter `answered` is FALSE when the handler's writes
stand and the caller hears a denial or nothing. Accounts are user ids as they come
on a payload; `Owner` maps one to the roster's spelling, which is what makes a
person with two spellings a case of the model, and `FindSubject` is the lookup `/pre`
does before it reads grants. `ApprovalStands` is the converse of the two limits
`SingleUse` and `LiftedAsApproved`: an approval that is unused and within its lifetime
lets its call through, in whichever spelling the requester calls, whatever other rows
lie before it. A call within the caller's own
authority is not a step: it spends nothing and changes nothing modelled.

`ApprovalAuthority` says what the flow is for without grants: a request is settled
once by another person with the authority, exercised at most once by the requester
within what was approved, and gone after a reset. `ImplementsAuthority` is
`Authority!Spec` under the identity mapping on the shared variables.

### GrantChecker and GrantSelection

The checks are predicates in the order of `CHECKS`, and `FirstRejection` is the
reason the code reports. A pinned amount that does not parse, a ceiling that is not
a number and a window that is not a date are values of their own, because the code
treats them as reasons to reject. `GrantSelection` starts from rows a schema-valid
record may hold, issued by hand or by the flow, rather than from `grantFrom`'s.

### PolicyCache

A policy is a function from tables to contents; `Parsing` and `Compiling` say which
ones the schema and the compilers accept. The process is one thread, but the shell
commits between any two of its statements, so a reload is one step per table
compared and one for the read transaction (`CompareTable`, `ReadPolicy`), with
`CompareThrows` and `ReadPolicyThrows` for reads that fail. `Poll` and `PollThrows`
are a tick; `Edit` is the shell; `Restart`, `RecoverReplaces`, `RecoverThrows` and
`RecoverNothing` are a boot. `staleTicks` and `disturbed` only observe.

### PolicyEngine and PolicyDecisions

`PolicyEngine` is `policy-engine.ts` with `subjects.ts`: what `compilePolicy`
refuses (`CatalogueCompiles`, `ReferencesServed`, `CheckReason`, `CheckCondition` and
the rest), the order it leaves the rules in (`Sorted`), and `decide` (`FailsClosed`,
`Speaks`, `RuleDecides`). The scan of a reason is abstracted to what it finds, and
`because` names the sentence a decision carries. Values that TLC cannot compare with
each other are kept apart: `members` is the list of `in` and the language of
`matches`, `value` everything else. `PolicyDecisions` loads a table, whole or not at
all, and states what is true of every answer to every call. `GrantsOnlyLift` compares
a call with itself without grants, as `decidePre` does to find out whether a grant was
decisive and its use is to be spent.

### EventStream

`log` and `seq` are `audit_log` and its autoincrement; `stream` is the closure of
one `handleEvents` call (queue, overflow flag, replay window, last row sent);
`wire` is what the socket holds; `panel` is the client with what it has rendered.
`Record` inserts a row and publishes it, `Connect` is the request with its
`Last-Event-ID` up to the answer's headers, `Pull*` and `KeepAlive` are the writer,
`Read` and `SeeEnd` the client's reader. `announced` holds the rows a gap was
announced for, and those the client asked not to see by connecting where it did;
`leaked` counts subscriptions of streams that closed themselves.

### ApprovalWait

`page` holds the refs of the Chat component, `turns` every turn posted to the chat
route with the generation that posted it, `store` the control plane's record,
`wire` the notices written to a connection and not read, and `checks` the status
requests under way. What runs between two awaits is one step: `End` is the commit
of a turn that ended, its `finally` and the resume it may start, all before anything
else can run. A turn whose generation has passed may still raise a request on the
server and still ends, and must leave the page alone. `Raise` with `seen` FALSE is a
request that was recorded by a tool call that then failed.

### Redaction and HookServer

A payload is a function from the paths of its strings to the strings, a string a
sequence of words, and a regular expression the words it matches with the word it must
see after them: enough for one replacement to complete what another pattern matches,
which is what the repeated passes are for. `Redact` applies fields, then patterns,
until a pass changes nothing or the limit is reached, and keeps the account of what it
removed. `HookServer` follows a call through its one await, the body, raced by the
budget's timer (`TimerFires`); what comes after (`Evaluate`, the rows, the answer,
`FailClosed` and the rows it writes in their place) is one synchronous step with its
failures as parameters, because nothing else runs in between. The policy in memory may
load, change or fail to load while a body is read. `/access` and `/pre` ask the catalogue
whether a tool is served; `/post` does not, and passes the output of a tool no rule
matches as it came.

### SignIn

The server keeps nothing, so the state is the browser: `cookies` by name, the requests
under way with the cookies they were *sent* with, and the providers' own state. An
answer changes the cookies of the moment it arrives. `WriteSession` splits a session
into chunks and clears the chunks a longer one left behind. A code, a refresh token and
a flow are good once at the party that issued them; a spent refresh token revokes its
family, which is why who may renew is a question. A page that reads the loan book
presents the bearer it holds even when its renewal was refused, and leaves it to the
loan book to decide. Actions are named for the handlers.

### LoanBook and AgentTurn

`LoanBook` is a request from arrival through `actorFromRequest` (the answer remembered
for `RESOLUTION_TTL_MS`, for reads alone) to its row, with restarts, resets and
revocations in between. `AgentTurn` composes it with a turn: the agent loop asks for
several calls in a step and dispatches each when it likes; the gateway refuses,
challenges, elicits, runs or loses a call while its toolkit goes on; `ClosedBy` shuts
the wrapped tools when a call's result shows an approval was requested; the reader
turns chunks into `cards`, what the person sees. `IsHookDecision` reads an error's text:
every refusal of `apps/hooks` ends in its `[ref evt_...]` mark and no other error of the
model carries one, so the model takes the kind of the error for what the text says.
A `/post` that fails keeps a loan's answer, or the id of a request, from the model.
The agent loop and the gateway are
libraries and services, external, as `run.ts` and `escalation.ts` use them.

### IdentityStore, TokenEndpoint and CodePromise

`IdentityStore` is idp.db with up to two processes (the service's boot, and a person
running `oauth-client`, its `--rotate`, or a reset) each going statement by statement
through schema, people and clients; `MintClient` loses the race to a row that is there.
An upgrade that finds two people in one, or rows that belong to nobody (`orphans`),
rolls back; a row without a stored secret stops the boot that reconciles it.
`TokenEndpoint` is the exchange as the wrapper around Better Auth sees it: pairs in the
header and the body, the verification row consumed, two tokens minted, and for a code
that cannot be consumed the library's deletion, table by table, each let through or
not by `IsReplayRevocation` after a count that another exchange may overtake.
`CodePromise` says what a code is worth without tables; `ImplementsCodePromise` is
`Promise!Spec` under the mapping `Standing` and `Redeemer`.

### GovernanceFile and DemoReset

`file` has the version, tables, audit columns and cast of governance.db, and where
payload bytes are left: `rows` written by an old build, `free` pages, the write-ahead
`log`. A boot is `Open`, then `Seed`, or `Upgrade`, `Vacuum`, `Checkpoint` and `Stamp`;
it may be killed or locked out between any two, and is started again. `Files` are what
builds since the first may have left, finished or not. `DemoReset` adds the command
(`Start`, `Send`, `Line`, `GiveUp`, `Throw`, `Verdict`) and the panel's button
(`Press`, `Told`), whose requests are served, refused or lost at any later time;
`held` says, by caller, what still stands as it did when the caller began.

## Runs

| run | shows | bounds |
|---|---|---|
| `approvals` | six properties of the flow, 0.75 million states | two requests at once, two resources, three accounts of two people (one in two spellings), amounts at, between and above two authorities and an approval, a lifetime of 2 in 0..2 so that a grant is used before, and tried at, its end; requests and resources are interchangeable |
| `grant_selection` | one property of selection | every record over small fields, alone and in front of a valid row; calls with and without each input |
| `policy_cache` | five properties of the cache | two tables (a second is what lets a comparison straddle a commit), two edits, three faults against a limit of two, one restart |
| `policy_decisions` | three properties of the engine | 2695 tables: one rule filled in every way over two hooks, four matchers, two subject matchers, six lists of conditions, seven reasons, beside a plain one, and tables with ties, duplicates, a modify rule, an empty band or a bad catalogue; 63 calls, known and unknown, complete, incomplete and of the wrong type, with and without a grant |
| `hook_server` | five properties of a call | two calls at once, every hook, policies that load, change and fail to load, rules whose output other rules match, a person on and off the roster, a `/post` of a tool no catalogue serves |
| `event_stream` | three properties of the stream | five rows, a backlog of 2, chunks of 2, two lost connections or restarts, one reset: overflow, replay in pages, and a replay window that a reset empties all occur |
| `approval_wait` | four properties of the wait | two prompts and two requests, one lost connection, one failed turn or check, one change of persona |
| `sign_in` | three properties of the cookie and its tokens, 0.58 million states | two people, three requests of any kind, two under way at once, sessions of one and two chunks, one renewal of a family; the requests are interchangeable |
| `agent_turn` | three properties of a turn, 3.8 million states | two calls in parallel of three tools, one fault, one tick against a lifetime of one, one restart, reset or revocation |
| `identity_store` | two properties of idp.db, 0.27 million states | ten files: none, of this build, newer, older with a client of no key whose secret is readable, undecryptable, hashed or missing, with two such clients, with orphaned rows, with people in two cases, with a secondary client alone; two configured keys, two people (or a fixture that names one twice), two shells beside the boot, one crash |
| `token_endpoint` | two properties of the exchange, 0.53 million states | one code; one request that may send any of some 1100 combinations of credentials beside one that sends what Arcade was measured to send, each at any time, one reset |
| `demo_reset` | three properties of the file and its resets, 0.83 million states | six files (empty; unversioned with payload columns and a table missing; unversioned with the policy alone; at version 2; at version 3 before its sweep; newer), two boots killed, one shell that reads or locks, one run of the command beside one press |

A second request, a second table, a second call and a second process are in each case
what the property needs to be broken, as the mutants of `PROJECT.json` show: each
property fails under its run's own bounds for a plausible bug.

`CHECK_DEADLOCK FALSE` is set where the bounds stop the system: prompts, drops,
switches and calls run out and nothing has to happen next.

## What the code does otherwise than it says

Met while modelling, each reproduced by a run at the time; none of the properties
above assumes them away (they are in the models, and the properties hold in spite of
them).

- `handlers.ts:278` says no path leaves a grant for a decision that was refused; the
  budget and the audit row come after `evaluate()`, which has minted it.
- `approval-governance.ts:109` and `README.md:682` say a case difference is not two
  people; the grant keeps the payload's spelling and `grantsFor` joins on the roster's.
  `ApprovalStands` speaks, by name, only of a request made in the roster's spelling.
- `events.test.ts:686` and `server.ts:388` have health count the clients watching; a
  stream that overflows closes itself and never unsubscribes.
- `policy-recovery.ts:23`: an edit that compiles is replaced at boot when the load
  failed for a passing reason.
- `policy-engine.ts:207`: an `access` rule may quote an argument, and `/access` has none.
- `Chat.tsx:581`: a decision is lost when an earlier card is still held while the
  second request is raised.
- `redaction-engine.ts`: two rules that mask one path with different markers compile,
  and each pass writes a new object, so the limit that is "unreachable for any policy
  that compiles" is reached and the payload is withheld.
- `identity/handlers.ts`: the gateway leg is bound to the browser, not to the person;
  an authorization begun as one person can end in the session of the next.
- `escalation.ts`: the escalation tool's own wrapper does not look at `state.closed`,
  so a second `RequestApproval` of the same step reaches the gateway after the turn
  was shut; `NothingGovernedAfterTheEnd` speaks of every other tool.
- `replay-tolerance.ts:2` refuses "without destroying anything"; the count and the
  deletion are two awaits, and tokens minted between them are deleted. `CodePromise`
  therefore promises only tokens that have settled.
- `client.ts`: a boot that migrates a legacy secret overwrites a concurrent
  `--rotate`; `OneRegistration` speaks of client ids.
- `scripts/reset.ts`: a hard run says "unchanged" of client ids whose first reading
  failed; a body that is not JSON throws away the verdict on the remaining services;
  the command's own comment says an identity failure means "stop", and it goes on.
- `policy-store.ts:470`: a checkpoint another connection holds up throws nothing, so
  version 4 may be stamped with payload still in the log (`log = "kept"`, excepted by
  name in `StampMeansDone`).
- `actor.ts`: a slow good answer after a refusal is remembered although the token was
  revoked meanwhile; `NamedWhileVouched` holds because the lifetime starts at asking.

## Fairness

- `ApprovalGrants`, `GrantSelection`, `PolicyDecisions`, `SignIn`, `TokenEndpoint`,
  `AgentTurn`: none, only safety is claimed.
- `PolicyCache`: weak fairness of the process's own steps. The poller is a
  `setInterval` and its body is synchronous, so a tick that is due happens. Edits,
  faults and restarts are never obliged to happen, and are bounded: `Settles` says
  what follows when they stop.
- `EventStream`: weak fairness of the writer (the runtime calls `pull` while the
  socket has room), of the client's reader and of its endless reconnect loop. Lost
  connections are bounded.
- `ApprovalWait`: weak fairness of the subscription loop (it retries until aborted),
  of reading a notice, of the route starting a turn, of a turn's end (each tool call
  has a timeout, and a failure is an end), and of a status check's answer. Nobody
  has to prompt, decide, raise or switch.
- `HookServer`: the budget's timer fires, for each call (`setTimeout` in one process).
  Bodies need not arrive. `EveryCallAnswered` follows from the timer alone.
- `IdentityStore`: weak fairness of a boot's own steps and of its start: Render starts
  a service that exits. Shells owe nothing. `ServesUnlessAHumanMustAct` excepts the
  files the code itself asks a person to repair (`NeedsAHuman`): newer files, people
  that collapse, orphaned rows, a missing secret, strangers beside a missing client.
- `DemoReset`: weak fairness of a boot's steps, for the same reason. People, shells
  and the network owe nothing, so `ComesUp` excepts a lock that is never let go.

## What is proved

All theorems hold for every value of the constants that satisfies the named
assumptions of the module (`AccountsAssumption` and `WildcardAssumption`,
`GrantsAssumption`, `PolicyAssumption` and `BoundsAssumption`, `TablesAssumption`,
`WaitAssumption`, `LimitsAssumption`, `FilesAssumption` and `NullAssumption`,
`TokenEndpointAssumption`, `StoreAssumption`, `LoanBookAssumption` and `AgentTurnAssumption`,
`HookAssumption`, `SignInAssumption`): any number of people, spellings, requests, tables, rules, turns, calls
and faults, where the runs fix two or three. They say what the configurations are: that
a TTL is a positive number, that a bound is one, that a call of `/pre` is about one tool.
TLC evaluates the assumptions on the runs' constants.

**Grants_proofs, the flow.** All properties of the run, including the refinement, and
that a decision once recorded is final.
None is inductive by itself; `IInv` adds five facts. `RequestsComplete`: a row has
the columns its status implies. `GrantsAsRequested`: a grant carries the stored
request's fields, and is not younger than the decision it waited for; with the
half-open window this is what bounds a lifted call by the decision plus a lifetime.
`PostsAuthorised`: a decision on its way was allowed by `/pre` on facts that cannot
change, and an approval on its way has its pending grant in the table; without it
the store endpoint, which checks neither authority nor separation of duties, could
record anything. `LiftsSpendTheGrant`: a call that was let through is a use gone from
the only grant of that request, which with `OneGrantPerRequest` gives `SingleUse`.
`GrantsStand`: a grant is of two people, and only a voided one is revoked. With it an
approval's unspent grant passes each of the ten checks for the call it is for
(`UnspentApprovalIsValid`), and a row that authorises means that one is selected
(`LeastExists`): that is `ApprovalStands`.

**Grants_proofs, selection.** The run's property, and that uses bound calls. Uses left
plus calls accepted never exceed the uses issued, row by row, and every field but
`uses_remaining` is the issued one, so what a selected row authorises is what it was
issued for.

**Policy_proofs, the cache.** The four safety properties. `ServesTheRevision` is inductive
with the type invariant, because a policy change always moves the revision.
`StaleTicksFailed` ties the ticks spent on rows that are gone to the failures
counted since. `BootUndisturbed` follows an undisturbed boot through its
comparison, read, recovery and second read; it is what `BootRecovers` and
`RecoveryIsNarrow` need.

**Policy_proofs, the engine.** The three properties, from the invariant that a policy is
what its table compiled to. The sort is the hard part: `Place` counts the enabled rows
at or before a row, a strictly larger set for a later row (`PlaceIncreases`), so it is
injective into as many places as there are rows and fills each (`PlacesFilledOnce`).
`MatchedIsChecked` ties compile time to a call: a served tool a rule matches is among
those its checks quantified over, so an argument it quotes or reads is one the call
had to carry or could.

**Web_proofs, the wait.** The four safety properties, for any number of people,
requests, turns, lost connections and switches. They hold each other up and need
four more facts. `TurnsOfTheirTime`: a turn of the page's generation acts as the
person signed in. `RaisedByOneTurn`: a request a streaming turn has raised is stored
as that person's, held by no card and resumed by no turn yet, so committing it as
the card is safe. `HeldIsOurs`: the card is this person's and nothing was posted for
it, which is why taking it before posting gives `ResumedOnce`. `WordOfADecision`:
everything that reports a decision (queue, remembered notice, wire, check) reports a
true one, because decisions are final. A resume may start from a page half way
through its `finally`, so the part of the invariant about page and turns is stated of
any pair (`Coherent`), and `ResumeCoherent` and `ReleasedCoherent` are proved once.

**Web_proofs, the sign-in.** `AuthorizedAsItsOwner`, `SignInSurvives` and `SealTakes`,
for any people, requests, flows and lost answers. What a response does to the session is
one of three things, `Leaves`, `Clears` and `Writes`, and the lemmas about `WriteSession`
and `ClearSession` (`WritesWhole`, `ClearsWhole`) say that over the cookies a request
carried nothing of an older, longer session is left. `Faithful` keeps that of an answer
on its way, and `AloneIsAlone` says the browser still holds what a request served alone
has read; together they are `SealTakes`. `SignInSurvives` needs `Undisturbed`: until two
requests overlap or an answer is lost, the token about to be renewed, in the browser or
in the answer that replaces it, is the next one its grant takes. The two halves of
`Undisturbed` are why `Replaces` is there: between a renewal and its answer the browser
holds a spent token. Each handler is then one of four kinds of step: sent, going on
(`ProceedsWith`), answered (`RespondKeeps`, `RespondQuietly`) or over (`OverIs`). The
types say that a bearer is held only of a grant that was given, so `Refreshable` and
`MayRenew` never look at one that is not there.

**DemoReset_proofs.** `StampMeansDone` and `OkMeansReset`, for any files builds may
have left, any number of crashes, shells, runs and presses. `FileInv` says of each step
of a boot what is already true of the file: from the version found, which migrations
are owed and which columns, pages and log bytes are gone; a stamp is then the last of
them. `RunInv` and `PressInv` tie a caller to its request: a request on its way in a
caller's name is for the service it waits for, an answer is there only after the
service was reset or refused, and what a run left unreset is still to do or among the
failed. A request a caller gave up on is in nobody's name and can only reset more.

**EventStream_proofs.** `InOrderNothingTwice` and `NoSilentGap`, for any limits, rows,
resets, lost connections and restarts. `Feed` is what the panel shows followed by what
is on the wire; `StreamInv` says that all an open stream is still to send (`Ahead`: its
replay window and its queue) is above the feed, and that every row ever recorded is in
the feed, ahead, or accounted for, unless the queue overflowed, after which nothing is
sent. `LogInv` accounts for rows the log has lost, which is what makes a reconnect with
an id the log cannot place sound. `ReceivedIs` shows that losing the wire leaves a feed
as good. The page queries rest on `AscendingExists`, by least counterexample, since
induction is out of reach.

**Idp_proofs, the endpoint.** `NoSecondIdentity` and the refinement `ImplementsCodePromise`,
for any requests, credentials and codes. `Vouched` carries an authentication from the
pairs as they were sent, through `Forwarded`, to the rows of the tables: whoever is past
the wrapper named the registered client everywhere. `CodeBooks` says what the token rows
of a code can be given where its verification row stands, and `ConsumedOnce` that one
request at most consumed it, so that a mint is the redemption `CodePromise` allows and a
deletion, which the replay guard let through on a count taken earlier, finds tokens that
have not settled. Every action is then shown to be a step of the promise or a stutter.

**Idp_proofs, the file.** `OneRegistration`, for any configuration, any file builds may
have left, any number of shells, resets and crashes. The assumption on the files is that
`id` is the primary key and that the name Arcade is registered under goes with the primary
key, or with rows that have no key yet (`OneRowEach`); that of the configuration is that
no other client's display name is the primary one's. `Underway` says what a process
still holds true of the file while others write it: the row it is about to adopt is the
only one of the name, or has been adopted by another process; nobody mints while a
stranger's row is there; what it read of a client's id stands. Each statement does one of
three things to the rows (`RewriteGrows`, `AdoptGrows`, `MintGrows`), and `Grows` is what
the three have in common and all that the other processes rely on.

**AgentTurn_proofs.** `NamedWhileVouched`, `ShownIsTrue` and
`NothingGovernedAfterTheEnd`, for any number of calls, faults, restarts and revocations.
`LoanInv` is about the bank: an answer it remembers is no older than the last time its
token was good (`Remembrance`), nor is the provider's word on its way (`WordIsTimely`),
and what a decision wrote stands until a reset (`DecisionsStand`). `TurnInv` follows each
call from asked to reported: what its stage implies of the gateway, the toolkit and the
chunk that will report it (`Progress`), what its job implies of the row or the request it
is about (`Work`), that each chunk on the way says no more than that (`Truthful`), and
that a card on the screen waits on what is recorded and told (`CardsStand`). Since the
gateway may lose an answer while the toolkit goes on, none of this follows from the stages
of one party alone.

**HookServer_proofs.** `LogAccountsForAnswers` and `OnlyByLoadedPolicy`, for any calls,
bodies and policies. Whatever rows a step appends, they `Account` for the answer it
sends: for `/access` because `SetToSeq` lists every governed tool once
(`AccessRowsAccount`), for the others because there is one row. `Unsettled` says an
unanswered call has no row yet, so a call has the rows of one step only. The second
property needs only that a step that answers is one of four (`OnlyAnswersLet`); trying
to prove it in its first form, which had every tool let through be in the catalogue,
showed that `/post` never asks.

Only model-checked: the liveness properties `Settles`, `CatchesUp`,
`DecisionReachesTheTurn`, `EveryCallAnswered`, `ServesUnlessAHumanMustAct` and
`ComesUp` (liveness under fairness is out of the prover's reach), `ReleasedIsRedacted` and
`AccountIsTrue` (`Redact` is a fold over passes, so what it leaves behind is an induction
over data).

## Not modelled, and why

- Texts that happen to carry a denial's mark without being one.
- The text of denials, remediation, Slack messages and cards; HTTP shapes; logging.
- The regular expressions of redaction: what they match is a choice of words.
- Better Auth, Mastra, Arcade's gateway and the model: libraries and services. What
  they can do (call a tool late, twice or never, consume a code, mint and delete
  tokens) is in the models, marked external. The identity provider's sliding rate
  limiter and its login pages are not.
- `apps/web/scripts/gateway-stand-in.ts` and `docs/spikes`: a stand-in for a gateway
  used by hand, and evidence scripts; neither runs in the system.
- The user interface beyond the refs that decide whether a turn is resumed: timeline,
  grouping and pages render events and keep no state another part reads.
- More than one browser tab: two tabs of one person each resume their own card.
- The choice among approvers (`approver-router.ts`): any eligible one may be chosen.
