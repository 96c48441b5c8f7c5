# RemoteCommander: specifications, model checking and proofs

RemoteCommander lets a language model administer Linux servers over ssh. The
desktop application (Tauri: a Rust core, a React interface) stands between the
model and the servers: every tool call the model proposes is evaluated by a
policy engine, possibly confirmed by the user, executed, and audited. A smaller
web edition runs the same idea in a Node server. This directory holds TLA+
modules of that machinery, the TLC configurations that check them on small
instances, and TLAPS proofs of the theorems that matter most.

All Rust files are under `src/apps/desktop/src-tauri/src/`; the desktop
interface under `src/apps/desktop/src/`; the web server under
`src/apps/web/src/server/`, its browser part under `src/apps/web/src/client/`;
the model's client library under `src/packages/ai-core/src/`.

## 1. The system's parts

| Part | State it keeps | Operations | Hard behaviour | What makes it correct |
|---|---|---|---|---|
| Policy engine `policy.rs` | none | `evaluate_policy`, two command scanners | rules tried in order, some permissive | a more dangerous request never gets a laxer decision |
| Approval manager `approval.rs` | map of staged approvals (memory) | `evaluate_and_stage`, `submit_approval`, `list_pending` | concurrent submissions, expiry, retries after a wrong confirmation, statements without a transaction, restarts | no effect without consent, one effect per consent, one verdict, truthful records |
| Database `database.rs`, `migrations/` | SQLite tables | statements, migrations | errors between statements, ids that repeat, crash in a migration | foreign keys hold; a migration can be repeated |
| Tool executors `tools.rs` | none | one per tool | `.output()` without a timeout; managers built afresh for each call | a tool answers, fails, or returns `Err` |
| Safety manager `safety/mod.rs` | backups (memory), Full Access timer | backup, safe patch, restore, sessions | failure of each step, truncated reads, same-second paths, restart | the original can be recovered at each step |
| SFTP manager `sftp/mod.rs` | mock tree (memory) | list, read, write, delete, rename, chmod | a check and a copy in one remote command | no overwrite without the backup asked for |
| Multi-server manager `multi_server/mod.rs` | none | resolve, evaluate, execute a batch | a thread per server, panics | every target has a result |
| SSH transport, known hosts `ssh/` | known_hosts file, status of each server | probe, verify, accept, reconnect | a changed key, an accepted key | a changed key never passes for a known one |
| Terminal manager `terminal/mod.rs`, `views/TerminalView.tsx` | PTY sessions with ring buffers, a poll cursor | start, input, read, resize, interrupt, terminate | reader thread, polls answered late | what the screen shows is what the child wrote |
| Secret service `secret.rs` | OS keyring, table of metadata | save, read, delete | two stores without a transaction | neither has what the other lacks |
| Updater `updater.rs` | metadata | check, verify | none concurrent | version order |
| Server operations, cPanel `server_ops/`, `cpanel/` | none | one remote command each | text processing | stateless |
| Orchestrator, providers `ai-core` | messages of a turn | stream, tool calls, fallback, abort | user abort, provider failure, a stop for an approval | every call gets one result |
| Desktop bridge `bridge.ts` | the page's own stores | one function per command, falling back to the page when the command throws | backend errors taken for a missing backend | what the page acknowledges in the core's stead is not shown as stored |
| Desktop shell and views `App.tsx`, `views/` | servers, mode, forms, dialogs, turns under way | everything the operator clicks; answers that come later | answers to a view that has moved on or is gone | replies, tools, files, credentials and window actions reach what they were meant for |
| Web server `sessions.ts`, `chat.ts`, `index.ts` | session files, index | routes, agent loop, stream | delayed requests, a crash or an error between two files | the list shows the sessions that nothing went wrong with; each request to the provider is complete |
| Web client `ChatView.tsx` | sessions, the active one, a running send | send, switch, delete, refresh | deltas, timers and answers that arrive after a switch | an answer stays in its conversation, whole; the form comes back |

How they interact: the chat view runs the orchestrator, whose tool executor
calls `evaluate_and_execute_tool` over IPC (`commands.rs:173`). The approval
manager resolves the target server in the database, asks the policy engine,
writes the audit trail, and either calls the tool registry, denies, or stages
the request and returns the approval to the view, which shows a dialog and
calls `submit_approval`. Executors reach servers by running the ssh binary or
through the SFTP, safety, multi-server, cPanel and server-operation services.
The terminal and file views call those services directly; the batch dialog asks
for its targets and its policy, and does not get further.

## 2. Modules

| Module | Models | Kind |
|---|---|---|
| `PolicyEngine` | `policy.rs` as a function | pure operators |
| `PolicyTightening` | a request tightened step by step | state machine over `PolicyEngine` |
| `ApprovalManager` | `approval.rs` with the tables it writes | state machine |
| `ApprovalInvariant` | the inductive invariant `Inv`, and three more under their own assumptions | predicates |
| `ApprovalGate` | what the approval manager promises the user | abstract specification |
| `ApprovalRefinement` | the mapping from tables to the gate | `INSTANCE ... WITH` |
| `FileSafety` | `safety/mod.rs` over the remote files of `sftp/mod.rs` | state machine |
| `HostKeys` | the probe and `known_hosts` (`ssh/`), the dialogs around them | state machine |
| `Orchestrator` | one turn of `orchestrator.ts` | state machine |
| `BatchExecution` | `multi_server/mod.rs` and the batch dialog of `ServersView.tsx` | state machine |
| `BatchPromise` | what a batch promises about each of its servers | abstract specification |
| `BatchRefinement` | the mapping from the engine's lists and threads to the promise | `INSTANCE ... WITH` |
| `WebSessions` | the session store of `sessions.ts` | pure operators |
| `WebChat` | the web `ChatView.tsx`, the routes and the agent loop behind it | state machine over `WebSessions` |
| `WebChatInvariant` | the inductive invariant `WebInv` | predicates |
| `Registry` | the tools of `registry.ts`, by group and risk | constants |
| `Bridge` | the functions of `bridge.ts` on a backend's state | pure operators |
| `MockTools` | what `bridge.ts` answers to tool calls in a browser | pure operators over `Bridge` |
| `DesktopCore` | calls in flight, answers, mounts: what the views share | state, helpers of actions |
| `ChatTab`, `FilesTab`, `TerminalTab`, `SettingsTab`, `ServersTab`, `ActivityTab` | one view each of the desktop interface | actions over `DesktopCore` |
| `Desktop` | `App.tsx`, header, navigation, and the six views together | state machine, the composition |
| `DesktopInvariant` | the inductive invariants `Base`, `Windows`, `Entries`, `AppTrue` | predicates |
| `MCApprovalManager`, `MCPolicy`, `MCFileSafety`, `MCHostKeys`, `MCOrchestrator`, `MCBatchExecution`, `MCWebChat`, `MCDesktop` | small instances | for TLC |
| `ApprovalManagerProofs`, `FileSafetyProofs`, `HostKeysProofs`, `OrchestratorProofs`, `BatchProofs`, `WebChatProofs`, `DesktopProofs`, `DesktopShownProofs` | theorems | for TLAPS |

A definition marked "Mutant" is a plausible bug in the one that follows it; no
specification uses it. Replacing the original by it must break a property.

### Policy engine

`EvaluatePolicy` follows the order of the rules in `policy.rs:166-367`: an
unresolved remote target is denied, a critical risk or a destructive text needs
a typed confirmation, an effective risk of READ_ONLY and the permissive modes
are automatic, the rest needs an approval. A shell command is abstracted to
what the two scanners see of it: the destructive patterns that match, whether
it redirects or substitutes, and the class of each of its segments. The scanner
that recognises diagnostics and the one that recognises destruction look at the
same text in different ways, and the order of the rules decides who wins.

### Approval manager

State and code:

| Variable | Code |
|---|---|
| `servers`, `toolCalls`, `approvals`, `audit` | tables of `migrations/001_initial_schema.sql` |
| `pending` | `ApprovalManager.pending`, a map behind a mutex (`approval.rs:65-80`) |
| `threads` | the local variables and the program counter of each handler under way |
| `now` | the wall clock, in ticks |
| `minted`, `issued`, `served`, `executions` | history, read by properties and bounds only |

Each statement on the database and each use of the map is one action, because
each takes its own mutex and no transaction spans two (`database.rs` locks the
connection per method). Reads and local computation before a statement are part
of the action that precedes it. `Evaluate` is validation, target resolution and
policy; then `AuditEvaluation`; then one of the three branches: `SaveExecuting`
and the execution, `SavePending`, `AuditRequested`, `Stage`, or `SaveRejected`,
`AuditDenied`. `SubmitApproval` takes the entry out of the map; `Decide` reads
the clock once and chooses among expiry, rejection and grant; `Reinsert` is the
answer to a wrong confirmation. `DbError` is the `?` after each statement,
`ExecuteErr` the `?` after the executor, `Restart` the loss of memory.

What is abstracted: audit events and approval rows carry the approval id, so
that properties can relate them (the columns of the tables do not); names of
servers do not change; texts, arguments and results are left out; the clock
ticks instead of counting 300 seconds.

Threads: Tauri runs commands that are not `async` one after another on the main
thread, and these are not `async`. The runs with one thread are therefore the
desktop build. The manager itself is built for more: its state is behind
mutexes and shared through `State`, and `src/docs/architecture.md` section 4 speaks
of concurrent operations. The runs with two threads, and the theorems, say what
holds when handlers do interleave.

### File safety

`fs` is the server's file system, or the mock tree for the two mock ids. The
first survives a restart of the application; the second is in memory, and
`Restart` seeds it anew (`SeedTree`) with its backups gone. `records` is the
list of backups, in memory, `command` the local variables of the command under
way. The list really begins with one sample record, without a file behind it
(`safety/mod.rs:120`); it is left out, since restoring it fails at the read.
The mock servers that the core recognises by name or address, beyond the two
seeded ids, share production01's tree until their first write and are left out
too. Commands are synchronous; each ssh
command is a step, so that it can fail and others can write between two steps.
`ReadOriginal` cuts the text at the 1,000,000 bytes of `read_file`; `Write`
adds the newline of the here document and, when ssh fails, leaves the file as
it was, garbled or written. `ExecuteSafePatch` goes through `ReadOriginal`,
`WriteBackup`, `WriteNew`, `Validate`, `Reload`; `GiveUp` enters the restore
that the user can also call. `Copy`, `CopyFailed`, `Store` are a save with a
backup on a live server, `WriteMockFile` on a mock one. `snapshots` is history:
each backup that was completed in the tree that is there, with what the file
held; on a mock server it ends with the tree.

### Host keys

`file` is `~/.ssh/known_hosts`, which the user's own ssh (`OwnSsh`) and
ssh-keygen (`Forget`) also write; `cache` and `audit` are tables; `server` are
the keys the machine at the address holds, which `Rekey` replaces. A probe
reads the file and resolves the alias (`TestConnection`), scans a key and
compares it (`FetchHostKey`), logs in with strict checking (`Login`,
`LoginFails`), and records (`RecordTest`). The user accepts the key shown
(`AcceptAndSave`), then cache and event follow (`RecordAcceptance`,
`SaveFails`). `trusted` and `once` are history: what the user, or the user's
ssh, trusts now and has ever trusted. The status REVOKED, which nothing
produces, is left out. A hashed line, or one that lists several names, is read
by this code as a host of its own, while ssh matches it: `hashed`.

### Orchestrator

`pc` is where `run()` stands: at the head of its loop, in a stream, before a
call of the answer, inside the executor, over. `Ask` starts a stream with the
active provider; `ToolCallDelta` collects calls; `StreamEnds` appends the
answer; `StreamFails` falls back to the next provider or ends the turn, and
`CancelledMidStream` is the abort seen between two chunks. `Execute` hands a
call to the executor, which answers, wants an approval, or throws; the three
append a result. `Abort` and `TimeOver` may come at every await. `ran` and
`fence` are history: the calls executed, and the iteration under way when the
user aborted. Texts, reasoning and callbacks for display are left out.

### Batch execution

The engine and the dialog share the table of servers and the core's attention,
and no more. In the engine, `ExecuteBatch` is a call of
`multi_server_execute_batch` or of the diagnostics matrix: it resolves the
targets, `SpawnChunk` starts a thread for each server of a chunk, `NodeAnswers`
and `NodePanics` end one, `Collect`, `AuditNode` and `Return` follow the join;
`SortById` is the sort of the results, in whose order their events are written.
The order in which servers fall into chunks is arbitrary. The engine asks for no
code. Its callers are whoever invokes the commands with the fields they have in
Rust, as the Rust tests do.

The dialog is not one of them. Its form (`tool`, `choice`, `typed`, `prompt`)
stays editable while `view` says that a click is under way; `request` is what
the click captured. `Click` and `PolicyAnswers` are the first round trip of
Dispatch and Confirm, `RunDiagnostics` the buttons of the matrix, which ask
nobody, and `StandInAnswers` the second round trip. `app` says whether the page
is in the application. There, the core's answer to the policy has
`requires_confirmation` (`multi_server/mod.rs:96`, without a `rename_all`) and
the page reads `requiresConfirmation` (`ServersView.tsx:521`), so no code is
asked for, unless the policy command fails and the stand-in answers. The
requests that follow have `batchId`, `toolName` and `diagnosticType` where the
commands want `batch_id`, `tool_name` and `diagnostic_type`
(`multi_server/mod.rs:50`), so they are refused, and bridge.ts answers with a
success for every target that `multi_server_resolve_targets` gives, marked
`simulated`. Outside the application the stand-ins answer both times. `reported`
are those successes; nothing ran for them. `ReportedAsAsked` is about the one
build in which the dialog asks.

A tag chooses servers as an environment does, and DEVELOPMENT is treated as
STAGING is; both are left out. The event of the dispatch is not read by any
property. A resolution that fails as well goes to the bridge's mock store, which
is another component. The tool `multi_server.execute_batch` of the model
(`tools.rs:2892`) only pretends.

`BatchPromise` knows only whether a batch is under way and the fate of each
server: out of it, waiting, running, answered or lost. `BatchRefinement` reads
the fates off `targets`, `waiting`, `running` and `nodes`; a target that neither
waits nor runs has answered if exactly one result is its own.

### Web chat

Both ends of a conversation. `local`, `active` and `reader` are the state of
the browser's view: its sessions, the one shown, and the running `handleSend`
with the half-read event in its buffer. `timers` are the saves it has delayed,
`requests` its requests of the session routes, which are answered in any order;
what comes back is applied to whatever the view holds by then (`ApplySelect`,
`ApplyDelete`, `ApplyRefresh`). `store` is the directory of session files with
its index, `agent` one `runWebChat` per turn: the conversation it sends to the
provider, its calls, its round, and the events on the wire. `Read` takes a
chunk that may end in the middle of an event, `Finish` and `Break` end a send.
`ServeWrongly` and `ListWrongly` are a save, a delete and a listing in which a
call of the file system fails: the code passes over most of that, so a summary
may go whose file stays, an index may be left unwritten, or be cut short, or be
rebuilt from the files that could be read. `CrashWhileSaving` leaves the rest of
a save or a delete undone. `home`, `calm` and `torn` are history: the session a
turn was sent in, the turns nobody disturbed, the sessions whose last save or
delete went wrong or that a rebuild missed. A turn is the user's message with its answer; a
text is the numbers of the deltas it is made of.

### Desktop interface

The page is single-threaded and the core serves commands one at a time, in the
order they were invoked, but for the connection test, the one asynchronous
command (`commands.rs:213`), which later calls may overtake (`TestGoesOn`). So `queue` holds the bridge calls in flight, and one
action answers the call at its head and carries on its handler up to the next
`await`: a call is a record of the function, its arguments `x`, the rest of the
handler `k`, what its closure captured `e`, and the mount `on` of the view that
made it. `Shows` drops what a handler sets after its view has been unmounted,
as React does; the handler itself goes on. `tauri` says whether the page runs
in the application; `store.core` is the core's state and `store.page` the
page's own stores. `Answers` gives the answers of a call: the core's, or the
page's when the invocation throws, because there is no core, the core refuses
(a message of a deleted conversation, a missing file), or a fault occurs.
Inside the application the two functions that run tools report the error
(`Pretends`); for the others the page answers, and `store.faked` remembers the
functions it has answered for.

| View | State in `tabs` | Code |
|---|---|---|
| `ChatTab` | current conversation, bubbles, `busy`, the dialog and its text | turns are closures with the conversation, server and mount of their prompt; `away` are those that wait for the provider; `left` are the calls of an answer still to be made, which an abort does not cut |
| `FilesTab` | directory, listing, selection, editor, dialogs | a listing remembers the server and directory it was read for |
| `TerminalTab` | sessions, the selected one, last sequence number, screen | a poll is a call like the others; shells write and exit on their own |
| `SettingsTab` | the AI form, host-key switch, Full Access minutes | handlers that write one setting after the other; the status interval |
| `ServersTab` | profile form, secrets offered, the two windows and whose facts they show, a suspension to confirm | `handleSubmit` with its two secrets; test and trust; diagnostics; cPanel |
| `ActivityTab` | snapshots | export, restore, reload |

`Desktop` has App's own state (`servers`, `active`, `mode`), what App does with
answers, the header and the navigation. A change of the active server runs the
effects of the views that are mounted. `sent` and the fields `shown` and `rush`
are history for the properties. Facts that are
only displayed stand for the server they describe.

## 3. What each run checks

Passing runs (sizes in distinct states):

| Run | Instance | Question and answer |
|---|---|---|
| `approval_races`, 147,000 | 2 threads, 1 call id used twice, 2 approvals, store errors, tool errors, restarts | Do races, faults and retries ever lead to an effect without consent, two effects of one consent, two verdicts, a changed request, or an event without its effect? No. Does the manager, read through its tables, implement the gate? Yes. |
| `approval_live`, 15,400 | 2 fair threads, 1 call of any of seven kinds, servers edited and deleted in between, no store error | Do events and effects match, does the status column tell what happened, and can a PENDING row be decided until its deadline? Is every effect recorded in the end, and does every submission settle? Yes. |
| `policy_tightening`, 185,000 | every category, risk, mode, environment; sampled commands extended step by step | Does tightening a request ever relax its decision? No. |
| `files`, 376,000 | 1 file, 2 texts, one above the limit, live or mock, failing ssh, other writers, restarts, 3 commands | Do backups go on holding what they were made of? Does an overwrite with a backup always leave the old text there? Do restores, and the rollbacks that are reported, bring it back? Yes. |
| `host_keys`, 1,140,000 | 1 probe, 3 keys of 2 types, an alias, 2 lines, rekeys, the user's ssh, failures, restarts | Can a key pass for trusted that the user never trusted, a changed one for new, or a login succeed behind another machine? No. |
| `orchestrator`, 15,000 | 2 call ids, 2 providers, 3 iterations, 2 calls an answer, failing streams, throwing tools, an abort, the time limit | Is every request well formed? Does an abort bound what still runs, and end the turn? Yes. |
| `batch`, 173,000 | 3 servers, one in production, chunks of 2, 2 clicks or calls, panics, a form and a table edited meanwhile, in the application or a browser | Has every target one result? Does the engine implement what a batch promises of each server? Does a batch whose tools end come back, and a click that waited for it? In a browser, is a restart shown as done only as the policy let it through? Yes. |
| `web_chat`, 167,000 | 2 sessions, 2 sends, 3 operations or faults, 2 rounds, a stream read in pieces, failing files, a crash | Does an answer stay in its conversation, on the screen and on disk, and in order? Is it whole when nobody disturbed it? Has every request all its calls and results? Do drawer and files differ at most where a save or a delete went wrong? Does the form come back if no tool runs for ever? Yes. |
| `desktop_work`, 464,000 | 2 servers, chat and files, 3 actions of the operator in each of 2 mounts, 2 calls an answer, 1 fault, in the application or a browser | Do replies and tools go where the prompt belonged, do file operations hit what is shown, does the chat take input again? Yes. |
| `desktop_admin`, 1,370,000 | 3 servers, the other four views, 2 to 4 actions, 1 fault in saving a server, deleting one or storing a secret | Does a profile ever get another server's password? Does App, once quiet, show what is stored, also when a save or a deletion failed and was acknowledged? Does a window act on another server than it shows? No, yes, no. |

Runs that find what a comment or the interface says and the code does not do:

| Run | Shows |
|---|---|
| `claim_override` | a changed key that the user accepts is never trusted, because the old line goes on deciding (`known_hosts.rs:79`) |
| `claim_terminal` | a poll answered after another session was selected writes the old session's output on the new screen (`TerminalView.tsx:175`); a later poll gets the whole buffer (`terminal/mod.rs:425`) and appends it once more |

### Further disagreements met while modelling, without a run

Core:
- on a live server a safe patch never sends its validation command
  (`safety/mod.rs:307`; `src/docs/testing-strategy.md:51`);
- a copy that fails is taken for a file that does not exist, and the save goes
  on without a backup (`sftp/mod.rs:429`; `src/docs/RELEASE_NOTES_v1.0.md:74`);
  setting `CopyFails` in `files.cfg` shows it;
- a mock server without a seeded tree shows production01's files until its first
  write, which gives it an empty tree: a save with a backup makes none, and the
  other files are gone (`sftp/mod.rs:287`, `:372`);
- after an abort every further call of the same answer is still executed
  (`orchestrator.ts:284`; `src/docs/security.md:17`);
- a call id used twice keeps the parameters of the first call in its row
  (`database.rs:496`); a server referred to by name passes the policy and then
  cannot be recorded (`approval.rs:306`); an executor error leaves the row
  EXECUTING and no execution event (`approval.rs:544`);
- Full Access runs HIGH tools without approval outside production
  (`policy.rs:291`), and nothing ends a session at its deadline
  (`safety/mod.rs:243`);
- the timeouts of a batch's nodes are recorded and never used
  (`multi_server/mod.rs:56`);
- in the application the batch dialog asks for no code and runs nothing: the
  core's structs are in snake case, the page's in camel case
  (`multi_server/mod.rs:50`, `:96`; `ServersView.tsx:521`), and the success that
  is shown is the stand-in's (`bridge.ts:3808`), while the comment above the
  policy says that any batch that touches production always requires typed
  confirmation (`multi_server/mod.rs:285`). In a browser one typed code confirms
  a batch, though `src/docs/USER_MANUAL.md:487` asks for each server's
  confirmation, and a code that was typed survives a change of the form;
- a shell that exits leaves its session ACTIVE (`terminal/mod.rs:331`).

Desktop interface:
- inside the application every write but a tool call or a verdict is acknowledged
  by the page's own store when the core fails (`bridge.ts:872` and its like; the
  comment at `bridge.ts:328` speaks of the browser). A password saved that way
  leaves a reference in the core's profile to a secret the core does not have;
- the chat never sends the permission mode (`ChatView.tsx:384`), so the core
  evaluates every call under its default;
- the typed confirmation is never cleared (`ChatView.tsx:80`): what was typed
  for one approval fits the next one on the same server
  (`src/docs/USER_MANUAL.md:306` asks for it each time);
- a new chat hides a pending approval that goes on being pending; a turn whose
  view was left goes on, its approval is shown nowhere, and the view that was
  mounted since can start a second turn beside it; a conversation that is
  loaded while a turn runs replaces its bubble; a verdict is stored in the
  conversation that was open at the click;
- the diagnostics and cPanel windows leave the previous server's rows clickable
  while the next one's load (`ServersView.tsx:1676`, `:2358`), and the list of
  files stays when the server changes: `WindowsActOnShown` and `FilesActOnShown`
  therefore have the premise that the operator waits for the answer;
- a mode changed before launch has read the stored one is shown as the stored
  one; the header's switch never touches the Full Access timer; a reload after
  a change of mode overwrites the AI form; cancelling an edit keeps environment
  and cPanel switch of the form;
- a file longer than the 100,000 bytes the editor reads can be saved over the
  whole file (`FilesView.tsx:169`), after a warning; the local pane works on the
  page's map of files even inside the application;
- in a browser the stand-ins write and upload files without an approval;
- on error the provider falls back to the mock provider.

Web edition:
- the choices of an answer are offered again after the view is mounted anew
  (`ChatView.tsx:1000`);
- a refresh takes the server's sessions, which may lack the last turns, and the
  next save writes the shorter session over the file;
- a file that cannot be unlinked loses its summary all the same, and the delete
  is answered with success (`sessions.ts:181`); an index that cannot be written
  is rebuilt, and the error of that is passed over too (`:96`, `:169`, `:192`).
  So drawer and files differ without any crash: `OnlyTornDiffer` says that they
  differ in no other session, and until its next complete save or delete at
  most.

### Bounds

Approvals: two threads are enough for every pairwise race: handlers share only
the map and the tables, each step touches one entry or row, and the proofs need
no bound. Two approvals let one be settled while another is staged. `Lifetime`
1 and `MaxTime` 2 give a submission before, at and after the deadline.
`MaxRequests` bounds the evaluations of a behaviour, which also bounds approvals
and executions. One call id with two requests makes ids collide
(`approval_races`); `approval_live` has one request of every kind, whose
approval two threads may submit and whose server may go.

Files: three commands give a backup, an overwrite and a restore, or a patch
that gives up between two others; two seconds tell two backups apart. One
text is above the limit of a backup: `Same`, by which the properties compare,
allows that much to be lost of it and nothing of the other. A switch keeps the
run to what the code promises: with `SameSecond` a second backup replaces the
first. `OverwriteKeepsOld` speaks of what the file held when the command copied it;
what others write between the copy and the save is lost, as with any editor
that takes no lock. A rollback happens on mock servers only, since no
validation fails on a live one; `RolledBackRestored` therefore says nothing of
a restore that ssh breaks off, whose outcome the code would ignore.

Host keys: one probe, because the Test button is disabled while a test runs;
the theorems hold for any number. Two types give a server with several keys and
a change of type; two lines let an accepted key stand behind an old one; the
alias gives a name that differs from the hostname.

Orchestrator: two providers are one fallback; three iterations are an answer
with calls, a second one, and the limit; two calls an answer let an abort or a
failure come between them. Batches: three servers in chunks of two are a full
chunk and a partial one; two clicks are the one that is asked for a code and the
one that confirms, or a click that meets a batch of the engine. `s3` is the
server somebody adds and deletes, `s2` the production one.

Web chat: two sessions give a switch, two turns a second send into either; three
operations let a switch, a deletion and a fault meet one stream. One call and
one delta a round are enough, since the order of deltas shows in their numbers,
and two rounds are a round with calls and the limit.

Desktop: `MaxActs` and `Patience` bound what the operator does, `MaxInFlight`
how far ahead of the answers: the operator acts while at most one call is in
flight, which leaves a handler under way at every step. One navigation
(`MaxMounts` 2) unmounts a view with its calls outstanding. Two runs divide the
views, because the state of one hardly touches the other's; both have App,
header and navigation. In `desktop_admin` a third server can be added; two calls
an answer in `desktop_work` let an abort and a change of server fall between
them.

Deadlock is checked in every run but those of the orchestrator, of the web chat
and of the desktop, where the end of the turn, or of the operator's actions, is
the end of the behaviour.

### Fairness

Approvals: `FairSpec` assumes weak fairness of `LocalStep(t)`: a handler that
has begun is scheduled until it returns or hands over to an executor. The
operating system's scheduler and the mutexes justify that. Nothing is assumed
of the executor, because most tools wait on `.output()` of an ssh process
without a timeout, nor of the user, the clock or new requests. A handler inside
an executor may stay there for ever; the two liveness properties speak of what
comes after an effect and after a submission.

Orchestrator: weak fairness of `Loop`, since the event loop goes on between two
awaits, and of `Chunk` once aborted, since the signal is given to `fetch`, which
then ends the stream. A provider that is not aborted may stay silent for ever,
and so may a tool: `AbortEnds` allows a turn that stays inside one.

Batches: weak fairness of `Engine`, the engine's own steps, and strong fairness
of `Dialog`, the answers to a click: they need the core between two batches, and
the calls wait for it in a queue, in which every call gets its turn. Nothing is
assumed of the tools; `BatchReturns` has the premise that no thread runs for
ever, because no timeout ends one.

Web chat: weak fairness of reading what is on the wire and ending the send, and
of the server's loop. Node's `fetch` gives up a response that stays silent, so a
provider's stream ends. Nothing is assumed of the tools: some have a time limit
of their own (`ssh.ts:201`, `whm.ts:100`), but `df` and `powershell`
(`system.ts:47`, `:65`), `tar` and `unzip` (`files.ts:273`, `:281`) have none, so
`ThinkingEnds` has the premise that no tool runs for ever. One that does keeps
the form disabled.

Desktop: weak fairness of answering a call, unless an ssh process runs behind it
(`RemoteOps`; its `.output()` has no timeout), and of the end of a provider's
request that was given the abort signal. `ChatSettles` has the premises that
neither an ssh process nor a provider keeps everybody waiting for ever; nothing
is assumed of the operator.

## 4. What is proved

For every value of the constants, under the assumptions named in each module
(that names and keys are disjoint, that inputs have their types, that `Nothing`
is none of the values it stands beside, that there are finitely many servers,
that the web chat has a session and a turn to send, and a provider a round; for
the desktop, that no server bears the name that stands for none, that a
reference to a secret is not the word for none, and that a stored profile which
logs in by password refers to one):

Approvals and policy, for every number of threads, calls, approvals and
servers, every lifetime and every combination of faults:

| Theorem | States |
|---|---|
| `Invariance` | `Spec => []Inv` |
| `TypeCorrect` | `[]TypeOK` |
| `Authority` | `[]NoEffectWithoutAuthority` |
| `AtMostOnce` | `[]OneEffectPerApproval` |
| `SingleVerdict` | `[]OneVerdict` |
| `StagedUnchanged` | `[]PendingAsStaged` |
| `Refinement` | `Spec => ImplementsGate` |
| `StatusIsTrue` | `[]StatusTellsOutcome`, when no call id is used twice (`~ReuseCallIds`) |
| `TrailIsComplete` | `[]AuditMatchesEffects`, without store errors and crashes (`~DbCanFail`, `~CanRestart`) |
| `TrailIsTrue` | `[]EventsTellEffects`, with them as well |
| `PendingStaysDecidable` | `[]PendingRowDecidable`, without them too |
| `Tightening` | `TighteningNeverRelaxes`, for every command |

Files, for every set of files and texts and any mixture of commands, ssh
failures, other writers, restarts and rollbacks; the last four when no two
backups get the same second (`~SameSecond`), and
`Overwrites` when copies of existing files do not fail (`~CopyFails`):

| Theorem | States |
|---|---|
| `TypeCorrect` | `[]TypeOK`, whatever the switches |
| `Snapshots` | `[]SnapshotsKept` |
| `Overwrites` | `OverwriteKeepsOld`, an action property |
| `Restores` | `RestoreBringsBack`, an action property |
| `Rollbacks` | `RolledBackRestored`, an action property |

Host keys, for every number of probes, keys, types and names:

| Theorem | States |
|---|---|
| `Invariance`, `TypeCorrect` | `[]Inv`, `[]TypeOK` |
| `TrustTraced` | `[]TrustFollowsUser` |
| `ChangeWarned` | `[]ReplacedKeyWarned` |
| `AcceptanceTrue` | `[]AcceptedEventTrue` |
| `LoginSafe` | `LoginBehindTrustedKey`, an action property |

Orchestrator, for every chain of providers and every limit:

| Theorem | States |
|---|---|
| `Invariance`, `TypeCorrect` | `[]Inv`, `[]TypeOK` |
| `RequestsSound` | `[]RequestsComplete` |
| `CallsTraced` | `[]CallsOfOneAnswer` |
| `AbortFences` | `[]AbortBounds` |

Batches, for every set of servers and every limit asked for:

| Theorem | States |
|---|---|
| `Invariance`, `TypeCorrect` | `[]Inv`, `[]TypeOK` |
| `EveryTargetOnce` | `[]EveryTargetAnswers` |
| `Bounded` | `[]BoundedConcurrency` |
| `Asked` | `[]ReportedAsAsked` |
| `EventsTrue` | `[]NodeEventsTrue` |
| `PromiseKept` | `Spec => KeepsPromise` |

Web chat, for every number of sessions, turns, rounds and calls, any order of
answers, and any mixture of switches, deletions, broken streams, failing files
and crashes:

| Theorem | States |
|---|---|
| `WebInvariant`, `TypesHold` | `[]WebInv`, `[]TypeOK` |
| `AnswersAtHome` | `[]AnswersStayHome` |
| `CallsHaveResults` | `[]ConversationComplete` |
| `DrawerIsTrue` | `[]OnlyTornDiffer` |
| `CalmAnswers` | `CalmAnswerWhole`, an action property |

Desktop interface, for every set of servers, profiles, files and tools, any
number of actions, mounts, faults and calls in flight, in the application and in
a browser:

| Theorem | States |
|---|---|
| `DesktopInvariance`, `TypesHold` | `[]Base`, `[]TypeOK` |
| `AnswersGoHome` | `[]RepliesGoHome` |
| `ToolsAreOnChosen` | `[]ToolsOnChosenServer` |
| `CredentialsFollow` | `[]CredentialFollowsForm` |
| `WindowsAreTrue` | `[]WindowsActOnShown` |
| `FilesAreTrue` | `[]FilesActOnShown` |
| `AppIsTrue` | `[]AppShowsStore` |

The arguments.

Approvals. None of the safety properties is inductive: that an approval has
one effect depends on nobody else holding it. `Inv` says that an approval is in
one place: not minted, staged in the map, carried by exactly one handler, or
gone (`OnePlace`); that whoever holds it holds it as it was minted
(`MintedFit`); and that what the tables say of it is what the place of its
carrier allows (`StagedFit`, `CarriedFit`): nothing on record while it is
staged, a consent in time at the steps after `GrantSave`, no effect before
`ExecuteOk`. Handlers that carry no approval hold what the policy allowed
(`DecisionsFit`). `StepInv` splits into the part about types and places
(`StepType`) and the rest, one lemma for each group of handler steps; most
steps move one handler and write one record, and `QuietMove`, `QuietLeave` and
`QuietMoveFit` settle them at once. The refinement uses `Inv`: `SavePending`
asks, `GrantSave`, `RejectSave` and `AuditExpired` answer, `ExecuteOk` is the
effect, and every other step stutters.

What the records tell needs three more invariants, each on its own assumption,
because each fails without it. `OutcomeFit`: while no id is given to two calls, a
call is with one handler or one staged approval, and has run exactly when that
handler is past the effect; so no other handler can write another status over
its row. `RecordFit`: a handler past the effect has left the effect behind, so
the event it writes stands for one. `DecidableFit`: a row that says PENDING has
an approval that is in the map, with a handler that will settle the row, or past
its deadline; the clock never goes back, so what `prune` drops stays in the
third case. Store errors and crashes break the last two: they lose the handler.
`EventFit`, half of `RecordFit`, survives them: an event is written by a handler
whose effect is in the history, and the history never loses one.

Files. A backup stays what it was because nobody writes to its path again, and
that is not a matter of one step: a command looks for a free second when it
begins, stamps its backup when it has read the file, and writes it one ssh
command later, while the clock goes on. `KeepInv` says that the paths of all
coming seconds are free (`FutureFree`), that the path a command is about to
write is free and of its own file, and what each later step may count on:
a snapshot before the overwrite, the snapshot's text in hand before the write of
a restore (`CommandKeeps`). It also says that a patch restores on mock servers
only, which is why the outcome that the code ignores is never a failure.
Reading loses of a text only what is above the limit (`CutSame`), and twice
reading no more than that (`SameChain`), so no theorem assumes that texts fit.
`TypeInv` adds to the types what each step of a command holds.

Host keys. Whatever says trusted can be traced to the user: a line of the file
is trusted now unless it was removed, a line a probe has read was trusted once
(`LinesFit`), a result fits the lines it was computed from (`ProbeFits`), and
what is shown, accepted, cached or in the audit trail comes from such a result.
The lines a probe holds may be old; that is why `TrustFollowsUser` speaks of
what was ever trusted, and why the login is a property of its own:
ssh reads the file again, and `LinesFit` says that its lines are trusted now.

Orchestrator. `Settled` says that at the head of the loop and in a stream every
answer is followed by its results, `UnderWay` that while calls run the last
answer has the results before `next` and the others all of theirs. Its place,
which the length of the messages and `next` give, stays the same when a result
is appended. `OneProvider` and
`WithinCalls` say that the calls collected come from the provider that streams,
so a fallback cannot mix two; `Fenced` relates the iteration to the abort.

Batches. `Parted`: the targets are those that wait, run, panicked or have
answered, each in one of these and answered at most once; at the join the first
two are empty. `Captured` and `Traced` relate the request to what the policy let
through and the threads to the batch. For the refinement, `Parted` gives the
fate of every server (`FateIs`), and each step of the engine is one of the promise or
none: the dispatch opens, a chunk starts, a thread ends, the return closes, and
the collection, which sorts, changes nobody's fate.

Web chat. The messages of a session are in many places at once: the view, the
file, a save on its way, an answer that is yet to be applied. `CopiesFit` says of
every copy, with the session it is taken for, that its turns were sent in that
session, that what is shown of them is in order, and, for the turn that is being
read, that all of it comes before what is still on the wire (`Behind`). That is
why a late answer may put an older copy back and the next delta still fits.
`StoreFit` relates index and files but for `torn`; `Kept` says what a save, a
delete or a listing leaves of it, complete or cut short.
`SentFit` makes the next turn a fresh one, so that no copy holds it yet.
`ConvoFit` says how far the results of a round are, `WireFit` that deltas rise
and the closing event is last, `CalmFit` that what is shown and what is on the
wire of an undisturbed answer add up to what was sent. The proof goes by classes
of steps, each with a shape lemma per action and one preservation lemma: traffic
of the session routes, which moves copies; ends of a send; reading, which moves a
delta from the wire to the copy that is shown; the send, which adds a turn; the
steps of an agent; and the crash.

Desktop. Nobody owns a value here: the conversation and the server of a prompt
are in the closures of a turn that waits for the provider, for a setting or for a
tool, and a profile is in the form, in a submission that waits for its password
or its token, in the list App holds and in two backends. `Base` says of every
call in flight what its continuation will read (`CallFits`): a turn, and a
message or request made for it, agree with the prompt in `sent`; a submission
names its own server's password (`SubmissionFits`), which the answer of the
password's storing preserves because that call stores under that very name
(`KindFits`); a chain of settings writes no permission mode after its first step.
It says the same of the turns that wait (`TurnFits`), of App's list and of both
backends (`ListFits`, `MessageFits`), and that views are numbered from the past.
The proof has three layers. What a backend answers to a call (`Served`, through
every stand-in for a tool) and what the bridge makes of it with its fallback
(`Answered`). Then classes of steps: the operator acts in one view (`Doing`), an
answer goes on with fitting calls (`Answering`), App changes (`AppAnswering`,
`AppActing`), the page is laid out anew (`Remounting`). Last, for each handler,
that its calls fit.

That the desktop acts on what it shows is a matter of which answers are
outstanding, and of their order, so it takes three more invariants, each
inductive together with `Base` (`DesktopShownProofs`). All three have the same
shape: what is on screen is true, or the last call under way will make it so.

- `Windows`. A window of the inventory shows the facts of its own server, or a
  read of them is outstanding; every such read of that mount is for that server.
  An operator who has not gone on (`rush`) acts after the read, so on what is
  shown.
- `Entries`. The listing is of the active server and the directory shown, or
  the last of the listings asked for is (`ListingTrue`): listings are answered in
  the order they were asked in, so the last one stays. What goes by an entry,
  selected, in the editor, in the dialog or in a call, belongs to the active
  server (`EntriesTrue`); and while anything does, nothing that could replace
  App's servers is outstanding (`UnderWay`, `Changing`), since the header that
  selects a server is covered and the inventory, which saves and deletes them,
  is never laid out beside the files. That last fact is part of the invariant.
- `AppTrue`. A save or a deletion that the page acknowledged in the core's stead
  changes only the page's stores, and App reads the list after each. So App
  shows the servers of the core unless it reads them again, and
  its mode is the stored one or the one of the last write outstanding
  (`ModeTrue`). The answer at launch is why the property excepts a mode changed
  early: until it arrives App shows the initial mode and the core holds it
  (`Unread`), and it arrives once (`LaunchOnce`).

The proofs go by what a step does to the queue (`Moved`: it takes at most the
first call and adds some), so that a handler enters only with the kinds of the
calls it makes. The lemmas of `DesktopProofs` say, besides `Base'`, of which
kind each step is: beside the point (`AsideStep`), a write of the mode
(`ModeStep`), of the files (`FilesStep`) or of the inventory (`ServersStep`).

Only model-checked: the liveness properties, since fairness and ENABLED are
beyond the prover. `Inv` and `Base`, `AcceptedEventTrue`, `CallsOfOneAnswer`,
`BoundedConcurrency`, `NodeEventsTrue` and the `TypeOK` of six components are
proved and need no run of their own.

## 5. What would come next

1. The command runner of `tools.rs`, which kills a command at its deadline and
   then joins readers whose pipes a grandchild may hold.
2. The keyring and its table of metadata (`secret.rs`) as two stores.

## 6. Not modelled, and why

The text processing of server operations, cPanel, redaction, privacy filters,
version strings and ssh_config is left to unit tests: bit-exact text is nothing
TLC explores well. Providers are remote services; their ids and failures enter
as constants. Migrations run once at start, alone. `ssh.ts` of the web server
settles one promise behind one flag; its configuration is one object written at
once. Of the views, what is only displayed, filtered or laid out is left out,
and so are the local pane's directories and the import of ssh hosts.
Logging, packaging, scripts and the type-only packages have no behaviour of
their own. `PROJECT.json` lists every component with its status, and every
hazard of the code, also those that no module covers yet.
