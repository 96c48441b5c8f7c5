----------------------------- MODULE BatchExecution -----------------------------
(***************************************************************************)
(* One tool on many servers: the engine of multi_server/mod.rs, and the      *)
(* batch dialog of the servers view.                                        *)
(*                                                                         *)
(* The engine resolves the targets and runs them in chunks, a thread for    *)
(* each server of a chunk, and collects their results.  A tool may fail,    *)
(* panic or never come back.  It asks nobody: whoever calls the command is  *)
(* served, one call at a time.                                              *)
(*                                                                         *)
(* The dialog asks for the policy of a batch, wants a code typed, and sends *)
(* the batch.  It never gets to the engine: its request names the fields    *)
(* batchId and toolName, the command wants batch_id and tool_name, and the  *)
(* stand-in of bridge.ts answers for the command that could not be called.  *)
(* Nor does it see that a code is wanted when the core answers: the answer  *)
(* has requires_confirmation, the page reads requiresConfirmation.  Only    *)
(* the stand-in's policy, the only one outside the application, asks.       *)
(*                                                                         *)
(* A tag chooses servers as an environment does, and is left out.  While    *)
(* anything is under way, the form can be edited, and so can the table of   *)
(* servers.                                                                 *)
(***************************************************************************)
EXTENDS Integers, Sequences, FiniteSets, Functions

CONSTANTS
    Server,
    Absent,             \* the environment of a server that is not in the table
    Rank,               \* the order of the servers' ids
    Nothing,            \* no click under way
    Choices,            \* the selectors that the form is set to
    Called,             \* the selectors that a caller of the command names
    Tables,             \* the tables of servers to begin with
    Edits,              \* what somebody makes of servers meanwhile: [server, environment]
    ConcurrencyLimit,   \* what the request asks for
    MaxBatches          \* bound on the clicks and the calls of a behaviour

\* DEVELOPMENT is to the batch what STAGING is.
Environment == {"STAGING", "PRODUCTION"}

\* The tools of the form: diagnostics, and server.service_restart.
Tool == {"diagnostic", "restart"}

Selector ==
    [type : {"all"}] \cup [type : {"environment"}, environment : Environment]
        \cup [type : {"server_ids"}, serverIds : SUBSET Server]

\* What a click captures of the form.
Request == [tool : Tool, selector : Selector, typed : BOOLEAN, diagnostics : BOOLEAN]

Node == [server : Server, success : BOOLEAN]

ASSUME BatchAssumption ==
    /\ IsFiniteSet(Server)
    /\ Absent \notin Environment
    /\ Nothing \notin Request
    /\ Tables \subseteq [Server -> Environment \cup {Absent}]
    /\ Rank \in Injection(Server, Nat)
    /\ Choices \subseteq Selector /\ Called \subseteq Selector
    /\ Edits \subseteq [server : Server, environment : Environment \cup {Absent}]
    /\ ConcurrencyLimit \in Int /\ MaxBatches \in Nat

VARIABLES
    app,        \* is the page in the application, where a core answers it?
    table,      \* the environment of each server in the table of servers
    tool,       \* customToolName
    choice,     \* the selector the form shows
    typed,      \* is the code in its field?
    prompt,     \* is the code asked for?
    view,       \* where the click under way is; "idle": batchLoading is FALSE
    request,    \* what the click has captured of the form
    clicks,     \* number of the last click
    stage,      \* where execute_batch is; "idle": the core serves other calls
    targets,    \* the servers resolved
    waiting,    \* those of the chunks to come
    running,    \* those whose thread runs the tool
    nodes,      \* the results, as they are pushed
    auditing,   \* the results whose event is not written yet
    audit,      \* MULTI_SERVER_NODE_EXECUTION events
    batch,      \* number of the last call
    ran,        \* history: [batch, server] of every thread started
    panicked,   \* history: the servers whose thread panicked in this batch
    asked,      \* history: [click, tool, selector, typed] that the policy let through
    reported    \* history: [click, tool, server] of every success the dialog shows

form == <<tool, choice, typed, prompt>>
page == <<form, view, request, clicks, asked, reported>>
engine == <<stage, targets, waiting, running, nodes, auditing, audit, batch, ran, panicked>>
vars == <<app, table, page, engine>>

Init ==
    /\ app \in BOOLEAN
    /\ table \in Tables
    /\ tool = "diagnostic"
    /\ choice \in Choices
    /\ typed = FALSE
    /\ prompt = FALSE
    /\ view = "idle"
    /\ request = Nothing
    /\ clicks = 0
    /\ stage = "idle"
    /\ targets = {}
    /\ waiting = {}
    /\ running = {}
    /\ nodes = <<>>
    /\ auditing = {}
    /\ audit = {}
    /\ batch = 0
    /\ ran = {}
    /\ panicked = {}
    /\ asked = {}
    /\ reported = {}

-----------------------------------------------------------------------------
(* Targets and policy *)

Known == {server \in Server : table[server] # Absent}

ResolveTargets(selector) ==
    {server \in Known :
        \/ selector.type = "all"
        \/ selector.type = "environment" /\ table[server] = selector.environment
        \/ selector.type = "server_ids" /\ server \in selector.serverIds}

\* Nothing selected means every server of the list.
ActiveSelector ==
    IF choice = [type |-> "server_ids", serverIds |-> {}]
    THEN [type |-> "server_ids", serverIds |-> Known]
    ELSE choice

HasProduction(servers) == \E server \in servers : table[server] = "PRODUCTION"

EffectiveRisk(servers, base) ==
    IF HasProduction(servers) /\ base \in {"LOW", "MEDIUM"} THEN "HIGH" ELSE base

RequiresConfirmation(servers, base, fullAccess) ==
    LET effective == EffectiveRisk(servers, base) IN
    /\ effective # "READ_ONLY"
    /\ HasProduction(servers) \/ ~fullAccess \/ effective = "CRITICAL"

\* The view names no risk but these two, and never full access.
BaseRisk(name) == IF name = "restart" THEN "HIGH" ELSE "MEDIUM"

-----------------------------------------------------------------------------
(* The form and the table; nothing waits for the batch under way *)

EditForm(name, selector) ==
    /\ tool' = name
    /\ choice' = selector
    /\ UNCHANGED <<app, table, typed, prompt, view, request, clicks, asked, reported, engine>>

TypeCode(text) ==
    /\ prompt
    /\ typed' = text
    /\ UNCHANGED <<app, table, tool, choice, prompt, view, request, clicks, asked, reported, engine>>

EditServer(server, environment) ==
    /\ table' = [table EXCEPT ![server] = environment]
    /\ UNCHANGED <<app, page, engine>>

-----------------------------------------------------------------------------
(* The dialog *)

\* A command waits until the one before it has come back.
Answers == app => stage = "idle"

\* Dispatch Batch, or Confirm Batch once the code is asked for.  What the handler reads
\* of the form it reads now.
Click ==
    /\ view = "idle"
    /\ clicks + batch < MaxBatches
    /\ prompt \/ ResolveTargets(ActiveSelector) # {}
    /\ request' = [tool |-> tool, selector |-> ActiveSelector, typed |-> typed, diagnostics |-> FALSE]
    /\ clicks' = clicks + 1
    /\ view' = "policy"
    /\ UNCHANGED <<app, table, form, asked, reported, engine>>

\* The core's answer is not understood and asks for nothing; it may fail, and then the
\* stand-in answers, as it always does outside the application.  Without the code the
\* dialog asks for it; the next click starts anew.
PolicyAnswers ==
    /\ view = "policy"
    /\ Answers
    /\ \E standIn \in {~app, TRUE} :
         IF standIn /\ ~request.typed
              /\ RequiresConfirmation(ResolveTargets(request.selector), BaseRisk(request.tool), FALSE)
         THEN prompt' = TRUE /\ view' = "idle" /\ request' = Nothing /\ UNCHANGED asked
         ELSE /\ view' = "execute" /\ UNCHANGED <<prompt, request>>
              /\ asked' = asked \cup
                     {[click |-> clicks, tool |-> request.tool, selector |-> request.selector,
                       typed |-> request.typed]}
    /\ UNCHANGED <<app, table, tool, choice, typed, clicks, reported, engine>>

\* The buttons of the matrix ask nobody; they can only send diagnostics.
RunDiagnostics ==
    /\ view = "idle"
    /\ clicks + batch < MaxBatches
    /\ ResolveTargets(ActiveSelector) # {}
    /\ request' = [tool |-> "diagnostic", selector |-> ActiveSelector, typed |-> typed,
                   diagnostics |-> TRUE]
    /\ clicks' = clicks + 1
    /\ view' = "execute"
    /\ UNCHANGED <<app, table, form, asked, reported, engine>>

\* The command refuses the request or is not there, and the stand-in shows a success for
\* every target.  Only a batch that was asked for by the form clears the code.
Simulate(name, selector) ==
    /\ view = "execute"
    /\ Answers
    /\ reported' = reported \cup
           [click : {clicks}, tool : {name}, server : ResolveTargets(selector)]
    /\ view' = "idle"
    /\ request' = Nothing
    /\ IF request.diagnostics THEN UNCHANGED <<typed, prompt>> ELSE typed' = FALSE /\ prompt' = FALSE
    /\ UNCHANGED <<app, table, tool, choice, clicks, asked, engine>>

\* MUTANT of StandInAnswers: the form is read when the policy has answered.
StandInReadsForm == Simulate(tool, ActiveSelector)

StandInAnswers == Simulate(request.tool, request.selector)

-----------------------------------------------------------------------------
(* The engine *)

\* The event of the dispatch may fail to be written, and nobody looks.
ExecuteBatch(selector) ==
    /\ app
    /\ stage = "idle"
    /\ clicks + batch < MaxBatches
    /\ batch' = batch + 1
    /\ targets' = ResolveTargets(selector)
    /\ waiting' = targets'
    /\ stage' = "chunks"
    /\ UNCHANGED <<app, table, page, running, nodes, auditing, audit, ran, panicked>>

Clamped == IF ConcurrencyLimit < 1 THEN 1 ELSE IF ConcurrencyLimit > 20 THEN 20 ELSE ConcurrencyLimit

\* MUTANT of ChunkSize: a chunk of one server more than the limit.
ChunkSizeOver == IF Clamped < Cardinality(waiting) THEN Clamped + 1 ELSE Cardinality(waiting)

ChunkSize == IF Clamped < Cardinality(waiting) THEN Clamped ELSE Cardinality(waiting)

\* MUTANT of SpawnChunk: the chunk before is over when it has all its results.
SpawnCounting ==
    /\ stage = "chunks"
    /\ waiting # {}
    /\ Len(nodes) = Cardinality(targets \ waiting)
    /\ \E chunk \in SUBSET waiting :
         /\ Cardinality(chunk) = ChunkSize
         /\ running' = chunk
         /\ waiting' = waiting \ chunk
         /\ ran' = ran \cup [batch : {batch}, server : chunk]
    /\ UNCHANGED <<app, table, page, stage, targets, nodes, auditing, audit, panicked, batch>>

\* The chunk before has been joined.
SpawnChunk ==
    /\ stage = "chunks"
    /\ waiting # {}
    /\ running = {}
    /\ \E chunk \in SUBSET waiting :
         /\ Cardinality(chunk) = ChunkSize
         /\ running' = chunk
         /\ waiting' = waiting \ chunk
         /\ ran' = ran \cup [batch : {batch}, server : chunk]
    /\ UNCHANGED <<app, table, page, stage, targets, nodes, auditing, audit, panicked, batch>>

\* A tool that fails and one that returns Err are failed results alike.
NodeAnswers(server, success) ==
    /\ server \in running
    /\ running' = running \ {server}
    /\ nodes' = Append(nodes, [server |-> server, success |-> success])
    /\ UNCHANGED <<app, table, page, stage, targets, waiting, auditing, audit, ran, panicked, batch>>

\* The thread ends before it pushes; join's error is dropped.
NodePanics(server) ==
    /\ server \in running
    /\ running' = running \ {server}
    /\ panicked' = panicked \cup {server}
    /\ UNCHANGED <<app, table, page, stage, targets, waiting, nodes, auditing, audit, ran, batch>>

\* The results come in the order in which the threads end.
SortById ==
    \E order \in Bijection(DOMAIN nodes, DOMAIN nodes) :
        /\ nodes' = [i \in DOMAIN nodes |-> nodes[order[i]]]
        /\ \A i, j \in DOMAIN nodes : i < j => Rank[nodes'[i].server] <= Rank[nodes'[j].server]

\* MUTANT of Collect: the last chunk is not joined.
CollectUnjoined ==
    /\ stage = "chunks"
    /\ waiting = {}
    /\ SortById
    /\ auditing' = {nodes[i].server : i \in DOMAIN nodes}
    /\ stage' = "audit"
    /\ UNCHANGED <<app, table, page, targets, waiting, running, audit, ran, panicked, batch>>

Collect ==
    /\ stage = "chunks"
    /\ waiting = {}
    /\ running = {}
    /\ SortById
    /\ auditing' = {nodes[i].server : i \in DOMAIN nodes}
    /\ stage' = "audit"
    /\ UNCHANGED <<app, table, page, targets, waiting, running, audit, ran, panicked, batch>>

\* In the order of the results.  An event that cannot be written is skipped.
AuditNode(server) ==
    /\ stage = "audit"
    /\ server \in auditing
    /\ \A other \in auditing : Rank[server] <= Rank[other]
    /\ auditing' = auditing \ {server}
    /\ \/ audit' = audit \cup {[batch |-> batch, server |-> server]}
       \/ UNCHANGED audit
    /\ UNCHANGED <<app, table, page, stage, targets, waiting, running, nodes, ran, panicked, batch>>

Return ==
    /\ stage = "audit"
    /\ auditing = {}
    /\ stage' = "idle"
    /\ targets' = {} /\ nodes' = <<>> /\ panicked' = {}
    /\ UNCHANGED <<app, table, page, waiting, running, auditing, audit, ran, batch>>

-----------------------------------------------------------------------------

Tools == \E server \in Server : NodePanics(server) \/ \E success \in BOOLEAN : NodeAnswers(server, success)

Engine == SpawnChunk \/ Collect \/ (\E server \in Server : AuditNode(server)) \/ Return

Dialog == PolicyAnswers \/ StandInAnswers

Users ==
    \/ \E name \in Tool, selector \in Choices : EditForm(name, selector)
    \/ \E text \in BOOLEAN : TypeCode(text)
    \/ \E edit \in Edits : EditServer(edit.server, edit.environment)
    \/ Click
    \/ RunDiagnostics
    \/ \E selector \in Called : ExecuteBatch(selector)

Next == Users \/ Dialog \/ Engine \/ Tools

Spec == Init /\ [][Next]_vars

\* The core goes on by itself, and calls wait for it in a queue.  Nothing is assumed of
\* the tools.
FairSpec == Spec /\ WF_vars(Engine) /\ SF_vars(Dialog)

-----------------------------------------------------------------------------
(* Properties *)

\* The variables hold what their types say, a click under way has its request, and the
\* servers of a batch are among its targets.
TypeOK ==
    /\ app \in BOOLEAN
    /\ table \in [Server -> Environment \cup {Absent}]
    /\ tool \in Tool /\ choice \in Selector
    /\ typed \in BOOLEAN /\ prompt \in BOOLEAN
    /\ view \in {"idle", "policy", "execute"}
    /\ request \in Request \cup {Nothing} /\ (request = Nothing <=> view = "idle")
    /\ stage \in {"idle", "chunks", "audit"} /\ (stage # "idle" => app)
    /\ targets \subseteq Server
    /\ waiting \subseteq targets /\ running \subseteq targets \ waiting
    /\ nodes \in Seq(Node)
    /\ auditing \subseteq targets /\ panicked \subseteq targets
    /\ audit \subseteq [batch : 1 .. MaxBatches, server : Server]
    /\ clicks \in Nat /\ batch \in Nat /\ clicks + batch <= MaxBatches
    /\ ran \subseteq [batch : 1 .. MaxBatches, server : Server]
    /\ asked \subseteq [click : 1 .. MaxBatches, tool : Tool, selector : Selector, typed : BOOLEAN]
    /\ reported \subseteq [click : 1 .. MaxBatches, tool : Tool, server : Server]

Answering(server) == {i \in DOMAIN nodes : nodes[i].server = server}

\* Failure isolation: whatever the others do, a server whose thread did not panic has
\* one result when the batch is collected, and the others have none.
EveryTargetAnswers ==
    stage = "audit" =>
        \A server \in Server :
            Cardinality(Answering(server)) = IF server \in targets \ panicked THEN 1 ELSE 0

\* At most the requested number of servers, brought into 1 .. 20, is worked on at once.
BoundedConcurrency == Cardinality(running) <= Clamped

\* Outside the application, the dialog shows a restart as done only as the policy let it
\* through, with the code typed and for the tool and the servers it was asked for: what
\* the form and the table of servers become meanwhile has no effect.  In the application
\* no code is asked for (ServersView.tsx:521 reads names that the core does not write).
ReportedAsAsked ==
    ~app => \A r \in reported : r.tool = "restart" =>
        \E a \in asked :
            /\ a.click = r.click /\ a.tool = r.tool /\ a.typed
            /\ a.selector.type = "server_ids" => r.server \in a.selector.serverIds

\* An event says that a tool ran and answered.
NodeEventsTrue ==
    /\ \A e \in audit : \E r \in ran : r.batch = e.batch /\ r.server = e.server
    /\ stage = "audit" => \A e \in audit : e.batch = batch => Answering(e.server) # {}

\* If no tool runs for ever, every batch comes back, panics or not, and so does every
\* click that waited for it.
BatchReturns ==
    []<>(running = {}) =>
        /\ stage # "idle" ~> stage = "idle"
        /\ view # "idle" ~> view = "idle"
=================================================================================
