---------------------------- MODULE ApprovalManager ----------------------------
(***************************************************************************)
(* The approval manager of the desktop core (approval.rs) with the tables   *)
(* it writes (database.rs).  A tool call proposed by the model is evaluated *)
(* by the policy engine; it is executed at once, denied, or staged under a  *)
(* fresh approval id until the user submits a decision or it expires.       *)
(*                                                                         *)
(* The tables survive a restart; the map of staged approvals and the        *)
(* handlers under way do not.  Every statement on the database and every    *)
(* use of the map is one step: each takes its own mutex, and no transaction *)
(* spans two of them.                                                       *)
(***************************************************************************)
EXTENDS Naturals, Sequences, FiniteSets, PolicyEngine

CONSTANTS
    Thread,        \* threads on which commands of the core run
    CallId,        \* tool call ids, chosen by the model's provider
    ApprovalId,    \* uuids of staged approvals
    Server,        \* primary keys of the servers table
    Name,          \* names (or hostnames, or aliases) of servers
    NameOf,        \* the name of each server
    Invocation,    \* tool invocations the model may propose
    Lifetime,      \* ticks an approval stays open (300 seconds)
    MaxTime,       \* bound of the clock
    MaxRequests,   \* bound on the evaluations of a behaviour
    ReuseCallIds,  \* may a provider give one id to two calls?
    DbCanFail,     \* may a statement on the database fail?
    ToolCanErr,    \* may the executor return Err (ssh cannot be spawned)?
    ServersChange, \* may servers be edited or deleted meanwhile?
    CanRestart,    \* may the process end and start again?
    Nothing        \* None, NULL, or no entry

Absent == "absent"

Ref == Server \cup Name \cup {Nothing}

ASSUME NamesAssumption ==
    /\ NameOf \in [Server -> Name]
    /\ Server \cap Name = {}
    /\ Nothing \notin Server \cup Name

ASSUME InvocationAssumption ==
    Invocation \subseteq
        [category : Category, risk : RiskLevel, target : Ref,
         mode : PermissionMode, valid : BOOLEAN,
         command : Command \cup {NoCommand}]

ASSUME BoundsAssumption ==
    /\ Lifetime \in Nat
    /\ MaxTime \in Nat
    /\ MaxRequests \in Nat
    /\ {ReuseCallIds, DbCanFail, ToolCanErr, ServersChange, CanRestart} \subseteq BOOLEAN

Time == 0 .. MaxTime

ServerSnapshot == [id : Server, env : Environment]

\* A request under way, or staged: ToolRequest, its context and ApprovalRequest.
Job == [call : CallId, inv : Invocation,
        server : ServerSnapshot \cup {Nothing},
        decision : Decision,
        approval : ApprovalId \cup {Nothing},
        expires : Nat]

Ack == Name \cup {"CONFIRM", ""}

\* The reject button of the dialog sends no acknowledgement (ChatView.tsx).
Submission == [approved : {TRUE}, ack : Ack] \cup [approved : {FALSE}, ack : {""}]

Status == {"PENDING", "REJECTED", "EXECUTING", "COMPLETED", "FAILED", "CANCELLED"}

Row == [status : Status, inv : Invocation, server : Server \cup {Nothing}]

ASSUME NothingAssumption ==
    /\ Nothing \notin ApprovalId
    /\ Nothing \notin Job
    /\ Nothing \notin Row
    /\ Nothing \notin ServerSnapshot

VARIABLES
    servers,     \* table servers: environment of each, or Absent
    toolCalls,   \* table tool_calls: row of each call id, or Nothing
    approvals,   \* table approvals
    audit,       \* table audit_events
    pending,     \* map of staged approvals (memory)
    threads,     \* what each thread is doing (memory)
    now,         \* clock
    minted,      \* history: the request staged under each approval id
    issued,      \* history: call ids the provider has used
    served,      \* history: evaluations begun
    executions   \* history: requests that took effect, in order

tables == <<toolCalls, approvals, audit>>
history == <<minted, issued, served, executions>>
vars == <<servers, tables, pending, threads, now, history>>

Doing(pc, job, sub) == [pc |-> pc, job |-> job, sub |-> sub, at |-> 0]
Idle == Doing("idle", Nothing, Nothing)

Init ==
    /\ servers \in [Server -> Environment \cup {Absent}]
    /\ toolCalls = [c \in CallId |-> Nothing]
    /\ approvals = {}
    /\ audit = {}
    /\ pending = [a \in ApprovalId |-> Nothing]
    /\ threads = [t \in Thread |-> Idle]
    /\ now = 0
    /\ minted = [a \in ApprovalId |-> Nothing]
    /\ issued = {}
    /\ served = 0
    /\ executions = <<>>

-----------------------------------------------------------------------------
(* Database statements and other helpers *)

At(t, pc) == threads[t].pc = pc
IdleThread(t) == At(t, "idle")

Goto(t, pc) == threads' = [threads EXCEPT ![t].pc = pc]
Return(t) == threads' = [threads EXCEPT ![t] = Idle]

\* get_server: any row whose id or name is the reference.
Matches(ref) ==
    {s \in Server : servers[s] # Absent /\ (s = ref \/ NameOf[s] = ref)}

GetServer(ref) ==
    IF Matches(ref) = {} THEN {Nothing}
    ELSE {[id |-> s, env |-> servers[s]] : s \in Matches(ref)}

EnvOf(snapshot) == IF snapshot = Nothing THEN NoServer ELSE snapshot.env

\* tool_calls.server_id is a foreign key, so an insert needs the reference to
\* be null or the id of a row; an update by ON CONFLICT leaves the column alone.
CanSave(job) ==
    \/ toolCalls[job.call] # Nothing
    \/ job.inv.target = Nothing
    \/ job.inv.target \in Server /\ servers[job.inv.target] # Absent

SaveToolCall(job, status) ==
    toolCalls' = [toolCalls EXCEPT ![job.call] =
        IF @ # Nothing THEN [@ EXCEPT !.status = status]
        ELSE [status |-> status, inv |-> job.inv, server |-> job.inv.target]]

UpdateStatus(call, status) ==
    toolCalls' = [toolCalls EXCEPT ![call] =
        IF @ = Nothing THEN @ ELSE [@ EXCEPT !.status = status]]

\* The columns of audit_events and approvals do not name the approval (only the
\* details of APPROVAL_EXPIRED do); here they do, so that properties can relate them.
RecordAudit(type, job) ==
    audit' = audit \cup {[type |-> type, call |-> job.call, approval |-> job.approval]}

SaveApproval(t, decision) ==
    approvals' = approvals \cup
        {[approval |-> threads[t].job.approval, call |-> threads[t].job.call,
          decision |-> decision, ack |-> threads[t].sub.ack, at |-> threads[t].at]}

RequiresTyped(job) == job.decision = "REQUIRE_TYPED_CONFIRMATION"

ExpectedConfirmation(job) ==
    IF job.server = Nothing THEN "CONFIRM" ELSE NameOf[job.server.id]

-----------------------------------------------------------------------------
(* evaluate_and_stage *)

PolicyFor(inv, server) ==
    EvaluatePolicy(inv.category, inv.risk, EnvOf(server), inv.mode, inv.command)

\* Validation, target resolution and policy evaluation: one read of a table.
Evaluate(t, c, inv) ==
    /\ IdleThread(t)
    /\ served < MaxRequests
    /\ ReuseCallIds \/ c \notin issued
    /\ served' = served + 1
    /\ issued' = issued \cup {c}
    /\ IF inv.valid
       THEN \E server \in GetServer(inv.target) :
              threads' = [threads EXCEPT ![t] =
                Doing("evaluated",
                      [call |-> c, inv |-> inv, server |-> server,
                       decision |-> PolicyFor(inv, server),
                       approval |-> Nothing, expires |-> 0],
                      Nothing)]
       ELSE UNCHANGED threads
    /\ UNCHANGED <<servers, tables, pending, now, minted, executions>>

AuditEvaluation(t) ==
    /\ At(t, "evaluated")
    /\ RecordAudit("TOOL_EVALUATED", threads[t].job)
    /\ Goto(t, IF threads[t].job.decision = "ALLOW" THEN "auto_save"
               ELSE IF threads[t].job.decision = "DENY" THEN "deny_save"
               ELSE "stage_save")
    /\ UNCHANGED <<servers, toolCalls, approvals, pending, now, history>>

SaveExecuting(t) ==
    /\ At(t, "auto_save")
    /\ CanSave(threads[t].job)
    /\ SaveToolCall(threads[t].job, "EXECUTING")
    /\ Goto(t, "execute")
    /\ UNCHANGED <<servers, approvals, audit, pending, now, history>>

\* The approval id and its deadline are drawn just before the row is saved.
SavePending(t) ==
    /\ At(t, "stage_save")
    /\ CanSave(threads[t].job)
    /\ SaveToolCall(threads[t].job, "PENDING")
    /\ \E a \in {b \in ApprovalId : minted[b] = Nothing} :
         LET job == [threads[t].job EXCEPT !.approval = a,
                                           !.expires = now + Lifetime]
         IN  /\ minted' = [minted EXCEPT ![a] = job]
             /\ threads' = [threads EXCEPT ![t].pc = "stage_audit", ![t].job = job]
    /\ UNCHANGED <<servers, approvals, audit, pending, now, issued, served, executions>>

AuditRequested(t) ==
    /\ At(t, "stage_audit")
    /\ RecordAudit("APPROVAL_REQUESTED", threads[t].job)
    /\ Goto(t, "stage")
    /\ UNCHANGED <<servers, toolCalls, approvals, pending, now, history>>

Stage(t) ==
    /\ At(t, "stage")
    /\ pending' = [pending EXCEPT ![threads[t].job.approval] = threads[t].job]
    /\ Return(t)
    /\ UNCHANGED <<servers, tables, now, history>>

SaveRejected(t) ==
    /\ At(t, "deny_save")
    /\ CanSave(threads[t].job)
    /\ SaveToolCall(threads[t].job, "REJECTED")
    /\ Goto(t, "deny_audit")
    /\ UNCHANGED <<servers, approvals, audit, pending, now, history>>

AuditDenied(t) ==
    /\ At(t, "deny_audit")
    /\ RecordAudit("TOOL_DENIED", threads[t].job)
    /\ Return(t)
    /\ UNCHANGED <<servers, toolCalls, approvals, pending, now, history>>

\* save_tool_call refuses a reference that is no key of the servers table.
SaveRefused(t) ==
    /\ threads[t].pc \in {"auto_save", "stage_save", "deny_save"}
    /\ ~CanSave(threads[t].job)
    /\ Return(t)
    /\ UNCHANGED <<servers, tables, pending, now, history>>

-----------------------------------------------------------------------------
(* Execution, shared by the automatic and the approved path *)

ExecuteOk(t) ==
    /\ At(t, "execute")
    /\ executions' = Append(executions, threads[t].job)
    /\ \E pc \in {"completed", "failed"} : Goto(t, pc)
    /\ UNCHANGED <<servers, tables, pending, now, minted, issued, served>>

\* Mutant: the outcome of execute is not looked at.
ExecuteErrAudited(t) ==
    /\ ToolCanErr
    /\ At(t, "execute")
    /\ Goto(t, "failed")
    /\ UNCHANGED <<servers, tables, pending, now, history>>

\* execute returned Err, before any effect, and `?` returns it at once.
ExecuteErr(t) ==
    /\ ToolCanErr
    /\ At(t, "execute")
    /\ Return(t)
    /\ UNCHANGED <<servers, tables, pending, now, history>>

\* Mutant: a failed tool returns before its audit event.
FinishUnaudited(t) ==
    /\ threads[t].pc \in {"completed", "failed"}
    /\ UpdateStatus(threads[t].job.call,
         IF At(t, "completed") THEN "COMPLETED" ELSE "FAILED")
    /\ IF At(t, "completed") THEN Goto(t, "exec_audit") ELSE Return(t)
    /\ UNCHANGED <<servers, approvals, audit, pending, now, history>>

Finish(t) ==
    /\ threads[t].pc \in {"completed", "failed"}
    /\ UpdateStatus(threads[t].job.call,
         IF At(t, "completed") THEN "COMPLETED" ELSE "FAILED")
    /\ Goto(t, "exec_audit")
    /\ UNCHANGED <<servers, approvals, audit, pending, now, history>>

AuditExecuted(t) ==
    /\ At(t, "exec_audit")
    /\ RecordAudit("TOOL_EXECUTED", threads[t].job)
    /\ Return(t)
    /\ UNCHANGED <<servers, toolCalls, approvals, pending, now, history>>

-----------------------------------------------------------------------------
(* submit_approval *)

\* Mutant: the entry is looked up and left in the map.
SubmitPeeking(t, a, sub) ==
    /\ IdleThread(t)
    /\ pending[a] # Nothing
    /\ threads' = [threads EXCEPT ![t] = Doing("taken", pending[a], sub)]
    /\ UNCHANGED <<servers, tables, pending, now, history>>

\* An id that is not in the map is answered NotFound and changes nothing.
SubmitApproval(t, a, sub) ==
    /\ IdleThread(t)
    /\ pending[a] # Nothing
    /\ pending' = [pending EXCEPT ![a] = Nothing]
    /\ threads' = [threads EXCEPT ![t] = Doing("taken", pending[a], sub)]
    /\ UNCHANGED <<servers, tables, now, history>>

\* Mutant: the deadline is not looked at.
NeverExpired(job) == FALSE

Expired(job) == now > job.expires

Confirmed(job, sub) == ~RequiresTyped(job) \/ sub.ack = ExpectedConfirmation(job)

\* The clock is read once; `at` is the timestamp of what is recorded next.
Decide(t) ==
    LET job == threads[t].job
        sub == threads[t].sub
        pc == IF Expired(job) THEN "expire_update"
              ELSE IF ~sub.approved THEN "reject_update"
              ELSE "grant_save"
    IN  /\ At(t, "taken")
        /\ Expired(job) \/ ~sub.approved \/ Confirmed(job, sub)
        /\ threads' = [threads EXCEPT ![t].pc = pc, ![t].at = now]
        /\ UNCHANGED <<servers, tables, pending, now, history>>

\* Mutants: the entry that goes back has a new deadline, or does not go back.
ReinsertRenewed(t) ==
    LET job == threads[t].job IN
    /\ At(t, "taken")
    /\ ~Expired(job) /\ threads[t].sub.approved /\ ~Confirmed(job, threads[t].sub)
    /\ pending' = [pending EXCEPT ![job.approval] = [job EXCEPT !.expires = now + Lifetime]]
    /\ Return(t)
    /\ UNCHANGED <<servers, tables, now, history>>

ReinsertDropped(t) ==
    LET job == threads[t].job IN
    /\ At(t, "taken")
    /\ ~Expired(job) /\ threads[t].sub.approved /\ ~Confirmed(job, threads[t].sub)
    /\ Return(t)
    /\ UNCHANGED <<servers, tables, pending, now, history>>

\* Wrong typed confirmation: the entry goes back, unchanged, for a retry.
Reinsert(t) ==
    LET job == threads[t].job IN
    /\ At(t, "taken")
    /\ ~Expired(job) /\ threads[t].sub.approved /\ ~Confirmed(job, threads[t].sub)
    /\ pending' = [pending EXCEPT ![job.approval] = job]
    /\ Return(t)
    /\ UNCHANGED <<servers, tables, now, history>>

ExpireUpdate(t) ==
    /\ At(t, "expire_update")
    /\ UpdateStatus(threads[t].job.call, "CANCELLED")
    /\ Goto(t, "expire_audit")
    /\ UNCHANGED <<servers, approvals, audit, pending, now, history>>

AuditExpired(t) ==
    /\ At(t, "expire_audit")
    /\ RecordAudit("APPROVAL_EXPIRED", threads[t].job)
    /\ Return(t)
    /\ UNCHANGED <<servers, toolCalls, approvals, pending, now, history>>

RejectUpdate(t) ==
    /\ At(t, "reject_update")
    /\ UpdateStatus(threads[t].job.call, "REJECTED")
    /\ Goto(t, "reject_save")
    /\ UNCHANGED <<servers, approvals, audit, pending, now, history>>

RejectSave(t) ==
    /\ At(t, "reject_save")
    /\ SaveApproval(t, "REJECTED")
    /\ Goto(t, "reject_audit")
    /\ UNCHANGED <<servers, toolCalls, audit, pending, now, history>>

AuditRejected(t) ==
    /\ At(t, "reject_audit")
    /\ RecordAudit("APPROVAL_REJECTED", threads[t].job)
    /\ Return(t)
    /\ UNCHANGED <<servers, toolCalls, approvals, pending, now, history>>

GrantSave(t) ==
    /\ At(t, "grant_save")
    /\ SaveApproval(t, "APPROVED")
    /\ Goto(t, "grant_audit")
    /\ UNCHANGED <<servers, toolCalls, audit, pending, now, history>>

AuditGranted(t) ==
    /\ At(t, "grant_audit")
    /\ RecordAudit("APPROVAL_GRANTED", threads[t].job)
    /\ Goto(t, "grant_update")
    /\ UNCHANGED <<servers, toolCalls, approvals, pending, now, history>>

\* Mutant: the row is closed before the tool has run.
GrantCompleted(t) ==
    /\ At(t, "grant_update")
    /\ UpdateStatus(threads[t].job.call, "COMPLETED")
    /\ Goto(t, "execute")
    /\ UNCHANGED <<servers, approvals, audit, pending, now, history>>

GrantUpdate(t) ==
    /\ At(t, "grant_update")
    /\ UpdateStatus(threads[t].job.call, "EXECUTING")
    /\ Goto(t, "execute")
    /\ UNCHANGED <<servers, approvals, audit, pending, now, history>>

-----------------------------------------------------------------------------
(* list_pending, the servers table, faults and the clock *)

\* Mutant: the prune drops entries a tick before their deadline.
PruneEarly(t) ==
    /\ IdleThread(t)
    /\ pending' = [a \in ApprovalId |->
         IF pending[a] # Nothing /\ pending[a].expires > now + 1 THEN pending[a] ELSE Nothing]
    /\ UNCHANGED <<servers, tables, threads, now, history>>

\* The prune drops entries at their deadline; submission still takes them then.
ListPending(t) ==
    /\ IdleThread(t)
    /\ pending' = [a \in ApprovalId |->
         IF pending[a] # Nothing /\ pending[a].expires > now THEN pending[a] ELSE Nothing]
    /\ UNCHANGED <<servers, tables, threads, now, history>>

SaveServer(t, s, env) ==
    /\ ServersChange
    /\ IdleThread(t)
    /\ servers' = [servers EXCEPT ![s] = env]
    /\ UNCHANGED <<tables, pending, threads, now, history>>

\* The foreign key of tool_calls is ON DELETE SET NULL.
DeleteServer(t, s) ==
    /\ ServersChange
    /\ IdleThread(t)
    /\ servers' = [servers EXCEPT ![s] = Absent]
    /\ toolCalls' = [c \in CallId |->
         IF toolCalls[c] # Nothing /\ toolCalls[c].server = s
         THEN [toolCalls[c] EXCEPT !.server = Nothing] ELSE toolCalls[c]]
    /\ UNCHANGED <<approvals, audit, pending, threads, now, history>>

StorePc == {"evaluated", "auto_save", "stage_save", "stage_audit", "deny_save",
            "deny_audit", "completed", "failed", "exec_audit", "expire_update",
            "expire_audit", "reject_update", "reject_save", "reject_audit",
            "grant_save", "grant_audit", "grant_update"}

\* Every statement is followed by `?`: its error ends the handler.
DbError(t) ==
    /\ DbCanFail
    /\ threads[t].pc \in StorePc
    /\ Return(t)
    /\ UNCHANGED <<servers, tables, pending, now, history>>

Restart ==
    /\ CanRestart
    /\ pending' = [a \in ApprovalId |-> Nothing]
    /\ threads' = [t \in Thread |-> Idle]
    /\ UNCHANGED <<servers, tables, now, history>>

Tick ==
    /\ now < MaxTime
    /\ now' = now + 1
    /\ UNCHANGED <<servers, tables, pending, threads, history>>

EvaluateStep(t) ==
    \/ AuditEvaluation(t) \/ SaveExecuting(t) \/ SavePending(t)
    \/ AuditRequested(t) \/ Stage(t) \/ SaveRejected(t) \/ AuditDenied(t)
    \/ SaveRefused(t)

ExecuteStep(t) == ExecuteOk(t) \/ ExecuteErr(t) \/ Finish(t) \/ AuditExecuted(t)

SubmitStep(t) ==
    \/ Decide(t) \/ Reinsert(t)
    \/ ExpireUpdate(t) \/ AuditExpired(t)
    \/ RejectUpdate(t) \/ RejectSave(t) \/ AuditRejected(t)
    \/ GrantSave(t) \/ AuditGranted(t) \/ GrantUpdate(t)

\* The steps of a handler that has begun.
HandlerStep(t) == EvaluateStep(t) \/ ExecuteStep(t) \/ SubmitStep(t)

Next ==
    \/ \E t \in Thread :
         \/ HandlerStep(t)
         \/ DbError(t)
         \/ ListPending(t)
         \/ \E c \in CallId, inv \in Invocation : Evaluate(t, c, inv)
         \/ \E a \in ApprovalId, sub \in Submission : SubmitApproval(t, a, sub)
         \/ \E s \in Server, env \in Environment : SaveServer(t, s, env)
         \/ \E s \in Server : DeleteServer(t, s)
    \/ Restart
    \/ Tick

Spec == Init /\ [][Next]_vars

\* A handler that has begun is scheduled until it returns or hands over to the
\* executor.  Nothing is assumed of the executor: not every tool has a timeout.
LocalStep(t) == EvaluateStep(t) \/ Finish(t) \/ AuditExecuted(t) \/ SubmitStep(t)

FairSpec == Spec /\ \A t \in Thread : WF_vars(LocalStep(t))

-----------------------------------------------------------------------------
(* Properties *)

AuditEvent ==
    [type : {"TOOL_EVALUATED", "APPROVAL_REQUESTED", "APPROVAL_GRANTED",
             "APPROVAL_REJECTED", "APPROVAL_EXPIRED", "TOOL_DENIED", "TOOL_EXECUTED"},
     call : CallId, approval : ApprovalId \cup {Nothing}]

ApprovalRecord ==
    [approval : ApprovalId, call : CallId, decision : {"APPROVED", "REJECTED"},
     ack : Ack, at : Time]

Pc == StorePc \cup {"idle", "stage", "execute", "taken"}

ThreadState == [pc : Pc, job : Job \cup {Nothing},
                sub : Submission \cup {Nothing}, at : Time]

\* The tables, the map, the threads and the histories hold what their types say.
TypeOK ==
    /\ servers \in [Server -> Environment \cup {Absent}]
    /\ toolCalls \in [CallId -> Row \cup {Nothing}]
    /\ approvals \subseteq ApprovalRecord
    /\ audit \subseteq AuditEvent
    /\ pending \in [ApprovalId -> Job \cup {Nothing}]
    /\ threads \in [Thread -> ThreadState]
    /\ now \in Time
    /\ minted \in [ApprovalId -> Job \cup {Nothing}]
    /\ issued \subseteq CallId
    /\ served \in 0 .. MaxRequests
    /\ executions \in Seq(Job)

Audited(type, a) == \E e \in audit : e.type = type /\ e.approval = a
Granted(a) == \E r \in approvals : r.approval = a /\ r.decision = "APPROVED"
Rejected(a) == \E r \in approvals : r.approval = a /\ r.decision = "REJECTED"
Ran(c) == \E i \in DOMAIN executions : executions[i].call = c
Busy(c) == \E t \in Thread : ~IdleThread(t) /\ threads[t].job.call = c

\* Allowed(e): the policy, given the server as it was resolved, needs nobody.
Allowed(e) == PolicyFor(e.inv, e.server) = "ALLOW"

\* Approved(e): the user's consent was saved in time, with the typed
\* confirmation if one was asked for, and the grant was audited.
Approved(e) ==
    /\ e = minted[e.approval]
    /\ Audited("APPROVAL_GRANTED", e.approval)
    /\ \E r \in approvals :
         /\ r.approval = e.approval /\ r.decision = "APPROVED"
         /\ r.at <= e.expires
         /\ RequiresTyped(e) => r.ack = ExpectedConfirmation(e)

\* Nothing takes effect that neither the policy allowed outright nor the user
\* approved, in time and as shown, with the consent on record before the effect,
\* whatever crashes, store errors, retries and other submissions come between.
NoEffectWithoutAuthority ==
    \A i \in DOMAIN executions :
        LET e == executions[i] IN
        IF e.approval = Nothing THEN Allowed(e) ELSE Approved(e)

\* One consent is worth one effect: submitting the same approval twice (a
\* double click, two windows) never runs the tool twice.
OneEffectPerApproval ==
    \A i, j \in DOMAIN executions :
        executions[i].approval # Nothing /\ executions[i].approval = executions[j].approval
            => i = j

\* The records of one approval never contradict each other: granted, rejected
\* and expired exclude each other in the approvals table and the audit trail.
OneVerdict ==
    \A a \in ApprovalId :
        /\ ~(Granted(a) /\ Rejected(a))
        /\ ~(Audited("APPROVAL_EXPIRED", a) /\ (Granted(a) \/ Rejected(a)))
        /\ Audited("APPROVAL_GRANTED", a) => Granted(a)
        /\ Audited("APPROVAL_REJECTED", a) => Rejected(a)

\* A wrong confirmation puts the entry back as it was staged: a retry neither
\* extends the deadline nor changes the request the user sees.
PendingAsStaged ==
    \A a \in ApprovalId : pending[a] # Nothing => pending[a] = minted[a]

\* A TOOL_EXECUTED event stands for an effect, of the call and the approval that
\* it names: the trail never claims what did not happen, though tools fail, the
\* application restarts and the store refuses what comes next.
EventsTellEffects ==
    \A v \in audit : v.type = "TOOL_EXECUTED" =>
        \E i \in DOMAIN executions :
            executions[i].call = v.call /\ executions[i].approval = v.approval

\* Every effect has its TOOL_EXECUTED event or a handler that has yet to write
\* it, and every such event stands for an effect.
AuditMatchesEffects ==
    /\ \A i \in DOMAIN executions :
         LET e == executions[i] IN
         \/ \E t \in Thread : threads[t].pc \in {"completed", "failed", "exec_audit"}
                              /\ threads[t].job = e
         \/ [type |-> "TOOL_EXECUTED", call |-> e.call, approval |-> e.approval] \in audit
    /\ EventsTellEffects

\* When no two calls share an id, the status column tells what happened: a
\* finished call took effect, one pending, rejected or cancelled never did.
StatusTellsOutcome ==
    \A c \in CallId : toolCalls[c] # Nothing =>
        /\ toolCalls[c].status \in {"COMPLETED", "FAILED"} => Ran(c)
        /\ toolCalls[c].status \in {"PENDING", "REJECTED", "CANCELLED"} => ~Ran(c)

\* Without store errors and restarts, a PENDING row is one that somebody can
\* still decide, is deciding, or whose deadline has come.
PendingRowDecidable ==
    \A c \in CallId : toolCalls[c] # Nothing /\ toolCalls[c].status = "PENDING" =>
        \/ Busy(c)
        \/ \E a \in ApprovalId :
              /\ minted[a] # Nothing /\ minted[a].call = c
              /\ pending[a] # Nothing \/ minted[a].expires <= now

\* What took effect is recorded in the end: a final status and an event.
EffectIsRecorded ==
    \A c \in CallId :
        Ran(c) ~> /\ toolCalls[c] # Nothing
                  /\ toolCalls[c].status \in {"COMPLETED", "FAILED"}
                  /\ \E e \in audit : e.type = "TOOL_EXECUTED" /\ e.call = c

\* A submission that was taken from the map is settled: its approval is granted,
\* rejected or expired on record, or is back in the map.
SubmissionSettles ==
    \A a \in ApprovalId :
        (\E t \in Thread : At(t, "taken") /\ threads[t].job.approval = a)
            ~> \/ Audited("APPROVAL_GRANTED", a)
               \/ Audited("APPROVAL_REJECTED", a)
               \/ Audited("APPROVAL_EXPIRED", a)
               \/ pending[a] # Nothing
=============================================================================
