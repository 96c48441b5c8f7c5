-------------------------- MODULE ApprovalManagerProofs --------------------------
(***************************************************************************)
(* Proofs about the approval manager, for every value of its constants:    *)
(* the invariant of its tables and of the map in memory, and what follows  *)
(* from it; then what the tables tell - read through them it implements    *)
(* the gate, the status column and the audit trail are true, and a PENDING *)
(* row can still be decided.  At the end, that the policy engine it asks   *)
(* never gets laxer as a request gets stricter.                            *)
(***************************************************************************)
EXTENDS ApprovalInvariant, ApprovalRefinement, PolicyTightening, TLAPS

\* The policy engine always answers with one of its four decisions.
LEMMA PolicyType ==
    ASSUME NEW inv, NEW server
    PROVE  PolicyFor(inv, server) \in Decision
  BY DEF PolicyFor, EvaluatePolicy, Decision

\* A resolved target is a snapshot of a server, or None.
LEMMA GetServerType ==
    ASSUME TypeOK, NEW ref, NEW server \in GetServer(ref)
    PROVE  server \in ServerSnapshot \cup {Nothing}
  BY DEF TypeOK, GetServer, Matches, ServerSnapshot

\* The state in which a thread has nothing to do is one of its states.
LEMMA IdleType == Idle \in ThreadState
  BY BoundsAssumption DEF Idle, Doing, ThreadState, Pc, Time

LEMMA InitType == Init => TypeOK /\ ThreadsFit
  <1> SUFFICES ASSUME Init PROVE TypeOK /\ ThreadsFit
    OBVIOUS
  <1>1. TypeOK
    BY IdleType, BoundsAssumption DEF Init, TypeOK, Time
  <1>2. ThreadsFit
    BY DEF Init, ThreadsFit, IdleThread, At, Idle, Doing, PlainPc, CarryPc, SettlePc
  <1> QED BY <1>1, <1>2

\* A thread that only moves on keeps its type, and every other thread its state.
LEMMA GotoType ==
    ASSUME TypeOK, NEW t \in Thread, NEW pc \in Pc, Goto(t, pc)
    PROVE  /\ threads' \in [Thread -> ThreadState]
           /\ threads'[t].pc = pc
           /\ threads'[t].job = threads[t].job
           /\ threads'[t].sub = threads[t].sub
           /\ threads'[t].at = threads[t].at
           /\ \A u \in Thread : u # t => threads'[u] = threads[u]
  BY DEF TypeOK, Goto, ThreadState

LEMMA ReturnType ==
    ASSUME TypeOK, NEW t \in Thread, Return(t)
    PROVE  /\ threads' \in [Thread -> ThreadState]
           /\ threads'[t] = Idle
           /\ \A u \in Thread : u # t => threads'[u] = threads[u]
  BY IdleType DEF TypeOK, Return

\* A row written by save_tool_call or update_tool_call_status is a row.
LEMMA SaveToolCallType ==
    ASSUME TypeOK, NEW job \in Job, NEW status \in Status, CanSave(job),
           SaveToolCall(job, status)
    PROVE  toolCalls' \in [CallId -> Row \cup {Nothing}]
  <1>1. job.call \in CallId /\ job.inv \in Invocation
    BY DEF Job
  <1>2. CASE toolCalls[job.call] # Nothing
    <2>1. toolCalls[job.call] \in Row
      BY <1>1, <1>2 DEF TypeOK
    <2>2. [toolCalls[job.call] EXCEPT !.status = status] \in Row
      BY <2>1 DEF Row
    <2> QED BY <1>1, <1>2, <2>2 DEF TypeOK, SaveToolCall
  <1>3. CASE toolCalls[job.call] = Nothing
    <2>1. job.inv.target \in Server \cup {Nothing}
      BY <1>3 DEF CanSave
    <2>2. [status |-> status, inv |-> job.inv, server |-> job.inv.target] \in Row
      BY <1>1, <2>1 DEF Row
    <2> QED BY <1>1, <1>3, <2>2 DEF TypeOK, SaveToolCall
  <1> QED BY <1>2, <1>3

LEMMA UpdateStatusType ==
    ASSUME TypeOK, NEW call \in CallId, NEW status \in Status, UpdateStatus(call, status)
    PROVE  toolCalls' \in [CallId -> Row \cup {Nothing}]
  <1>1. CASE toolCalls[call] = Nothing
    BY <1>1 DEF TypeOK, UpdateStatus
  <1>2. CASE toolCalls[call] # Nothing
    <2>1. toolCalls[call] \in Row
      BY <1>2 DEF TypeOK
    <2>2. [toolCalls[call] EXCEPT !.status = status] \in Row
      BY <2>1 DEF Row
    <2> QED BY <1>2, <2>2 DEF TypeOK, UpdateStatus
  <1> QED BY <1>1, <1>2

LEMMA RecordAuditType ==
    ASSUME TypeOK, NEW job \in Job, NEW type, RecordAudit(type, job),
           type \in {"TOOL_EVALUATED", "APPROVAL_REQUESTED", "APPROVAL_GRANTED",
                     "APPROVAL_REJECTED", "APPROVAL_EXPIRED", "TOOL_DENIED", "TOOL_EXECUTED"}
    PROVE  audit' \subseteq AuditEvent
  BY DEF TypeOK, RecordAudit, AuditEvent, Job

LEMMA SaveApprovalType ==
    ASSUME TypeOK, ThreadsFit, NEW t \in Thread, threads[t].pc \in SettlePc,
           NEW decision \in {"APPROVED", "REJECTED"}, SaveApproval(t, decision)
    PROVE  approvals' \subseteq ApprovalRecord
  <1>1. threads[t].job \in Job /\ threads[t].job.approval \in ApprovalId
    BY DEF ThreadsFit, SettlePc, CarryPc, IdleThread, At
  <1>2. threads[t].sub.ack \in Ack /\ threads[t].at \in Time
    <2>1. threads[t].sub \in Submission
      BY DEF ThreadsFit
    <2> QED BY <2>1 DEF TypeOK, ThreadState, Submission, Ack
  <1>3. threads[t].job.call \in CallId
    BY <1>1 DEF Job
  <1> QED BY <1>1, <1>2, <1>3 DEF TypeOK, SaveApproval, ApprovalRecord

\* Moving on within a handler, and returning from it, keep what a thread holds
\* fit for its place.
LEMMA GotoFit ==
    ASSUME TypeOK, ThreadsFit, NEW t \in Thread, NEW pc \in Pc, Goto(t, pc),
           ~IdleThread(t),
           pc \in PlainPc => threads[t].pc \in PlainPc,
           pc \in CarryPc => threads[t].pc \in CarryPc,
           pc \in SettlePc => threads[t].pc \in SettlePc
    PROVE  threads' \in [Thread -> ThreadState] /\ ThreadsFit'
  <1>1. /\ threads' \in [Thread -> ThreadState]
        /\ threads'[t].pc = pc
        /\ threads'[t].job = threads[t].job
        /\ threads'[t].sub = threads[t].sub
        /\ \A u \in Thread : u # t => threads'[u] = threads[u]
    BY GotoType
  <1> QED BY <1>1 DEF ThreadsFit, IdleThread, At

LEMMA ReturnFit ==
    ASSUME TypeOK, ThreadsFit, NEW t \in Thread, Return(t)
    PROVE  threads' \in [Thread -> ThreadState] /\ ThreadsFit'
  <1>1. /\ threads' \in [Thread -> ThreadState]
        /\ threads'[t] = Idle
        /\ \A u \in Thread : u # t => threads'[u] = threads[u]
    BY ReturnType
  <1>2. Idle.pc = "idle" /\ "idle" \notin PlainPc \cup CarryPc \cup SettlePc
    BY DEF Idle, Doing, PlainPc, CarryPc, SettlePc
  <1> QED BY <1>1, <1>2 DEF ThreadsFit, IdleThread, At

\* Every step of evaluate_and_stage keeps the types.
LEMMA EvaluateStepType ==
    ASSUME Inv, NEW t \in Thread, EvaluateStep(t)
    PROVE  TypeOK' /\ ThreadsFit'
  <1> USE DEF Inv, At
  <1>1. CASE AuditEvaluation(t)
    <2>1. threads[t].job \in Job
      BY <1>1 DEF AuditEvaluation, ThreadsFit, IdleThread
    <2>2. audit' \subseteq AuditEvent
      BY <1>1, <2>1, RecordAuditType DEF AuditEvaluation
    <2>3. PICK pc \in {"auto_save", "deny_save", "stage_save"} : Goto(t, pc)
      BY <1>1 DEF AuditEvaluation
    <2>4. threads' \in [Thread -> ThreadState] /\ ThreadsFit'
      BY <1>1, <2>3, GotoFit DEF AuditEvaluation, IdleThread, PlainPc, CarryPc, SettlePc, Pc, StorePc
    <2> QED BY <1>1, <2>2, <2>4 DEF AuditEvaluation, TypeOK, history
  <1>2. CASE SaveExecuting(t)
    <2>1. threads[t].job \in Job
      BY <1>2 DEF SaveExecuting, ThreadsFit, IdleThread
    <2>2. toolCalls' \in [CallId -> Row \cup {Nothing}]
      BY <1>2, <2>1, SaveToolCallType DEF SaveExecuting, Status
    <2>3. threads' \in [Thread -> ThreadState] /\ ThreadsFit'
      BY <1>2, GotoFit DEF SaveExecuting, IdleThread, PlainPc, CarryPc, SettlePc, Pc, StorePc
    <2> QED BY <1>2, <2>2, <2>3 DEF SaveExecuting, TypeOK, history
  <1>3. CASE SavePending(t)
    <2>1. threads[t].job \in Job
      BY <1>3 DEF SavePending, ThreadsFit, IdleThread
    <2>2. toolCalls' \in [CallId -> Row \cup {Nothing}]
      BY <1>3, <2>1, SaveToolCallType DEF SavePending, Status
    <2>3. PICK a \in ApprovalId :
            LET job == [threads[t].job EXCEPT !.approval = a, !.expires = now + Lifetime]
            IN  /\ minted' = [minted EXCEPT ![a] = job]
                /\ threads' = [threads EXCEPT ![t].pc = "stage_audit", ![t].job = job]
      BY <1>3 DEF SavePending
    <2> DEFINE job == [threads[t].job EXCEPT !.approval = a, !.expires = now + Lifetime]
    <2>4. job \in Job /\ job.approval = a
      <3>1. now + Lifetime \in Nat
        BY BoundsAssumption DEF TypeOK, Time
      <3>2. \A j \in Job, e \in Nat :
              LET k == [j EXCEPT !.approval = a, !.expires = e]
              IN  k \in Job /\ k.approval = a
        BY DEF Job
      <3> QED BY <2>1, <3>1, <3>2
    <2> HIDE DEF job
    <2>5. minted' \in [ApprovalId -> Job \cup {Nothing}]
      BY <2>3, <2>4 DEF job, TypeOK
    <2>6. /\ threads' \in [Thread -> ThreadState]
          /\ threads'[t].pc = "stage_audit"
          /\ threads'[t].job = job
          /\ \A u \in Thread : u # t => threads'[u] = threads[u]
      <3>1. threads' = [threads EXCEPT ![t].pc = "stage_audit", ![t].job = job]
        BY <2>3 DEF job
      <3>2. threads \in [Thread -> ThreadState]
        BY DEF TypeOK
      <3> DEFINE next == [threads[t] EXCEPT !.pc = "stage_audit", !.job = job]
      <3>3. threads' = [threads EXCEPT ![t] = next]
        BY <3>1, <3>2
      <3>4. \A r \in ThreadState, j \in Job :
              LET n == [r EXCEPT !.pc = "stage_audit", !.job = j]
              IN  n \in ThreadState /\ n.pc = "stage_audit" /\ n.job = j
        BY DEF ThreadState, Pc, StorePc
      <3>5. next \in ThreadState /\ next.pc = "stage_audit" /\ next.job = job
        BY <2>4, <3>2, <3>4
      <3> HIDE DEF next
      <3> QED BY <3>2, <3>3, <3>5
    <2>7. ThreadsFit'
      BY <2>4, <2>6 DEF ThreadsFit, IdleThread, PlainPc, CarryPc, SettlePc
    <2> QED BY <1>3, <2>2, <2>5, <2>6, <2>7 DEF SavePending, TypeOK
  <1>4. CASE AuditRequested(t)
    <2>1. threads[t].job \in Job
      BY <1>4 DEF AuditRequested, ThreadsFit, IdleThread
    <2>2. audit' \subseteq AuditEvent
      BY <1>4, <2>1, RecordAuditType DEF AuditRequested
    <2>3. threads' \in [Thread -> ThreadState] /\ ThreadsFit'
      BY <1>4, GotoFit DEF AuditRequested, IdleThread, PlainPc, CarryPc, SettlePc, Pc, StorePc
    <2> QED BY <1>4, <2>2, <2>3 DEF AuditRequested, TypeOK, history
  <1>5. CASE Stage(t)
    <2>1. threads[t].job \in Job
      BY <1>5 DEF Stage, ThreadsFit, IdleThread
    <2>2. pending' \in [ApprovalId -> Job \cup {Nothing}]
      BY <1>5, <2>1 DEF Stage, TypeOK
    <2>3. threads' \in [Thread -> ThreadState] /\ ThreadsFit'
      BY <1>5, ReturnFit DEF Stage
    <2> QED BY <1>5, <2>2, <2>3 DEF Stage, TypeOK, history, tables
  <1>6. CASE SaveRejected(t)
    <2>1. threads[t].job \in Job
      BY <1>6 DEF SaveRejected, ThreadsFit, IdleThread
    <2>2. toolCalls' \in [CallId -> Row \cup {Nothing}]
      BY <1>6, <2>1, SaveToolCallType DEF SaveRejected, Status
    <2>3. threads' \in [Thread -> ThreadState] /\ ThreadsFit'
      BY <1>6, GotoFit DEF SaveRejected, IdleThread, PlainPc, CarryPc, SettlePc, Pc, StorePc
    <2> QED BY <1>6, <2>2, <2>3 DEF SaveRejected, TypeOK, history
  <1>7. CASE AuditDenied(t)
    <2>1. threads[t].job \in Job
      BY <1>7 DEF AuditDenied, ThreadsFit, IdleThread
    <2>2. audit' \subseteq AuditEvent
      BY <1>7, <2>1, RecordAuditType DEF AuditDenied
    <2>3. threads' \in [Thread -> ThreadState] /\ ThreadsFit'
      BY <1>7, ReturnFit DEF AuditDenied
    <2> QED BY <1>7, <2>2, <2>3 DEF AuditDenied, TypeOK, history
  <1>8. CASE SaveRefused(t)
    <2>1. threads' \in [Thread -> ThreadState] /\ ThreadsFit'
      BY <1>8, ReturnFit DEF SaveRefused
    <2> QED BY <1>8, <2>1 DEF SaveRefused, TypeOK, history, tables
  <1> QED
    BY <1>1, <1>2, <1>3, <1>4, <1>5, <1>6, <1>7, <1>8 DEF EvaluateStep

\* Every step of the execution keeps the types.
LEMMA ExecuteStepType ==
    ASSUME Inv, NEW t \in Thread, ExecuteStep(t)
    PROVE  TypeOK' /\ ThreadsFit'
  <1> USE DEF Inv, At
  <1>1. CASE ExecuteOk(t)
    <2>1. executions' \in Seq(Job)
      BY <1>1 DEF ExecuteOk, TypeOK, ThreadsFit, IdleThread
    <2>2. PICK pc \in {"completed", "failed"} : Goto(t, pc)
      BY <1>1 DEF ExecuteOk
    <2>3. threads' \in [Thread -> ThreadState] /\ ThreadsFit'
      BY <1>1, <2>2, GotoFit DEF ExecuteOk, IdleThread, PlainPc, CarryPc, SettlePc, Pc, StorePc
    <2> QED BY <1>1, <2>1, <2>3 DEF ExecuteOk, TypeOK, tables
  <1>2. CASE ExecuteErr(t)
    <2>1. threads' \in [Thread -> ThreadState] /\ ThreadsFit'
      BY <1>2, ReturnFit DEF ExecuteErr
    <2> QED BY <1>2, <2>1 DEF ExecuteErr, TypeOK, tables, history
  <1>3. CASE Finish(t)
    <2>1. threads[t].job.call \in CallId
      BY <1>3 DEF Finish, ThreadsFit, IdleThread, Job
    <2>2. toolCalls' \in [CallId -> Row \cup {Nothing}]
      BY <1>3, <2>1, UpdateStatusType DEF Finish, Status
    <2>3. threads' \in [Thread -> ThreadState] /\ ThreadsFit'
      BY <1>3, GotoFit DEF Finish, IdleThread, PlainPc, CarryPc, SettlePc, ExecutePc, Pc, StorePc
    <2> QED BY <1>3, <2>2, <2>3 DEF Finish, TypeOK, history
  <1>4. CASE AuditExecuted(t)
    <2>1. threads[t].job \in Job
      BY <1>4 DEF AuditExecuted, ThreadsFit, IdleThread
    <2>2. audit' \subseteq AuditEvent
      BY <1>4, <2>1, RecordAuditType DEF AuditExecuted
    <2>3. threads' \in [Thread -> ThreadState] /\ ThreadsFit'
      BY <1>4, ReturnFit DEF AuditExecuted
    <2> QED BY <1>4, <2>2, <2>3 DEF AuditExecuted, TypeOK, history
  <1> QED BY <1>1, <1>2, <1>3, <1>4 DEF ExecuteStep

\* Every step of submit_approval keeps the types.
LEMMA SubmitStepType ==
    ASSUME Inv, NEW t \in Thread, SubmitStep(t)
    PROVE  TypeOK' /\ ThreadsFit'
  <1> USE DEF Inv, At
  <1>1. CASE Decide(t)
    <2>1. PICK pc \in {"expire_update", "reject_update", "grant_save"} :
            threads' = [threads EXCEPT ![t].pc = pc, ![t].at = now]
      BY <1>1 DEF Decide
    <2>2. /\ threads' \in [Thread -> ThreadState]
          /\ threads'[t].pc = pc
          /\ threads'[t].job = threads[t].job
          /\ threads'[t].sub = threads[t].sub
          /\ \A u \in Thread : u # t => threads'[u] = threads[u]
      <3>1. threads \in [Thread -> ThreadState] /\ now \in Time
        BY DEF TypeOK
      <3>2. pc \in Pc
        BY DEF Pc, StorePc
      <3>3. \A x \in ThreadState : /\ [x EXCEPT !.pc = pc, !.at = now] \in ThreadState
                                   /\ [x EXCEPT !.pc = pc, !.at = now].pc = pc
                                   /\ [x EXCEPT !.pc = pc, !.at = now].job = x.job
                                   /\ [x EXCEPT !.pc = pc, !.at = now].sub = x.sub
        BY <3>1, <3>2 DEF ThreadState
      <3>4. threads'[t] = [threads[t] EXCEPT !.pc = pc, !.at = now]
        BY <2>1, <3>1
      <3> QED BY <2>1, <3>1, <3>3, <3>4
    <2>3. threads[t].pc = "taken"
      BY <1>1 DEF Decide
    <2>4. ThreadsFit'
      BY <2>2, <2>3 DEF ThreadsFit, IdleThread, PlainPc, CarryPc, SettlePc
    <2> QED BY <1>1, <2>2, <2>4 DEF Decide, TypeOK, tables, history
  <1>2. CASE Reinsert(t)
    <2>1. threads[t].job \in Job
      BY <1>2 DEF Reinsert, ThreadsFit, IdleThread
    <2>2. pending' \in [ApprovalId -> Job \cup {Nothing}]
      BY <1>2, <2>1 DEF Reinsert, TypeOK
    <2>3. threads' \in [Thread -> ThreadState] /\ ThreadsFit'
      BY <1>2, ReturnFit DEF Reinsert
    <2> QED BY <1>2, <2>2, <2>3 DEF Reinsert, TypeOK, history, tables
  <1>3. CASE ExpireUpdate(t)
    <2>1. threads[t].job.call \in CallId
      BY <1>3 DEF ExpireUpdate, ThreadsFit, IdleThread, Job
    <2>2. toolCalls' \in [CallId -> Row \cup {Nothing}]
      BY <1>3, <2>1, UpdateStatusType DEF ExpireUpdate, Status
    <2>3. threads' \in [Thread -> ThreadState] /\ ThreadsFit'
      BY <1>3, GotoFit DEF ExpireUpdate, IdleThread, PlainPc, CarryPc, SettlePc, ExecutePc, Pc, StorePc
    <2> QED BY <1>3, <2>2, <2>3 DEF ExpireUpdate, TypeOK, history
  <1>4. CASE AuditExpired(t)
    <2>1. threads[t].job \in Job
      BY <1>4 DEF AuditExpired, ThreadsFit, IdleThread
    <2>2. audit' \subseteq AuditEvent
      BY <1>4, <2>1, RecordAuditType DEF AuditExpired
    <2>3. threads' \in [Thread -> ThreadState] /\ ThreadsFit'
      BY <1>4, ReturnFit DEF AuditExpired
    <2> QED BY <1>4, <2>2, <2>3 DEF AuditExpired, TypeOK, history
  <1>5. CASE RejectUpdate(t)
    <2>1. threads[t].job.call \in CallId
      BY <1>5 DEF RejectUpdate, ThreadsFit, IdleThread, Job
    <2>2. toolCalls' \in [CallId -> Row \cup {Nothing}]
      BY <1>5, <2>1, UpdateStatusType DEF RejectUpdate, Status
    <2>3. threads' \in [Thread -> ThreadState] /\ ThreadsFit'
      BY <1>5, GotoFit DEF RejectUpdate, IdleThread, PlainPc, CarryPc, SettlePc, ExecutePc, Pc, StorePc
    <2> QED BY <1>5, <2>2, <2>3 DEF RejectUpdate, TypeOK, history
  <1>6. CASE RejectSave(t)
    <2>1. approvals' \subseteq ApprovalRecord
      BY <1>6, SaveApprovalType DEF RejectSave, SettlePc
    <2>2. threads' \in [Thread -> ThreadState] /\ ThreadsFit'
      BY <1>6, GotoFit DEF RejectSave, IdleThread, PlainPc, CarryPc, SettlePc, ExecutePc, Pc, StorePc
    <2> QED BY <1>6, <2>1, <2>2 DEF RejectSave, TypeOK, history
  <1>7. CASE AuditRejected(t)
    <2>1. threads[t].job \in Job
      BY <1>7 DEF AuditRejected, ThreadsFit, IdleThread
    <2>2. audit' \subseteq AuditEvent
      BY <1>7, <2>1, RecordAuditType DEF AuditRejected
    <2>3. threads' \in [Thread -> ThreadState] /\ ThreadsFit'
      BY <1>7, ReturnFit DEF AuditRejected
    <2> QED BY <1>7, <2>2, <2>3 DEF AuditRejected, TypeOK, history
  <1>8. CASE GrantSave(t)
    <2>1. approvals' \subseteq ApprovalRecord
      BY <1>8, SaveApprovalType DEF GrantSave, SettlePc
    <2>2. threads' \in [Thread -> ThreadState] /\ ThreadsFit'
      BY <1>8, GotoFit DEF GrantSave, IdleThread, PlainPc, CarryPc, SettlePc, ExecutePc, Pc, StorePc
    <2> QED BY <1>8, <2>1, <2>2 DEF GrantSave, TypeOK, history
  <1>9. CASE AuditGranted(t)
    <2>1. threads[t].job \in Job
      BY <1>9 DEF AuditGranted, ThreadsFit, IdleThread
    <2>2. audit' \subseteq AuditEvent
      BY <1>9, <2>1, RecordAuditType DEF AuditGranted
    <2>3. threads' \in [Thread -> ThreadState] /\ ThreadsFit'
      BY <1>9, GotoFit DEF AuditGranted, IdleThread, PlainPc, CarryPc, SettlePc, ExecutePc, Pc, StorePc
    <2> QED BY <1>9, <2>2, <2>3 DEF AuditGranted, TypeOK, history
  <1>10. CASE GrantUpdate(t)
    <2>1. threads[t].job.call \in CallId
      BY <1>10 DEF GrantUpdate, ThreadsFit, IdleThread, Job
    <2>2. toolCalls' \in [CallId -> Row \cup {Nothing}]
      BY <1>10, <2>1, UpdateStatusType DEF GrantUpdate, Status
    <2>3. threads' \in [Thread -> ThreadState] /\ ThreadsFit'
      BY <1>10, GotoFit DEF GrantUpdate, IdleThread, PlainPc, CarryPc, SettlePc, ExecutePc, Pc, StorePc
    <2> QED BY <1>10, <2>2, <2>3 DEF GrantUpdate, TypeOK, history
  <1> QED
    BY <1>1, <1>2, <1>3, <1>4, <1>5, <1>6, <1>7, <1>8, <1>9, <1>10 DEF SubmitStep

\* Every step keeps the types.
LEMMA StepType == ASSUME Inv, [Next]_vars PROVE TypeOK' /\ ThreadsFit'
  <1> USE DEF Inv
  <1>1. ASSUME NEW t \in Thread, HandlerStep(t) PROVE TypeOK' /\ ThreadsFit'
    BY <1>1, EvaluateStepType, ExecuteStepType, SubmitStepType DEF HandlerStep
  <1>2. ASSUME NEW t \in Thread, DbError(t) PROVE TypeOK' /\ ThreadsFit'
    <2>1. threads' \in [Thread -> ThreadState] /\ ThreadsFit'
      BY <1>2, ReturnFit DEF DbError
    <2> QED BY <1>2, <2>1 DEF DbError, TypeOK, history, tables
  <1>3. ASSUME NEW t \in Thread, ListPending(t) PROVE TypeOK' /\ ThreadsFit'
    BY <1>3 DEF ListPending, TypeOK, ThreadsFit, IdleThread, At, history, tables
  <1>4. ASSUME NEW t \in Thread, NEW c \in CallId, NEW inv \in Invocation, Evaluate(t, c, inv)
        PROVE  TypeOK' /\ ThreadsFit'
    <2>1. issued' \subseteq CallId /\ served' \in 0 .. MaxRequests
      <3>1. served < MaxRequests /\ served' = served + 1 /\ issued' = issued \cup {c}
        BY <1>4 DEF Evaluate
      <3>2. served \in 0 .. MaxRequests /\ issued \subseteq CallId
        BY DEF TypeOK
      <3> QED BY <3>1, <3>2, BoundsAssumption
    <2>2. threads' \in [Thread -> ThreadState] /\ ThreadsFit'
      <3>1. CASE ~inv.valid
        BY <1>4, <3>1 DEF Evaluate, TypeOK, ThreadsFit, IdleThread, At
      <3>2. CASE inv.valid
        <4>1. PICK server \in GetServer(inv.target) :
                threads' = [threads EXCEPT ![t] =
                  Doing("evaluated",
                        [call |-> c, inv |-> inv, server |-> server,
                         decision |-> PolicyFor(inv, server),
                         approval |-> Nothing, expires |-> 0],
                        Nothing)]
          BY <1>4, <3>2 DEF Evaluate
        <4> DEFINE job == [call |-> c, inv |-> inv, server |-> server,
                           decision |-> PolicyFor(inv, server),
                           approval |-> Nothing, expires |-> 0]
        <4>2. job \in Job /\ job.approval = Nothing
          BY PolicyType, GetServerType DEF Job
        <4> HIDE DEF job
        <4>3. threads' = [threads EXCEPT ![t] =
                [pc |-> "evaluated", job |-> job, sub |-> Nothing, at |-> 0]]
          BY <4>1 DEF job, Doing
        <4>4. [pc |-> "evaluated", job |-> job, sub |-> Nothing, at |-> 0] \in ThreadState
          BY <4>2, BoundsAssumption DEF ThreadState, Pc, StorePc, Time
        <4>5. threads' \in [Thread -> ThreadState]
          BY <4>3, <4>4 DEF TypeOK
        <4>6. ThreadsFit'
          BY <4>2, <4>3 DEF ThreadsFit, TypeOK, IdleThread, At, PlainPc, CarryPc, SettlePc
        <4> QED BY <4>5, <4>6
      <3> QED BY <3>1, <3>2
    <2> QED BY <1>4, <2>1, <2>2 DEF Evaluate, TypeOK, tables
  <1>5. ASSUME NEW t \in Thread, NEW a \in ApprovalId, NEW sub \in Submission,
               SubmitApproval(t, a, sub)
        PROVE  TypeOK' /\ ThreadsFit'
    <2>1. pending[a] \in Job /\ pending[a].approval = a
      BY <1>5 DEF SubmitApproval, TypeOK, MintedFit
    <2>2. threads' = [threads EXCEPT ![t] =
            [pc |-> "taken", job |-> pending[a], sub |-> sub, at |-> 0]]
      BY <1>5 DEF SubmitApproval, Doing
    <2>3. [pc |-> "taken", job |-> pending[a], sub |-> sub, at |-> 0] \in ThreadState
      BY <2>1, BoundsAssumption DEF ThreadState, Pc, Time
    <2>4. threads' \in [Thread -> ThreadState]
      BY <2>2, <2>3 DEF TypeOK
    <2>5. ThreadsFit'
      BY <2>1, <2>2 DEF ThreadsFit, TypeOK, IdleThread, At, PlainPc, CarryPc, SettlePc
    <2> QED BY <1>5, <2>4, <2>5 DEF SubmitApproval, TypeOK, tables, history
  <1>6. ASSUME NEW t \in Thread, NEW s \in Server, NEW env \in Environment, SaveServer(t, s, env)
        PROVE  TypeOK' /\ ThreadsFit'
    BY <1>6 DEF SaveServer, TypeOK, ThreadsFit, IdleThread, At, tables, history
  <1>7. ASSUME NEW t \in Thread, NEW s \in Server, DeleteServer(t, s)
        PROVE  TypeOK' /\ ThreadsFit'
    <2>1. toolCalls' \in [CallId -> Row \cup {Nothing}]
      BY <1>7 DEF DeleteServer, TypeOK, Row
    <2> QED BY <1>7, <2>1 DEF DeleteServer, TypeOK, ThreadsFit, IdleThread, At, history
  <1>8. CASE Restart
    <2>1. Idle.pc = "idle" /\ "idle" \notin PlainPc \cup CarryPc \cup SettlePc
      BY DEF Idle, Doing, PlainPc, CarryPc, SettlePc
    <2> QED BY <1>8, <2>1, IdleType DEF Restart, TypeOK, ThreadsFit, IdleThread, At, tables, history
  <1>9. CASE Tick
    BY <1>9, BoundsAssumption DEF Tick, TypeOK, Time, ThreadsFit, IdleThread, At, tables, history
  <1>10. CASE UNCHANGED vars
    BY <1>10 DEF vars, TypeOK, ThreadsFit, IdleThread, At, tables, history
  <1> QED
    BY <1>1, <1>2, <1>3, <1>4, <1>5, <1>6, <1>7, <1>8, <1>9, <1>10 DEF Next

-----------------------------------------------------------------------------
(* The inductive invariant *)

\* No answer is put on record, and none is lost.
SameAnswers ==
    /\ approvals' = approvals
    /\ \A e : e.type \in Verdict => (e \in audit' <=> e \in audit)

\* Thread t is at pc with the same request and submission.
MovesTo(t, pc) ==
    /\ threads'[t].pc = pc
    /\ threads'[t].job = threads[t].job
    /\ threads'[t].sub = threads[t].sub
    /\ \A u \in Thread : u # t => threads'[u] = threads[u]

\* Thread t has left its handler.
Leaves(t) ==
    /\ threads'[t].pc = "idle"
    /\ \A u \in Thread : u # t => threads'[u] = threads[u]

LEMMA GotoMoves ==
    ASSUME TypeOK, NEW t \in Thread, NEW pc \in Pc, Goto(t, pc)
    PROVE  MovesTo(t, pc) /\ threads'[t].at = threads[t].at
  BY GotoType DEF MovesTo

LEMMA ReturnLeaves ==
    ASSUME TypeOK, NEW t \in Thread, Return(t)
    PROVE  Leaves(t)
  BY ReturnType DEF Leaves, Idle, Doing

\* An approval somebody carries is a real one, and minted.
LEMMA CarriedIsMinted ==
    ASSUME Inv, NEW t \in Thread, NEW a \in ApprovalId, Carries(t, a)
    PROVE  minted[a] = threads[t].job /\ minted[a] # Nothing
  BY NothingAssumption DEF Inv, MintedFit, ThreadsFit, Carries

LEMMA StagedIsMinted ==
    ASSUME Inv, NEW a \in ApprovalId, pending[a] # Nothing
    PROVE  minted[a] = pending[a] /\ minted[a].approval = a
  BY DEF Inv, MintedFit

\* A handler that moves on and leaves the map, the answers and the effects alone.
LEMMA QuietMove ==
    ASSUME Inv, NEW t \in Thread, NEW pc, pc # "idle", ~IdleThread(t), MovesTo(t, pc),
           SameAnswers, UNCHANGED <<pending, minted, executions>>
    PROVE  MintedFit' /\ OnePlace' /\ StagedFit' /\ EffectsFit'
  <1> USE DEF Inv, MovesTo, SameAnswers, Carries, IdleThread, At
  <1>1. MintedFit'
    BY DEF MintedFit, Unanswered, NoEffect
  <1>2. OnePlace'
    BY DEF OnePlace
  <1>3. StagedFit'
    BY DEF StagedFit, Unanswered, NoEffect
  <1>4. EffectsFit'
    BY DEF EffectsFit, NoEffectWithoutAuthority, OneEffectPerApproval, OneVerdict,
           Approved, Allowed, Granted, Rejected, Audited, Verdict
  <1> QED BY <1>1, <1>2, <1>3, <1>4

\* A handler that ends and leaves them alone.
LEMMA QuietLeave ==
    ASSUME Inv, NEW t \in Thread, Leaves(t), SameAnswers,
           UNCHANGED <<pending, minted, executions>>
    PROVE  DecisionsFit' /\ MintedFit' /\ OnePlace' /\ StagedFit' /\ CarriedFit' /\ EffectsFit'
  <1> USE DEF Inv, Leaves, SameAnswers, Carries, IdleThread, At
  <1>1. DecisionsFit'
    BY DEF DecisionsFit
  <1>2. MintedFit'
    BY DEF MintedFit, Unanswered, NoEffect
  <1>3. OnePlace'
    BY DEF OnePlace
  <1>4. StagedFit'
    BY DEF StagedFit, Unanswered, NoEffect
  <1>5. CarriedFit'
    BY DEF CarriedFit, CarrierFits, Unanswered, NoEffect, Granted, Rejected, Audited, Consented,
           OnlyRejected, OnlyGranted, Verdict
  <1>6. EffectsFit'
    BY DEF EffectsFit, NoEffectWithoutAuthority, OneEffectPerApproval, OneVerdict,
           Approved, Allowed, Granted, Rejected, Audited, Verdict
  <1> QED BY <1>1, <1>2, <1>3, <1>4, <1>5, <1>6

\* A quiet move to a place that asks for nothing more than the last one did.
LEMMA QuietMoveFit ==
    ASSUME Inv, NEW t \in Thread, NEW pc, pc # "idle", ~IdleThread(t), MovesTo(t, pc),
           threads'[t].at = threads[t].at,
           SameAnswers, UNCHANGED <<pending, minted, executions>>,
           pc = "auto_save" /\ threads[t].job.approval = Nothing
              => threads[t].job.decision = "ALLOW",
           pc \in ExecutePc => threads[t].pc \in ExecutePc \cup {"auto_save", "grant_update"},
           threads[t].job.approval # Nothing =>
             /\ pc \in UnansweredPc => threads[t].pc \in UnansweredPc
             /\ pc \in CarryPc \cup {"execute"} => threads[t].pc \in CarryPc
             /\ pc = "execute" => threads[t].pc = "grant_update",
           pc \notin {"reject_audit", "grant_save", "grant_audit", "grant_update"}
    PROVE  DecisionsFit' /\ CarriedFit'
  <1> USE DEF Inv, MovesTo, SameAnswers, Carries, IdleThread, At
  <1>1. DecisionsFit'
    BY NothingAssumption DEF DecisionsFit, ThreadsFit, CarryPc, SettlePc, ExecutePc
  <1>2. CarriedFit'
    BY NothingAssumption
       DEF CarriedFit, CarrierFits, Unanswered, NoEffect, Granted, Rejected, Audited, Consented,
           OnlyRejected, OnlyGranted, Verdict, UnansweredPc, CarryPc, SettlePc
  <1> QED BY <1>1, <1>2

\* A carrier that gives its approval, unanswered and without effect, to the map.
LEMMA BackInMap ==
    ASSUME Inv, NEW t \in Thread, NEW a \in ApprovalId, Carries(t, a), Leaves(t),
           pending'[a] = minted[a],
           \A b \in ApprovalId : b # a => pending'[b] = pending[b],
           UNCHANGED <<approvals, audit, minted, executions>>,
           Unanswered(a), NoEffect(a)
    PROVE  DecisionsFit' /\ MintedFit' /\ OnePlace' /\ StagedFit' /\ CarriedFit' /\ EffectsFit'
  <1> USE DEF Inv, Leaves, Carries, IdleThread, At
  <1>1. DecisionsFit'
    BY DEF DecisionsFit
  <1>2. MintedFit'
    BY CarriedIsMinted DEF MintedFit, Unanswered, NoEffect
  <1>3. OnePlace'
    BY DEF OnePlace
  <1>4. StagedFit'
    BY DEF StagedFit, Unanswered, NoEffect
  <1>5. CarriedFit'
    BY DEF CarriedFit, CarrierFits, Unanswered, NoEffect, Granted, Rejected, Audited, Consented,
           OnlyRejected, OnlyGranted
  <1>6. EffectsFit'
    BY DEF EffectsFit, NoEffectWithoutAuthority, OneEffectPerApproval, OneVerdict,
           Approved, Allowed, Granted, Rejected, Audited
  <1> QED BY <1>1, <1>2, <1>3, <1>4, <1>5, <1>6

\* The conjuncts of the invariant other than the types.
Rest == DecisionsFit /\ MintedFit /\ OnePlace /\ StagedFit /\ CarriedFit /\ EffectsFit

\* Every step of evaluate_and_stage keeps the invariant.
LEMMA EvaluateStepRest ==
    ASSUME Inv, NEW t \in Thread, EvaluateStep(t)
    PROVE  Rest'
  <1> USE DEF Inv, At, Rest
  <1>1. CASE AuditEvaluation(t)
    <2>1. SameAnswers
      BY <1>1 DEF AuditEvaluation, SameAnswers, RecordAudit, Verdict
    <2>2. PICK pc \in {"auto_save", "deny_save", "stage_save"} :
            Goto(t, pc) /\ (pc = "auto_save" => threads[t].job.decision = "ALLOW")
      BY <1>1 DEF AuditEvaluation
    <2>3. MovesTo(t, pc) /\ threads'[t].at = threads[t].at
      BY <2>2, GotoMoves DEF Pc, StorePc
    <2> QED
      BY <1>1, <2>1, <2>2, <2>3, QuietMove, QuietMoveFit, NothingAssumption
         DEF AuditEvaluation, ThreadsFit, history, IdleThread, UnansweredPc, CarryPc, SettlePc, ExecutePc, PlainPc
  <1>2. CASE SaveExecuting(t)
    <2>1. SameAnswers
      BY <1>2 DEF SaveExecuting, SameAnswers
    <2>2. MovesTo(t, "execute") /\ threads'[t].at = threads[t].at
      BY <1>2, GotoMoves DEF SaveExecuting, Pc, StorePc
    <2> QED
      BY <1>2, <2>1, <2>2, QuietMove, QuietMoveFit, NothingAssumption
         DEF SaveExecuting, ThreadsFit, history, IdleThread, UnansweredPc, CarryPc, SettlePc, ExecutePc, PlainPc
  <1>3. CASE SavePending(t)
    <2>1. PICK a \in ApprovalId :
            /\ minted[a] = Nothing
            /\ LET job == [threads[t].job EXCEPT !.approval = a, !.expires = now + Lifetime]
               IN  /\ minted' = [minted EXCEPT ![a] = job]
                   /\ threads' = [threads EXCEPT ![t].pc = "stage_audit", ![t].job = job]
      BY <1>3 DEF SavePending
    <2>2. threads[t].job \in Job /\ threads[t].job.approval = Nothing
      BY <1>3 DEF SavePending, ThreadsFit, IdleThread, PlainPc
    <2> DEFINE job == [threads[t].job EXCEPT !.approval = a, !.expires = now + Lifetime]
    <2>3. job.approval = a
      BY <2>2 DEF Job
    <2>4. job \in Job
      <3>1. now + Lifetime \in Nat
        BY BoundsAssumption DEF TypeOK, Time
      <3>2. \A j \in Job, e \in Nat : [j EXCEPT !.approval = a, !.expires = e] \in Job
        BY DEF Job
      <3> QED BY <2>2, <3>1, <3>2
    <2>5. minted' = [minted EXCEPT ![a] = job]
      BY <2>1
    <2>6. threads' = [threads EXCEPT ![t].pc = "stage_audit", ![t].job = job]
      BY <2>1
    <2> HIDE DEF job
    <2>7. /\ threads'[t].pc = "stage_audit"
          /\ threads'[t].job = job
          /\ \A u \in Thread : u # t => threads'[u] = threads[u]
      BY <2>6 DEF TypeOK, ThreadState
    <2>8. minted'[a] = job /\ \A b \in ApprovalId : b # a => minted'[b] = minted[b]
      BY <2>5 DEF TypeOK
    <2>9. UNCHANGED <<pending, approvals, audit, executions>>
      BY <1>3 DEF SavePending
    <2>10. ~ \E u \in Thread : Carries(u, a)
      BY <2>1, CarriedIsMinted
    <2>11. pending[a] = Nothing
      BY <2>1, StagedIsMinted
    <2>12. Unanswered(a) /\ NoEffect(a)
      BY <2>1 DEF MintedFit
    <2>13. DecisionsFit'
      BY <2>3, <2>7, NothingAssumption DEF DecisionsFit, IdleThread
    <2>14. MintedFit'
      BY <2>3, <2>4, <2>7, <2>8, <2>9, <2>10, <2>11, NothingAssumption
         DEF MintedFit, Carries, IdleThread, Unanswered, NoEffect
    <2>15. OnePlace'
      BY <2>3, <2>7, <2>9, <2>10, <2>11 DEF OnePlace, Carries, IdleThread
    <2>16. StagedFit'
      BY <2>9 DEF StagedFit, Unanswered, NoEffect
    <2>17. CarriedFit'
      BY <2>3, <2>7, <2>8, <2>9, <2>10, <2>12
         DEF CarriedFit, CarrierFits, Carries, IdleThread, Unanswered, NoEffect, Granted, Rejected,
             Audited, Consented, OnlyRejected, OnlyGranted, UnansweredPc, CarryPc, SettlePc
    <2>18. EffectsFit'
      <3>1. NoEffectWithoutAuthority'
        <4> SUFFICES ASSUME NEW i \in DOMAIN executions
                     PROVE  LET e == executions[i] IN
                            IF e.approval = Nothing THEN Allowed(e) ELSE Approved(e)'
          BY <2>9 DEF NoEffectWithoutAuthority, Allowed
        <4>1. executions[i] \in Job /\ executions[i].approval # a
          BY <2>12 DEF TypeOK, NoEffect
        <4>2. minted'[executions[i].approval] = minted[executions[i].approval]
                \/ executions[i].approval = Nothing
          BY <2>8, <4>1 DEF Job
        <4> QED
          BY <2>9, <4>2 DEF EffectsFit, NoEffectWithoutAuthority, Approved, Audited
      <3>2. OneEffectPerApproval' /\ OneVerdict'
        BY <2>9 DEF EffectsFit, OneEffectPerApproval, OneVerdict, Granted, Rejected, Audited
      <3> QED BY <3>1, <3>2 DEF EffectsFit
    <2> QED BY <2>13, <2>14, <2>15, <2>16, <2>17, <2>18
  <1>4. CASE AuditRequested(t)
    <2>1. SameAnswers
      BY <1>4 DEF AuditRequested, SameAnswers, RecordAudit, Verdict
    <2>2. MovesTo(t, "stage") /\ threads'[t].at = threads[t].at
      BY <1>4, GotoMoves DEF AuditRequested, Pc, StorePc
    <2> QED
      BY <1>4, <2>1, <2>2, QuietMove, QuietMoveFit, NothingAssumption
         DEF AuditRequested, ThreadsFit, history, IdleThread, UnansweredPc, CarryPc, SettlePc, ExecutePc, PlainPc
  <1>5. CASE Stage(t)
    <2> DEFINE a == threads[t].job.approval
    <2>1. a \in ApprovalId /\ Carries(t, a)
      BY <1>5 DEF Stage, ThreadsFit, Carries, IdleThread, CarryPc
    <2>2. Leaves(t)
      BY <1>5, ReturnLeaves DEF Stage
    <2>3. /\ pending'[a] = minted[a]
          /\ \A b \in ApprovalId : b # a => pending'[b] = pending[b]
      BY <1>5, <2>1, CarriedIsMinted DEF Stage, TypeOK
    <2>4. UNCHANGED <<approvals, audit, minted, executions>>
      BY <1>5 DEF Stage, tables, history
    <2>5. Unanswered(a) /\ NoEffect(a)
      BY <1>5, <2>1 DEF Stage, CarriedFit, CarrierFits, UnansweredPc, CarryPc
    <2> HIDE DEF a
    <2> QED BY <2>1, <2>2, <2>3, <2>4, <2>5, BackInMap
  <1>6. CASE SaveRejected(t)
    <2>1. SameAnswers
      BY <1>6 DEF SaveRejected, SameAnswers
    <2>2. MovesTo(t, "deny_audit") /\ threads'[t].at = threads[t].at
      BY <1>6, GotoMoves DEF SaveRejected, Pc, StorePc
    <2> QED
      BY <1>6, <2>1, <2>2, QuietMove, QuietMoveFit, NothingAssumption
         DEF SaveRejected, ThreadsFit, history, IdleThread, UnansweredPc, CarryPc, SettlePc, ExecutePc, PlainPc
  <1>7. CASE AuditDenied(t)
    <2>1. SameAnswers
      BY <1>7 DEF AuditDenied, SameAnswers, RecordAudit, Verdict
    <2>2. Leaves(t)
      BY <1>7, ReturnLeaves DEF AuditDenied
    <2> QED BY <1>7, <2>1, <2>2, QuietLeave DEF AuditDenied, history
  <1>8. CASE SaveRefused(t)
    <2>1. SameAnswers
      BY <1>8 DEF SaveRefused, SameAnswers, tables
    <2>2. Leaves(t)
      BY <1>8, ReturnLeaves DEF SaveRefused
    <2> QED BY <1>8, <2>1, <2>2, QuietLeave DEF SaveRefused, history
  <1> QED
    BY <1>1, <1>2, <1>3, <1>4, <1>5, <1>6, <1>7, <1>8 DEF EvaluateStep

\* Every step of the execution keeps the invariant.
LEMMA ExecuteStepRest ==
    ASSUME Inv, NEW t \in Thread, ExecuteStep(t)
    PROVE  Rest'
  <1> USE DEF Inv, At, Rest
  <1>1. CASE ExecuteOk(t)
    <2> DEFINE job == threads[t].job
    <2>1. PICK pc \in {"completed", "failed"} : Goto(t, pc)
      BY <1>1 DEF ExecuteOk
    <2>2. MovesTo(t, pc)
      BY <2>1, GotoMoves DEF Pc, StorePc
    <2>3. threads[t].pc = "execute" /\ job \in Job /\ ~IdleThread(t)
      BY <1>1 DEF ExecuteOk, ThreadsFit, IdleThread
    <2>4. executions' = Append(executions, job) /\ executions \in Seq(Job)
      BY <1>1 DEF ExecuteOk, TypeOK
    <2>5. /\ DOMAIN executions' = DOMAIN executions \cup {Len(executions) + 1}
          /\ Len(executions) + 1 \notin DOMAIN executions
          /\ executions'[Len(executions) + 1] = job
          /\ \A i \in DOMAIN executions : executions'[i] = executions[i]
      BY <2>3, <2>4
    <2>6. UNCHANGED <<pending, approvals, audit, minted>>
      BY <1>1 DEF ExecuteOk, tables
    <2>7. job.approval # Nothing => job.approval \in ApprovalId /\ Carries(t, job.approval)
      BY <2>3 DEF Job, Carries
    <2> HIDE DEF job
    <2>8. \A a \in ApprovalId : job.approval # a /\ NoEffect(a) => NoEffect(a)'
      BY <2>5 DEF NoEffect
    <2>9. DecisionsFit'
      BY <2>2, <2>3 DEF DecisionsFit, MovesTo, IdleThread, ExecutePc
    <2>10. MintedFit'
      BY <2>2, <2>3, <2>6, <2>7, <2>8, CarriedIsMinted, NothingAssumption
         DEF MintedFit, MovesTo, Carries, IdleThread, Unanswered
    <2>11. OnePlace'
      BY <2>2, <2>3, <2>6 DEF OnePlace, MovesTo, Carries, IdleThread
    <2>12. StagedFit'
      BY <2>6, <2>7, <2>8, NothingAssumption DEF StagedFit, OnePlace, Unanswered
    <2>13. CarriedFit'
      BY <2>2, <2>3, <2>6, <2>7, <2>8, NothingAssumption
         DEF CarriedFit, CarrierFits, OnePlace, MovesTo, Carries, IdleThread, job, Unanswered, Granted,
             Rejected, Audited, Consented, OnlyRejected, OnlyGranted, UnansweredPc,
             CarryPc, SettlePc
    <2>14. NoEffectWithoutAuthority'
      <3>1. IF job.approval = Nothing THEN Allowed(job) ELSE Approved(job)
        <4>1. CASE job.approval = Nothing
          BY <2>3, <4>1 DEF DecisionsFit, ExecutePc, Allowed, job
        <4>2. CASE job.approval # Nothing
          BY <2>3, <2>7, <4>2, CarriedIsMinted
             DEF CarriedFit, CarrierFits, Consented, Approved, job
        <4> QED BY <4>1, <4>2
      <3> QED
        BY <2>5, <2>6, <3>1
           DEF EffectsFit, NoEffectWithoutAuthority, Allowed, Approved, Audited
    <2>15. OneEffectPerApproval'
      <3>1. job.approval # Nothing => NoEffect(job.approval)
        BY <2>3, <2>7 DEF CarriedFit, CarrierFits, job
      <3> QED BY <2>5, <3>1 DEF EffectsFit, OneEffectPerApproval, NoEffect
    <2>16. OneVerdict'
      BY <2>6 DEF EffectsFit, OneVerdict, Granted, Rejected, Audited
    <2> QED
      BY <2>9, <2>10, <2>11, <2>12, <2>13, <2>14, <2>15, <2>16 DEF EffectsFit
  <1>2. CASE ExecuteErr(t)
    <2>1. SameAnswers
      BY <1>2 DEF ExecuteErr, SameAnswers, tables
    <2>2. Leaves(t)
      BY <1>2, ReturnLeaves DEF ExecuteErr
    <2> QED BY <1>2, <2>1, <2>2, QuietLeave DEF ExecuteErr, history
  <1>3. CASE Finish(t)
    <2>1. SameAnswers
      BY <1>3 DEF Finish, SameAnswers
    <2>2. MovesTo(t, "exec_audit") /\ threads'[t].at = threads[t].at
      BY <1>3, GotoMoves DEF Finish, Pc, StorePc
    <2> QED
      BY <1>3, <2>1, <2>2, QuietMove, QuietMoveFit, NothingAssumption
         DEF Finish, ThreadsFit, history, IdleThread, UnansweredPc, CarryPc, SettlePc, ExecutePc, PlainPc
  <1>4. CASE AuditExecuted(t)
    <2>1. SameAnswers
      BY <1>4 DEF AuditExecuted, SameAnswers, RecordAudit, Verdict
    <2>2. Leaves(t)
      BY <1>4, ReturnLeaves DEF AuditExecuted
    <2> QED BY <1>4, <2>1, <2>2, QuietLeave DEF AuditExecuted, history
  <1> QED BY <1>1, <1>2, <1>3, <1>4 DEF ExecuteStep

\* Every step of submit_approval keeps the invariant.
LEMMA SubmitStepRest ==
    ASSUME Inv, NEW t \in Thread, SubmitStep(t)
    PROVE  Rest'
  <1> USE DEF Inv, At, Rest
  <1>1. CASE Decide(t)
    <2> DEFINE job == threads[t].job
    <2>1. PICK pc \in {"expire_update", "reject_update", "grant_save"} :
            /\ threads' = [threads EXCEPT ![t].pc = pc, ![t].at = now]
            /\ pc = "grant_save" => ~Expired(job) /\ Confirmed(job, threads[t].sub)
      BY <1>1 DEF Decide
    <2>2. MovesTo(t, pc) /\ threads'[t].at = now
      BY <2>1 DEF TypeOK, ThreadState, MovesTo
    <2>3. /\ threads[t].pc = "taken" /\ ~IdleThread(t)
          /\ job.approval \in ApprovalId /\ Carries(t, job.approval)
          /\ minted[job.approval] = job /\ job \in Job
      BY <1>1, CarriedIsMinted
         DEF Decide, ThreadsFit, Carries, IdleThread, CarryPc, SettlePc
    <2>4. SameAnswers /\ UNCHANGED <<pending, minted, executions>>
      BY <1>1 DEF Decide, SameAnswers, tables, history
    <2>5. MintedFit' /\ OnePlace' /\ StagedFit' /\ EffectsFit'
      BY <2>2, <2>3, <2>4, QuietMove
    <2>6. DecisionsFit'
      BY <2>2, <2>3, NothingAssumption DEF DecisionsFit, MovesTo, IdleThread
    <2>7. pc = "grant_save" => now <= job.expires
      BY <2>1, <2>3 DEF Expired, TypeOK, Time, Job
    <2>8. CarriedFit'
      <3>1. \A b \in ApprovalId :
              /\ Unanswered(b) => Unanswered(b)'
              /\ NoEffect(b) => NoEffect(b)'
              /\ Rejected(b) => Rejected(b)'
              /\ OnlyRejected(b) => OnlyRejected(b)'
              /\ Consented(b) => Consented(b)'
              /\ OnlyGranted(b) => OnlyGranted(b)'
              /\ Audited("APPROVAL_GRANTED", b) => Audited("APPROVAL_GRANTED", b)'
        BY <2>4
           DEF SameAnswers, Unanswered, NoEffect, Granted, Rejected, Audited, Consented,
               OnlyRejected, OnlyGranted, Verdict
      <3> SUFFICES ASSUME NEW b \in ApprovalId, NEW u \in Thread, Carries(u, b)'
                   PROVE  CarrierFits(u, b)'
        BY DEF CarriedFit, CarrierFits
      <3>2. CASE u = t
        <4>1. b = job.approval /\ Unanswered(b) /\ NoEffect(b)
          BY <2>2, <2>3, <3>2 DEF CarriedFit, CarrierFits, MovesTo, Carries, UnansweredPc, CarryPc, SettlePc
        <4> QED
          BY <2>1, <2>2, <2>3, <2>4, <2>7, <3>1, <3>2, <4>1 DEF MovesTo, CarrierFits, UnansweredPc, CarryPc, SettlePc
      <3>3. CASE u # t
        <4>1. threads'[u] = threads[u] /\ Carries(u, b)
          BY <2>2, <3>3 DEF MovesTo, Carries, IdleThread
        <4> QED BY <2>4, <3>1, <4>1 DEF CarriedFit, CarrierFits
      <3> QED BY <3>2, <3>3
    <2> QED BY <2>5, <2>6, <2>8
  <1>2. CASE Reinsert(t)
    <2> DEFINE a == threads[t].job.approval
    <2>1. a \in ApprovalId /\ Carries(t, a)
      BY <1>2 DEF Reinsert, ThreadsFit, Carries, IdleThread, CarryPc, SettlePc
    <2>2. Leaves(t)
      BY <1>2, ReturnLeaves DEF Reinsert
    <2>3. /\ pending'[a] = minted[a]
          /\ \A b \in ApprovalId : b # a => pending'[b] = pending[b]
      BY <1>2, <2>1, CarriedIsMinted DEF Reinsert, TypeOK
    <2>4. UNCHANGED <<approvals, audit, minted, executions>>
      BY <1>2 DEF Reinsert, tables, history
    <2>5. Unanswered(a) /\ NoEffect(a)
      BY <1>2, <2>1 DEF Reinsert, CarriedFit, CarrierFits, UnansweredPc, CarryPc, SettlePc
    <2> HIDE DEF a
    <2> QED BY <2>1, <2>2, <2>3, <2>4, <2>5, BackInMap
  <1>3. CASE ExpireUpdate(t)
    <2>1. SameAnswers
      BY <1>3 DEF ExpireUpdate, SameAnswers
    <2>2. MovesTo(t, "expire_audit") /\ threads'[t].at = threads[t].at
      BY <1>3, GotoMoves DEF ExpireUpdate, Pc, StorePc
    <2> QED
      BY <1>3, <2>1, <2>2, QuietMove, QuietMoveFit, NothingAssumption
         DEF ExpireUpdate, ThreadsFit, history, IdleThread, UnansweredPc, CarryPc, SettlePc, ExecutePc, PlainPc
  <1>4. CASE AuditExpired(t)
    <2> DEFINE a == threads[t].job.approval
    <2>1. /\ threads[t].pc = "expire_audit" /\ a \in ApprovalId /\ Carries(t, a)
          /\ minted[a] = threads[t].job /\ minted[a] # Nothing
      BY <1>4, CarriedIsMinted DEF AuditExpired, ThreadsFit, Carries, IdleThread, CarryPc, SettlePc
    <2>2. Leaves(t)
      BY <1>4, ReturnLeaves DEF AuditExpired
    <2>3. PICK e : e.approval = a /\ e.type = "APPROVAL_EXPIRED" /\ audit' = audit \cup {e}
      BY <1>4 DEF AuditExpired, RecordAudit
    <2>4. UNCHANGED <<pending, approvals, minted, executions>>
      BY <1>4 DEF AuditExpired, history
    <2>5. \A b \in ApprovalId : b # a /\ Unanswered(b) => Unanswered(b)'
      BY <2>3, <2>4 DEF Unanswered
    <2>6. pending[a] = Nothing /\ \A u \in Thread : Carries(u, a) => u = t
      BY <2>1 DEF OnePlace
    <2>7. DecisionsFit'
      BY <2>1, <2>2, NothingAssumption DEF DecisionsFit, Leaves, IdleThread, ExecutePc
    <2>8. MintedFit'
      BY <2>1, <2>2, <2>4, <2>5 DEF MintedFit, Leaves, Carries, IdleThread, NoEffect
    <2>9. OnePlace'
      BY <2>1, <2>2, <2>4 DEF OnePlace, Leaves, Carries, IdleThread
    <2>10. StagedFit'
      BY <2>4, <2>5, <2>6 DEF StagedFit, NoEffect
    <2>11. CarriedFit'
      BY <2>1, <2>2, <2>3, <2>4, <2>5, <2>6
         DEF CarriedFit, CarrierFits, Leaves, Carries, IdleThread, Unanswered, NoEffect, Granted, Rejected, Audited, Consented, OnlyRejected, OnlyGranted,
             Confirmed, UnansweredPc, CarryPc, SettlePc, Verdict
    <2>12. EffectsFit'
      BY <2>1, <2>3, <2>4
         DEF EffectsFit, NoEffectWithoutAuthority, OneEffectPerApproval, OneVerdict, Approved,
             Allowed, CarriedFit, CarrierFits, Unanswered, NoEffect, Granted, Rejected, Audited, Consented, OnlyRejected, OnlyGranted,
             UnansweredPc, CarryPc, SettlePc, Verdict
    <2> QED BY <2>7, <2>8, <2>9, <2>10, <2>11, <2>12
  <1>5. CASE RejectUpdate(t)
    <2>1. SameAnswers
      BY <1>5 DEF RejectUpdate, SameAnswers
    <2>2. MovesTo(t, "reject_save") /\ threads'[t].at = threads[t].at
      BY <1>5, GotoMoves DEF RejectUpdate, Pc, StorePc
    <2> QED
      BY <1>5, <2>1, <2>2, QuietMove, QuietMoveFit, NothingAssumption
         DEF RejectUpdate, ThreadsFit, history, IdleThread, UnansweredPc, CarryPc, SettlePc, ExecutePc, PlainPc
  <1>6. CASE RejectSave(t)
    <2> DEFINE a == threads[t].job.approval
    <2>1. /\ threads[t].pc = "reject_save" /\ a \in ApprovalId /\ Carries(t, a)
          /\ minted[a] = threads[t].job /\ minted[a] # Nothing
      BY <1>6, CarriedIsMinted DEF RejectSave, ThreadsFit, Carries, IdleThread, CarryPc, SettlePc
    <2>2. MovesTo(t, "reject_audit") /\ threads'[t].at = threads[t].at
      BY <1>6, GotoMoves DEF RejectSave, Pc, StorePc
    <2>3. PICK r : /\ r.approval = a /\ r.decision = "REJECTED"
                   /\ r.ack = threads[t].sub.ack /\ r.at = threads[t].at
                   /\ approvals' = approvals \cup {r}
      BY <1>6 DEF RejectSave, SaveApproval
    <2>4. UNCHANGED <<pending, audit, minted, executions>>
      BY <1>6 DEF RejectSave, history
    <2>5. \A b \in ApprovalId : b # a /\ Unanswered(b) => Unanswered(b)'
      BY <2>3, <2>4 DEF Unanswered
    <2>6. pending[a] = Nothing /\ \A u \in Thread : Carries(u, a) => u = t
      BY <2>1 DEF OnePlace
    <2>7. DecisionsFit'
      BY <2>1, <2>2, NothingAssumption DEF DecisionsFit, MovesTo, IdleThread, ExecutePc
    <2>8. MintedFit'
      BY <2>1, <2>2, <2>4, <2>5 DEF MintedFit, MovesTo, Carries, IdleThread, NoEffect
    <2>9. OnePlace'
      BY <2>1, <2>2, <2>4 DEF OnePlace, MovesTo, Carries, IdleThread
    <2>10. StagedFit'
      BY <2>4, <2>5, <2>6 DEF StagedFit, NoEffect
    <2>11. CarriedFit'
      BY <2>1, <2>2, <2>3, <2>4, <2>5, <2>6
         DEF CarriedFit, CarrierFits, MovesTo, Carries, IdleThread, Unanswered, NoEffect, Granted, Rejected, Audited, Consented, OnlyRejected, OnlyGranted,
             Confirmed, UnansweredPc, CarryPc, SettlePc, Verdict
    <2>12. EffectsFit'
      BY <2>1, <2>3, <2>4
         DEF EffectsFit, NoEffectWithoutAuthority, OneEffectPerApproval, OneVerdict, Approved,
             Allowed, CarriedFit, CarrierFits, Unanswered, NoEffect, Granted, Rejected, Audited, Consented, OnlyRejected, OnlyGranted,
             UnansweredPc, CarryPc, SettlePc, Verdict
    <2> QED BY <2>7, <2>8, <2>9, <2>10, <2>11, <2>12
  <1>7. CASE AuditRejected(t)
    <2> DEFINE a == threads[t].job.approval
    <2>1. /\ threads[t].pc = "reject_audit" /\ a \in ApprovalId /\ Carries(t, a)
          /\ minted[a] = threads[t].job /\ minted[a] # Nothing
      BY <1>7, CarriedIsMinted DEF AuditRejected, ThreadsFit, Carries, IdleThread, CarryPc, SettlePc
    <2>2. Leaves(t)
      BY <1>7, ReturnLeaves DEF AuditRejected
    <2>3. PICK e : e.approval = a /\ e.type = "APPROVAL_REJECTED" /\ audit' = audit \cup {e}
      BY <1>7 DEF AuditRejected, RecordAudit
    <2>4. UNCHANGED <<pending, approvals, minted, executions>>
      BY <1>7 DEF AuditRejected, history
    <2>5. \A b \in ApprovalId : b # a /\ Unanswered(b) => Unanswered(b)'
      BY <2>3, <2>4 DEF Unanswered
    <2>6. pending[a] = Nothing /\ \A u \in Thread : Carries(u, a) => u = t
      BY <2>1 DEF OnePlace
    <2>7. DecisionsFit'
      BY <2>1, <2>2, NothingAssumption DEF DecisionsFit, Leaves, IdleThread, ExecutePc
    <2>8. MintedFit'
      BY <2>1, <2>2, <2>4, <2>5 DEF MintedFit, Leaves, Carries, IdleThread, NoEffect
    <2>9. OnePlace'
      BY <2>1, <2>2, <2>4 DEF OnePlace, Leaves, Carries, IdleThread
    <2>10. StagedFit'
      BY <2>4, <2>5, <2>6 DEF StagedFit, NoEffect
    <2>11. CarriedFit'
      BY <2>1, <2>2, <2>3, <2>4, <2>5, <2>6
         DEF CarriedFit, CarrierFits, Leaves, Carries, IdleThread, Unanswered, NoEffect, Granted, Rejected, Audited, Consented, OnlyRejected, OnlyGranted,
             Confirmed, UnansweredPc, CarryPc, SettlePc, Verdict
    <2>12. EffectsFit'
      BY <2>1, <2>3, <2>4
         DEF EffectsFit, NoEffectWithoutAuthority, OneEffectPerApproval, OneVerdict, Approved,
             Allowed, CarriedFit, CarrierFits, Unanswered, NoEffect, Granted, Rejected, Audited, Consented, OnlyRejected, OnlyGranted,
             UnansweredPc, CarryPc, SettlePc, Verdict
    <2> QED BY <2>7, <2>8, <2>9, <2>10, <2>11, <2>12
  <1>8. CASE GrantSave(t)
    <2> DEFINE a == threads[t].job.approval
    <2>1. /\ threads[t].pc = "grant_save" /\ a \in ApprovalId /\ Carries(t, a)
          /\ minted[a] = threads[t].job /\ minted[a] # Nothing
      BY <1>8, CarriedIsMinted DEF GrantSave, ThreadsFit, Carries, IdleThread, CarryPc, SettlePc
    <2>2. MovesTo(t, "grant_audit") /\ threads'[t].at = threads[t].at
      BY <1>8, GotoMoves DEF GrantSave, Pc, StorePc
    <2>3. PICK r : /\ r.approval = a /\ r.decision = "APPROVED"
                   /\ r.ack = threads[t].sub.ack /\ r.at = threads[t].at
                   /\ approvals' = approvals \cup {r}
      BY <1>8 DEF GrantSave, SaveApproval
    <2>4. UNCHANGED <<pending, audit, minted, executions>>
      BY <1>8 DEF GrantSave, history
    <2>5. \A b \in ApprovalId : b # a /\ Unanswered(b) => Unanswered(b)'
      BY <2>3, <2>4 DEF Unanswered
    <2>6. pending[a] = Nothing /\ \A u \in Thread : Carries(u, a) => u = t
      BY <2>1 DEF OnePlace
    <2>7. DecisionsFit'
      BY <2>1, <2>2, NothingAssumption DEF DecisionsFit, MovesTo, IdleThread, ExecutePc
    <2>8. MintedFit'
      BY <2>1, <2>2, <2>4, <2>5 DEF MintedFit, MovesTo, Carries, IdleThread, NoEffect
    <2>9. OnePlace'
      BY <2>1, <2>2, <2>4 DEF OnePlace, MovesTo, Carries, IdleThread
    <2>10. StagedFit'
      BY <2>4, <2>5, <2>6 DEF StagedFit, NoEffect
    <2>11. CarriedFit'
      BY <2>1, <2>2, <2>3, <2>4, <2>5, <2>6
         DEF CarriedFit, CarrierFits, MovesTo, Carries, IdleThread, Unanswered, NoEffect, Granted, Rejected, Audited, Consented, OnlyRejected, OnlyGranted,
             Confirmed, UnansweredPc, CarryPc, SettlePc, Verdict
    <2>12. EffectsFit'
      BY <2>1, <2>3, <2>4
         DEF EffectsFit, NoEffectWithoutAuthority, OneEffectPerApproval, OneVerdict, Approved,
             Allowed, CarriedFit, CarrierFits, Unanswered, NoEffect, Granted, Rejected, Audited, Consented, OnlyRejected, OnlyGranted,
             UnansweredPc, CarryPc, SettlePc, Verdict
    <2> QED BY <2>7, <2>8, <2>9, <2>10, <2>11, <2>12
  <1>9. CASE AuditGranted(t)
    <2> DEFINE a == threads[t].job.approval
    <2>1. /\ threads[t].pc = "grant_audit" /\ a \in ApprovalId /\ Carries(t, a)
          /\ minted[a] = threads[t].job /\ minted[a] # Nothing
      BY <1>9, CarriedIsMinted DEF AuditGranted, ThreadsFit, Carries, IdleThread, CarryPc, SettlePc
    <2>2. MovesTo(t, "grant_update") /\ threads'[t].at = threads[t].at
      BY <1>9, GotoMoves DEF AuditGranted, Pc, StorePc
    <2>3. PICK e : e.approval = a /\ e.type = "APPROVAL_GRANTED" /\ audit' = audit \cup {e}
      BY <1>9 DEF AuditGranted, RecordAudit
    <2>4. UNCHANGED <<pending, approvals, minted, executions>>
      BY <1>9 DEF AuditGranted, history
    <2>5. \A b \in ApprovalId : b # a /\ Unanswered(b) => Unanswered(b)'
      BY <2>3, <2>4 DEF Unanswered
    <2>6. pending[a] = Nothing /\ \A u \in Thread : Carries(u, a) => u = t
      BY <2>1 DEF OnePlace
    <2>7. DecisionsFit'
      BY <2>1, <2>2, NothingAssumption DEF DecisionsFit, MovesTo, IdleThread, ExecutePc
    <2>8. MintedFit'
      BY <2>1, <2>2, <2>4, <2>5 DEF MintedFit, MovesTo, Carries, IdleThread, NoEffect
    <2>9. OnePlace'
      BY <2>1, <2>2, <2>4 DEF OnePlace, MovesTo, Carries, IdleThread
    <2>10. StagedFit'
      BY <2>4, <2>5, <2>6 DEF StagedFit, NoEffect
    <2>11. CarriedFit'
      BY <2>1, <2>2, <2>3, <2>4, <2>5, <2>6
         DEF CarriedFit, CarrierFits, MovesTo, Carries, IdleThread, Unanswered, NoEffect, Granted, Rejected, Audited, Consented, OnlyRejected, OnlyGranted,
             Confirmed, UnansweredPc, CarryPc, SettlePc, Verdict
    <2>12. EffectsFit'
      BY <2>1, <2>3, <2>4
         DEF EffectsFit, NoEffectWithoutAuthority, OneEffectPerApproval, OneVerdict, Approved,
             Allowed, CarriedFit, CarrierFits, Unanswered, NoEffect, Granted, Rejected, Audited, Consented, OnlyRejected, OnlyGranted,
             UnansweredPc, CarryPc, SettlePc, Verdict
    <2> QED BY <2>7, <2>8, <2>9, <2>10, <2>11, <2>12
  <1>10. CASE GrantUpdate(t)
    <2>1. SameAnswers
      BY <1>10 DEF GrantUpdate, SameAnswers
    <2>2. MovesTo(t, "execute") /\ threads'[t].at = threads[t].at
      BY <1>10, GotoMoves DEF GrantUpdate, Pc, StorePc
    <2> QED
      BY <1>10, <2>1, <2>2, QuietMove, QuietMoveFit, NothingAssumption
         DEF GrantUpdate, ThreadsFit, history, IdleThread, UnansweredPc, CarryPc, SettlePc, ExecutePc, PlainPc
  <1> QED
    BY <1>1, <1>2, <1>3, <1>4, <1>5, <1>6, <1>7, <1>8, <1>9, <1>10 DEF SubmitStep

\* The initial states satisfy the invariant.
LEMMA InitInv == Init => Inv
  <1> SUFFICES ASSUME Init PROVE Inv
    OBVIOUS
  <1>1. \A t \in Thread : IdleThread(t)
    BY DEF Init, IdleThread, At, Idle, Doing
  <1>2. DecisionsFit /\ OnePlace /\ CarriedFit
    BY <1>1 DEF DecisionsFit, OnePlace, CarriedFit, Carries
  <1>3. MintedFit /\ StagedFit
    BY <1>1 DEF Init, MintedFit, StagedFit, Carries, Unanswered, NoEffect
  <1>4. EffectsFit
    BY DEF Init, EffectsFit, NoEffectWithoutAuthority, OneEffectPerApproval, OneVerdict,
           Granted, Rejected, Audited
  <1> QED BY <1>2, <1>3, <1>4, InitType DEF Inv

\* A step that leaves the map, the handlers, the answers and the effects alone.
LEMMA Elsewhere ==
    ASSUME Inv, UNCHANGED <<pending, threads, approvals, audit, minted, executions>>
    PROVE  Rest'
  <1> USE DEF Inv, Rest, Carries, IdleThread, At
  <1>1. DecisionsFit' /\ MintedFit' /\ OnePlace' /\ StagedFit'
    BY DEF DecisionsFit, MintedFit, OnePlace, StagedFit, Unanswered, NoEffect
  <1>2. CarriedFit'
    BY DEF CarriedFit, CarrierFits, Unanswered, NoEffect, Granted, Rejected, Audited,
           Consented, OnlyRejected, OnlyGranted
  <1>3. EffectsFit'
    BY DEF EffectsFit, NoEffectWithoutAuthority, OneEffectPerApproval, OneVerdict,
           Approved, Allowed, Granted, Rejected, Audited
  <1> QED BY <1>1, <1>2, <1>3

\* A step that only drops approvals from the map, or handlers with them.
LEMMA Forgets ==
    ASSUME Inv,
           \A a \in ApprovalId : pending'[a] \in {pending[a], Nothing},
           \A t \in Thread : threads'[t] = threads[t] \/ threads'[t].pc = "idle",
           UNCHANGED <<approvals, audit, minted, executions>>
    PROVE  Rest'
  <1> USE DEF Inv, Rest, Carries, IdleThread, At
  <1>1. DecisionsFit' /\ OnePlace'
    BY DEF DecisionsFit, OnePlace
  <1>2. MintedFit' /\ StagedFit'
    BY DEF MintedFit, StagedFit, Unanswered, NoEffect
  <1>3. CarriedFit'
    BY DEF CarriedFit, CarrierFits, Unanswered, NoEffect, Granted, Rejected, Audited,
           Consented, OnlyRejected, OnlyGranted
  <1>4. EffectsFit'
    BY DEF EffectsFit, NoEffectWithoutAuthority, OneEffectPerApproval, OneVerdict,
           Approved, Allowed, Granted, Rejected, Audited
  <1> QED BY <1>1, <1>2, <1>3, <1>4

\* Every step keeps the invariant.
LEMMA StepInv == Inv /\ [Next]_vars => Inv'
  <1> SUFFICES ASSUME Inv, [Next]_vars PROVE Rest'
    BY StepType DEF Inv, Rest
  <1>1. ASSUME NEW t \in Thread, HandlerStep(t) PROVE Rest'
    BY <1>1, EvaluateStepRest, ExecuteStepRest, SubmitStepRest DEF HandlerStep
  <1>2. ASSUME NEW t \in Thread, DbError(t) PROVE Rest'
    <2>1. Leaves(t)
      BY <1>2, ReturnLeaves DEF DbError, Inv
    <2>2. SameAnswers
      BY <1>2 DEF DbError, SameAnswers, tables
    <2> QED BY <1>2, <2>1, <2>2, QuietLeave DEF DbError, history, Rest
  <1>3. ASSUME NEW t \in Thread, ListPending(t) PROVE Rest'
    BY <1>3, Forgets DEF ListPending, tables, history
  <1>4. ASSUME NEW t \in Thread, NEW c \in CallId, NEW inv \in Invocation, Evaluate(t, c, inv)
        PROVE  Rest'
    <2>1. UNCHANGED <<pending, approvals, audit, minted, executions>>
      BY <1>4 DEF Evaluate, tables
    <2>2. CASE ~inv.valid
      BY <1>4, <2>1, <2>2, Elsewhere DEF Evaluate
    <2>3. CASE inv.valid
      <3>1. PICK server \in GetServer(inv.target) :
              threads' = [threads EXCEPT ![t] =
                Doing("evaluated",
                      [call |-> c, inv |-> inv, server |-> server,
                       decision |-> PolicyFor(inv, server),
                       approval |-> Nothing, expires |-> 0],
                      Nothing)]
        BY <1>4, <2>3 DEF Evaluate
      <3> DEFINE job == [call |-> c, inv |-> inv, server |-> server,
                         decision |-> PolicyFor(inv, server),
                         approval |-> Nothing, expires |-> 0]
      <3>2. /\ threads'[t].pc = "evaluated"
            /\ threads'[t].job = job
            /\ \A u \in Thread : u # t => threads'[u] = threads[u]
        BY <3>1 DEF Doing, Inv, TypeOK
      <3>3. /\ job.approval = Nothing /\ job.inv = inv /\ job.server = server
            /\ job.decision = PolicyFor(inv, server)
        OBVIOUS
      <3> HIDE DEF job
      <3>4. \A u \in Thread, a \in ApprovalId :
              Carries(u, a)' => u # t /\ Carries(u, a) /\ threads'[u] = threads[u]
        BY <3>2, <3>3, NothingAssumption DEF Carries, IdleThread, At
      <3>5. DecisionsFit'
        BY <3>2, <3>3 DEF Inv, DecisionsFit, IdleThread, At, ExecutePc
      <3>6. MintedFit' /\ OnePlace' /\ StagedFit'
        BY <2>1, <3>4 DEF Inv, MintedFit, OnePlace, StagedFit, Unanswered, NoEffect
      <3>7. CarriedFit'
        BY <2>1, <3>4
           DEF Inv, CarriedFit, CarrierFits, Unanswered, NoEffect, Granted, Rejected,
               Audited, Consented, OnlyRejected, OnlyGranted
      <3>8. EffectsFit'
        BY <2>1
           DEF Inv, EffectsFit, NoEffectWithoutAuthority, OneEffectPerApproval, OneVerdict,
               Approved, Allowed, Granted, Rejected, Audited
      <3> QED BY <3>5, <3>6, <3>7, <3>8 DEF Rest
    <2> QED BY <2>2, <2>3
  <1>5. ASSUME NEW t \in Thread, NEW a \in ApprovalId, NEW sub \in Submission,
               SubmitApproval(t, a, sub)
        PROVE  Rest'
    <2>1. /\ pending[a] # Nothing /\ pending[a] = minted[a] /\ minted[a].approval = a
          /\ Unanswered(a) /\ NoEffect(a)
      BY <1>5, StagedIsMinted DEF SubmitApproval, Inv, StagedFit
    <2>2. /\ pending'[a] = Nothing
          /\ \A b \in ApprovalId : b # a => pending'[b] = pending[b]
      BY <1>5 DEF SubmitApproval, Inv, TypeOK
    <2>3. /\ threads'[t].pc = "taken" /\ threads'[t].job = pending[a]
          /\ \A u \in Thread : u # t => threads'[u] = threads[u]
      BY <1>5 DEF SubmitApproval, Doing, Inv, TypeOK
    <2>4. UNCHANGED <<approvals, audit, minted, executions>>
      BY <1>5 DEF SubmitApproval, tables, history
    <2>5. \A u \in Thread, b \in ApprovalId : Carries(u, b)' =>
            \/ u = t /\ b = a
            \/ u # t /\ b # a /\ Carries(u, b) /\ threads'[u] = threads[u]
      BY <2>1, <2>3 DEF Inv, OnePlace, Carries, IdleThread, At
    <2>6. DecisionsFit'
      BY <2>1, <2>3, NothingAssumption DEF Inv, DecisionsFit, IdleThread, At
    <2>7. MintedFit'
      BY <2>1, <2>2, <2>3, <2>4, <2>5 DEF Inv, MintedFit, Unanswered, NoEffect
    <2>8. OnePlace' /\ StagedFit'
      BY <2>2, <2>4, <2>5 DEF Inv, OnePlace, StagedFit, Unanswered, NoEffect
    <2>9. CarriedFit'
      BY <2>1, <2>3, <2>4, <2>5
         DEF Inv, CarriedFit, CarrierFits, Unanswered, NoEffect, Granted, Rejected, Audited,
             Consented, OnlyRejected, OnlyGranted, UnansweredPc, CarryPc, SettlePc
    <2>10. EffectsFit'
      BY <2>4
         DEF Inv, EffectsFit, NoEffectWithoutAuthority, OneEffectPerApproval, OneVerdict,
             Approved, Allowed, Granted, Rejected, Audited
    <2> QED BY <2>6, <2>7, <2>8, <2>9, <2>10 DEF Rest
  <1>6. ASSUME NEW t \in Thread, NEW s \in Server, NEW env \in Environment, SaveServer(t, s, env)
        PROVE  Rest'
    BY <1>6, Elsewhere DEF SaveServer, tables, history
  <1>7. ASSUME NEW t \in Thread, NEW s \in Server, DeleteServer(t, s)
        PROVE  Rest'
    BY <1>7, Elsewhere DEF DeleteServer, history
  <1>8. CASE Restart
    BY <1>8, Forgets DEF Restart, Idle, Doing, tables, history
  <1>9. CASE Tick
    BY <1>9, Elsewhere DEF Tick, tables, history
  <1>10. CASE UNCHANGED vars
    BY <1>10, Elsewhere DEF vars, tables, history
  <1> QED
    BY <1>1, <1>2, <1>3, <1>4, <1>5, <1>6, <1>7, <1>8, <1>9, <1>10 DEF Next

\* The invariant holds in every state the approval manager reaches.
THEOREM Invariance == Spec => []Inv
  BY InitInv, StepInv, PTL DEF Spec

\* The tables, the map, the threads and the histories hold what their types say.
THEOREM TypeCorrect == Spec => []TypeOK
  <1>1. Inv => TypeOK
    BY DEF Inv
  <1> QED BY <1>1, Invariance, PTL

\* Whatever took effect was allowed by the policy or approved by the user, in
\* time and, if asked for, typed, and the consent was on record before.
THEOREM Authority == Spec => []NoEffectWithoutAuthority
  <1>1. Inv => NoEffectWithoutAuthority
    BY DEF Inv, EffectsFit
  <1> QED BY <1>1, Invariance, PTL

\* However often an approval is submitted, it has one effect at most.
THEOREM AtMostOnce == Spec => []OneEffectPerApproval
  <1>1. Inv => OneEffectPerApproval
    BY DEF Inv, EffectsFit
  <1> QED BY <1>1, Invariance, PTL

\* The records of an approval never contradict each other.
THEOREM SingleVerdict == Spec => []OneVerdict
  <1>1. Inv => OneVerdict
    BY DEF Inv, EffectsFit
  <1> QED BY <1>1, Invariance, PTL

\* What waits in the map is what was staged, deadline included.
THEOREM StagedUnchanged == Spec => []PendingAsStaged
  <1>1. Inv => PendingAsStaged
    BY DEF Inv, MintedFit, PendingAsStaged
  <1> QED BY <1>1, Invariance, PTL

-----------------------------------------------------------------------------
(* The gate *)

Consents == [a \in ApprovalId |-> ConsentOf(a)]
Effects == [i \in DOMAIN executions |-> executions[i].approval]

\* Nothing is asked for at first, and nothing done.
LEMMA InitRefines == Init => Gate!Init
  <1> SUFFICES ASSUME Init PROVE Gate!Init
    OBVIOUS
  <1>1. Consents = [a \in ApprovalId |-> "none"]
    BY DEF Init, Consents, ConsentOf
  <1>2. Effects = <<>>
    BY DEF Init, Effects
  <1> QED BY <1>1, <1>2 DEF Gate!Init, Consents, Effects

\* The step that puts an answer to a on record, or asks for it, changes the
\* consent of a alone.
LEMMA ConsentChanges ==
    ASSUME NEW a \in ApprovalId, NEW old, NEW new,
           Consents[a] = old, ConsentOf(a)' = new,
           \A b \in ApprovalId : b # a => ConsentOf(b)' = ConsentOf(b)
    PROVE  Consents' = [Consents EXCEPT ![a] = new]
  BY DEF Consents

\* A step that leaves the answers, what was minted and the effects alone.
LEMMA Stutters ==
    ASSUME SameAnswers, UNCHANGED <<minted, executions>>
    PROVE  UNCHANGED <<Consents, Effects>>
  <1>1. ASSUME NEW a \in ApprovalId PROVE ConsentOf(a)' = ConsentOf(a)
    BY DEF SameAnswers, ConsentOf, Granted, Rejected, Audited, Verdict
  <1> QED BY <1>1 DEF Consents, Effects

\* The row of a submission is the request of the gate.
LEMMA SavePendingRefines ==
    ASSUME Inv, NEW t \in Thread, SavePending(t)
    PROVE  [Gate!Next]_<<Consents, Effects>>
  <1>1. PICK a \in ApprovalId :
          /\ minted[a] = Nothing
          /\ minted' = [minted EXCEPT ![a] =
               [threads[t].job EXCEPT !.approval = a, !.expires = now + Lifetime]]
    BY DEF SavePending
  <1>2. UNCHANGED <<approvals, audit, executions>>
    BY DEF SavePending
  <1>3. minted'[a] # Nothing
    <2>1. threads[t].job \in Job
      BY DEF SavePending, Inv, ThreadsFit, IdleThread, At
    <2>2. now + Lifetime \in Nat
      BY BoundsAssumption DEF Inv, TypeOK, Time
    <2>3. \A j \in Job, e \in Nat : [j EXCEPT !.approval = a, !.expires = e] \in Job
      BY DEF Job
    <2>4. minted \in [ApprovalId -> Job \cup {Nothing}]
      BY DEF Inv, TypeOK
    <2>5. minted'[a] \in Job
      BY <1>1, <2>1, <2>2, <2>3, <2>4
    <2> QED BY <2>5, NothingAssumption
  <1>4. Unanswered(a)
    BY <1>1 DEF Inv, MintedFit
  <1>5. Consents[a] = "none" /\ ConsentOf(a)' = "asked"
    BY <1>1, <1>2, <1>3, <1>4
       DEF Consents, ConsentOf, Unanswered, Granted, Rejected, Audited, Verdict
  <1>6. \A b \in ApprovalId : b # a => ConsentOf(b)' = ConsentOf(b)
    BY <1>1, <1>2 DEF Inv, TypeOK, ConsentOf, Granted, Rejected, Audited
  <1>7. Consents' = [Consents EXCEPT ![a] = "asked"]
    BY <1>5, <1>6, ConsentChanges
  <1>8. Effects' = Effects
    BY <1>2 DEF Effects
  <1>9. Gate!Ask(a)
    BY <1>5, <1>7, <1>8 DEF Gate!Ask, Consents, Effects
  <1> QED BY <1>9 DEF Gate!Next

\* The row that grants is the grant.
LEMMA GrantSaveRefines ==
    ASSUME Inv, NEW t \in Thread, GrantSave(t)
    PROVE  [Gate!Next]_<<Consents, Effects>>
  <1>0. PICK a \in ApprovalId : a = threads[t].job.approval
    BY DEF GrantSave, Inv, ThreadsFit, At, CarryPc, SettlePc
  <1>1. Carries(t, a) /\ minted[a] # Nothing
    BY <1>0, CarriedIsMinted DEF GrantSave, Carries, IdleThread, At
  <1>2. Unanswered(a)
    BY <1>1 DEF GrantSave, At, Inv, CarriedFit, CarrierFits, UnansweredPc
  <1>3. PICK r : /\ r.approval = a /\ r.decision = "APPROVED"
                 /\ approvals' = approvals \cup {r}
    BY <1>0 DEF GrantSave, SaveApproval
  <1>4. UNCHANGED <<audit, minted, executions>>
    BY DEF GrantSave, history
  <1>5. Consents[a] = "asked" /\ ConsentOf(a)' = "granted"
    BY <1>1, <1>2, <1>3, <1>4
       DEF Consents, ConsentOf, Unanswered, Granted, Rejected, Audited, Verdict
  <1>6. \A b \in ApprovalId : b # a => ConsentOf(b)' = ConsentOf(b)
    BY <1>3, <1>4 DEF ConsentOf, Granted, Rejected, Audited
  <1>7. Consents' = [Consents EXCEPT ![a] = "granted"]
    BY <1>1, <1>5, <1>6, ConsentChanges
  <1>8. Effects' = Effects
    BY <1>4 DEF Effects
  <1>9. Gate!Answer(a, "granted")
    BY <1>5, <1>7, <1>8 DEF Gate!Answer, Consents, Effects
  <1> QED BY <1>1, <1>9 DEF Gate!Next

\* The row that rejects is the refusal.
LEMMA RejectSaveRefines ==
    ASSUME Inv, NEW t \in Thread, RejectSave(t)
    PROVE  [Gate!Next]_<<Consents, Effects>>
  <1>0. PICK a \in ApprovalId : a = threads[t].job.approval
    BY DEF RejectSave, Inv, ThreadsFit, At, CarryPc, SettlePc
  <1>1. Carries(t, a) /\ minted[a] # Nothing
    BY <1>0, CarriedIsMinted DEF RejectSave, Carries, IdleThread, At
  <1>2. Unanswered(a)
    BY <1>1 DEF RejectSave, At, Inv, CarriedFit, CarrierFits, UnansweredPc
  <1>3. PICK r : /\ r.approval = a /\ r.decision = "REJECTED"
                 /\ approvals' = approvals \cup {r}
    BY <1>0 DEF RejectSave, SaveApproval
  <1>4. UNCHANGED <<audit, minted, executions>>
    BY DEF RejectSave, history
  <1>5. Consents[a] = "asked" /\ ConsentOf(a)' = "refused"
    BY <1>1, <1>2, <1>3, <1>4
       DEF Consents, ConsentOf, Unanswered, Granted, Rejected, Audited, Verdict
  <1>6. \A b \in ApprovalId : b # a => ConsentOf(b)' = ConsentOf(b)
    BY <1>3, <1>4 DEF ConsentOf, Granted, Rejected, Audited
  <1>7. Consents' = [Consents EXCEPT ![a] = "refused"]
    BY <1>1, <1>5, <1>6, ConsentChanges
  <1>8. Effects' = Effects
    BY <1>4 DEF Effects
  <1>9. Gate!Answer(a, "refused")
    BY <1>5, <1>7, <1>8 DEF Gate!Answer, Consents, Effects
  <1> QED BY <1>1, <1>9 DEF Gate!Next

\* An expired request is refused.
LEMMA AuditExpiredRefines ==
    ASSUME Inv, NEW t \in Thread, AuditExpired(t)
    PROVE  [Gate!Next]_<<Consents, Effects>>
  <1>0. PICK a \in ApprovalId : a = threads[t].job.approval
    BY DEF AuditExpired, Inv, ThreadsFit, At, CarryPc, SettlePc
  <1>1. Carries(t, a) /\ minted[a] # Nothing
    BY <1>0, CarriedIsMinted DEF AuditExpired, Carries, IdleThread, At
  <1>2. Unanswered(a)
    BY <1>1 DEF AuditExpired, At, Inv, CarriedFit, CarrierFits, UnansweredPc
  <1>3. PICK e : e.approval = a /\ e.type = "APPROVAL_EXPIRED" /\ audit' = audit \cup {e}
    BY <1>0 DEF AuditExpired, RecordAudit
  <1>4. UNCHANGED <<approvals, minted, executions>>
    BY DEF AuditExpired, history
  <1>5. Consents[a] = "asked" /\ ConsentOf(a)' = "refused"
    BY <1>1, <1>2, <1>3, <1>4
       DEF Consents, ConsentOf, Unanswered, Granted, Rejected, Audited, Verdict
  <1>6. \A b \in ApprovalId : b # a => ConsentOf(b)' = ConsentOf(b)
    BY <1>3, <1>4 DEF ConsentOf, Granted, Rejected, Audited
  <1>7. Consents' = [Consents EXCEPT ![a] = "refused"]
    BY <1>1, <1>5, <1>6, ConsentChanges
  <1>8. Effects' = Effects
    BY <1>4 DEF Effects
  <1>9. Gate!Answer(a, "refused")
    BY <1>5, <1>7, <1>8 DEF Gate!Answer, Consents, Effects
  <1> QED BY <1>1, <1>9 DEF Gate!Next

\* The event that follows a saved answer changes nothing in the answer.
LEMMA AuditRejectedRefines ==
    ASSUME Inv, NEW t \in Thread, AuditRejected(t)
    PROVE  UNCHANGED <<Consents, Effects>>
  <1> DEFINE a == threads[t].job.approval
  <1>1. PICK e : e.approval = a /\ e.type = "APPROVAL_REJECTED" /\ audit' = audit \cup {e}
    BY DEF AuditRejected, RecordAudit
  <1>2. UNCHANGED <<approvals, minted, executions>>
    BY DEF AuditRejected, history
  <1>3. \A b \in ApprovalId : ConsentOf(b)' = ConsentOf(b)
    BY <1>1, <1>2 DEF ConsentOf, Granted, Rejected, Audited
  <1> QED BY <1>2, <1>3 DEF Consents, Effects

\* The event that follows a saved answer changes nothing in the answer.
LEMMA AuditGrantedRefines ==
    ASSUME Inv, NEW t \in Thread, AuditGranted(t)
    PROVE  UNCHANGED <<Consents, Effects>>
  <1> DEFINE a == threads[t].job.approval
  <1>1. PICK e : e.approval = a /\ e.type = "APPROVAL_GRANTED" /\ audit' = audit \cup {e}
    BY DEF AuditGranted, RecordAudit
  <1>2. UNCHANGED <<approvals, minted, executions>>
    BY DEF AuditGranted, history
  <1>3. \A b \in ApprovalId : ConsentOf(b)' = ConsentOf(b)
    BY <1>1, <1>2 DEF ConsentOf, Granted, Rejected, Audited
  <1> QED BY <1>2, <1>3 DEF Consents, Effects

\* The execution is that of the gate.
LEMMA ExecuteOkRefines ==
    ASSUME Inv, NEW t \in Thread, ExecuteOk(t)
    PROVE  [Gate!Next]_<<Consents, Effects>>
  <1> DEFINE job == threads[t].job
  <1>1. threads[t].pc = "execute" /\ job \in Job /\ ~IdleThread(t)
    BY DEF ExecuteOk, Inv, ThreadsFit, IdleThread, At
  <1>2. executions' = Append(executions, job) /\ executions \in Seq(Job)
    BY DEF ExecuteOk, Inv, TypeOK
  <1>3. UNCHANGED <<approvals, audit, minted>>
    BY DEF ExecuteOk, tables
  <1> HIDE DEF job
  <1>4. Consents' = Consents
    BY <1>3 DEF Consents, ConsentOf, Granted, Rejected, Audited
  <1>5. PICK a \in ApprovalId \cup {Nothing} : a = job.approval
    BY <1>1 DEF Job
  <1>6. Effects' = Append(Effects, a)
    <2>1. Effects \in Seq(ApprovalId \cup {Nothing}) /\ Len(Effects) = Len(executions)
      <3>1. \A i \in 1 .. Len(executions) : executions[i].approval \in ApprovalId \cup {Nothing}
        <4>1. \A i \in 1 .. Len(executions) : executions[i] \in Job
          BY <1>2
        <4>2. \A j \in Job : j.approval \in ApprovalId \cup {Nothing}
          BY DEF Job
        <4> QED BY <4>1, <4>2
      <3>2. Effects = [i \in 1 .. Len(executions) |-> executions[i].approval]
        BY <1>2 DEF Effects
      <3>3. Len(executions) \in Nat
        BY <1>2
      <3> QED BY <3>1, <3>2, <3>3
    <2>2. Effects' = [i \in 1 .. (Len(executions) + 1) |->
                        IF i = Len(executions) + 1 THEN a ELSE executions[i].approval]
      BY <1>1, <1>2, <1>5 DEF Effects
    <2>3. Append(Effects, a) = [i \in 1 .. (Len(executions) + 1) |->
                        IF i = Len(executions) + 1 THEN a ELSE executions[i].approval]
      BY <1>2, <1>5, <2>1 DEF Effects
    <2> QED BY <2>2, <2>3
  <1>7. CASE a = Nothing
    <2>1. Gate!AutomaticEffect
      BY <1>4, <1>6, <1>7 DEF Gate!AutomaticEffect, Consents, Effects
    <2> QED BY <2>1 DEF Gate!Next
  <1>8. CASE a # Nothing
    <2>1. a \in ApprovalId /\ Carries(t, a)
      BY <1>1, <1>5, <1>8 DEF Carries, job
    <2>2. Consented(a) /\ NoEffect(a) /\ minted[a] # Nothing
      BY <1>1, <2>1, CarriedIsMinted DEF Inv, CarriedFit, CarrierFits
    <2>3. Consents[a] = "granted"
      BY <2>1, <2>2 DEF Consents, ConsentOf, Consented, Granted
    <2>4. \A i \in DOMAIN Effects : Effects[i] # a
      BY <2>2 DEF Effects, NoEffect
    <2>5. Gate!Effect(a)
      BY <1>4, <1>6, <2>3, <2>4 DEF Gate!Effect, Consents, Effects
    <2> QED BY <2>1, <2>5 DEF Gate!Next
  <1> QED BY <1>7, <1>8

\* Every step is a step of the gate, or one the gate does not see.
LEMMA StepRefines == Inv /\ [Next]_vars => [Gate!Next]_<<Consents, Effects>>
  <1> SUFFICES ASSUME Inv, [Next]_vars PROVE [Gate!Next]_<<Consents, Effects>>
    OBVIOUS
  <1>1. ASSUME NEW t \in Thread, EvaluateStep(t) PROVE [Gate!Next]_<<Consents, Effects>>
    <2>1. CASE SavePending(t)
      BY <2>1, SavePendingRefines
    <2>2. CASE ~SavePending(t)
      <3>1. SameAnswers /\ UNCHANGED <<minted, executions>>
        BY <1>1, <2>2
           DEF EvaluateStep, AuditEvaluation, SaveExecuting, AuditRequested, Stage,
               SaveRejected, AuditDenied, SaveRefused, SameAnswers, RecordAudit, Verdict,
               history, tables
      <3> QED BY <3>1, Stutters
    <2> QED BY <2>1, <2>2
  <1>2. ASSUME NEW t \in Thread, ExecuteStep(t) PROVE [Gate!Next]_<<Consents, Effects>>
    <2>1. CASE ExecuteOk(t)
      BY <2>1, ExecuteOkRefines
    <2>2. CASE ~ExecuteOk(t)
      <3>1. SameAnswers /\ UNCHANGED <<minted, executions>>
        BY <1>2, <2>2
           DEF ExecuteStep, ExecuteErr, Finish, AuditExecuted, SameAnswers, RecordAudit,
               Verdict, history, tables
      <3> QED BY <3>1, Stutters
    <2> QED BY <2>1, <2>2
  <1>3. ASSUME NEW t \in Thread, SubmitStep(t) PROVE [Gate!Next]_<<Consents, Effects>>
    <2>1. CASE GrantSave(t) \/ RejectSave(t) \/ AuditExpired(t)
      BY <2>1, GrantSaveRefines, RejectSaveRefines, AuditExpiredRefines
    <2>2. CASE AuditRejected(t) \/ AuditGranted(t)
      BY <2>2, AuditRejectedRefines, AuditGrantedRefines
    <2>3. CASE \/ Decide(t) \/ Reinsert(t) \/ ExpireUpdate(t) \/ RejectUpdate(t)
               \/ GrantUpdate(t)
      <3>1. SameAnswers /\ UNCHANGED <<minted, executions>>
        BY <2>3
           DEF Decide, Reinsert, ExpireUpdate, RejectUpdate, GrantUpdate, SameAnswers,
               history, tables
      <3> QED BY <3>1, Stutters
    <2> QED BY <1>3, <2>1, <2>2, <2>3 DEF SubmitStep
  <1>4. ASSUME NEW t \in Thread,
               \/ DbError(t) \/ ListPending(t)
               \/ \E c \in CallId, inv \in Invocation : Evaluate(t, c, inv)
               \/ \E a \in ApprovalId, sub \in Submission : SubmitApproval(t, a, sub)
               \/ \E s \in Server, env \in Environment : SaveServer(t, s, env)
               \/ \E s \in Server : DeleteServer(t, s)
        PROVE  [Gate!Next]_<<Consents, Effects>>
    <2>1. SameAnswers /\ UNCHANGED <<minted, executions>>
      BY <1>4
         DEF DbError, ListPending, Evaluate, SubmitApproval, SaveServer, DeleteServer,
             SameAnswers, history, tables
    <2> QED BY <2>1, Stutters
  <1>5. CASE Restart \/ Tick \/ UNCHANGED vars
    <2>1. SameAnswers /\ UNCHANGED <<minted, executions>>
      BY <1>5 DEF Restart, Tick, vars, SameAnswers, history, tables
    <2> QED BY <2>1, Stutters
  <1> QED
    BY <1>1, <1>2, <1>3, <1>4, <1>5 DEF Next, HandlerStep

\* Read through its tables, the approval manager implements the gate.
THEOREM Refinement == Spec => ImplementsGate
  <1>1. Inv /\ [Next]_vars => [Gate!Next]_Gate!gateVars
    BY StepRefines DEF Gate!gateVars, Consents, Effects
  <1> QED BY <1>1, InitRefines, Invariance, PTL DEF Spec, ImplementsGate, Gate!Spec

-----------------------------------------------------------------------------
(* The status column *)

\* The statements that write the row of a call write its status, and leave the
\* rows of the others.
Writes(c, status) ==
    /\ toolCalls'[c] # Nothing => toolCalls'[c].status = status
    /\ \A d \in CallId : d # c => toolCalls'[d] = toolCalls[d]

\* UPDATE tool_calls SET status.
LEMMA UpdateWrites ==
    ASSUME TypeOK, NEW c \in CallId, NEW status, UpdateStatus(c, status)
    PROVE  Writes(c, status)
  <1>1. CASE toolCalls[c] = Nothing
    BY <1>1 DEF TypeOK, UpdateStatus, Writes
  <1>2. CASE toolCalls[c] # Nothing
    <2>1. toolCalls[c] \in Row
      BY <1>2 DEF TypeOK
    <2>2. [toolCalls[c] EXCEPT !.status = status].status = status
      BY <2>1 DEF Row
    <2> QED BY <1>2, <2>2 DEF TypeOK, UpdateStatus, Writes
  <1> QED BY <1>1, <1>2

\* INSERT INTO tool_calls ... ON CONFLICT DO UPDATE SET status.
LEMMA SaveWrites ==
    ASSUME TypeOK, NEW job \in Job, NEW status, SaveToolCall(job, status)
    PROVE  Writes(job.call, status)
  <1>1. job.call \in CallId
    BY DEF Job
  <1>2. CASE toolCalls[job.call] = Nothing
    BY <1>1, <1>2 DEF TypeOK, SaveToolCall, Writes
  <1>3. CASE toolCalls[job.call] # Nothing
    <2>1. toolCalls[job.call] \in Row
      BY <1>1, <1>3 DEF TypeOK
    <2>2. [toolCalls[job.call] EXCEPT !.status = status].status = status
      BY <2>1 DEF Row
    <2> QED BY <1>1, <1>3, <2>2 DEF TypeOK, SaveToolCall, Writes
  <1> QED BY <1>2, <1>3

\* What a step of the handler on t does to its call c: it stays with the thread,
\* leaves it, or goes to the map; it may run; its row says so.
Keeps(t, c) ==
    /\ issued' = issued
    /\ \A u \in Thread : u # t => threads'[u] = threads[u]
    /\ threads'[t].pc # "idle" => threads'[t].job.call = c

Moves(t, c) ==
    /\ \A a \in ApprovalId : pending'[a] # pending[a] =>
         /\ pending'[a].call = c
         /\ threads'[t].pc = "idle" /\ threads[t].pc \notin RanPc
    /\ \A a, b \in ApprovalId : pending'[a] # pending[a] /\ pending'[b] # pending[b] => a = b

Runs(t) ==
    \/ /\ executions' = executions
       /\ threads'[t].pc # "idle" => (threads'[t].pc \in RanPc <=> threads[t].pc \in RanPc)
    \/ /\ executions' = Append(executions, threads[t].job)
       /\ threads[t].pc = "execute" /\ threads'[t].pc \in RanPc
       /\ toolCalls' = toolCalls

Tells(t, c) ==
    \/ toolCalls' = toolCalls /\ threads'[t].pc # "execute"
    \/ /\ Writes(c, "EXECUTING")
    \/ /\ Writes(c, "COMPLETED") \/ Writes(c, "FAILED")
       /\ threads[t].pc \in RanPc /\ threads'[t].pc # "execute"
    \/ /\ Writes(c, "PENDING") \/ Writes(c, "REJECTED") \/ Writes(c, "CANCELLED")
       /\ threads[t].pc \notin RanPc /\ threads'[t].pc # "execute"
       /\ executions' = executions

OutcomeStep(t) ==
    LET c == threads[t].job.call IN
    Keeps(t, c) /\ Moves(t, c) /\ Runs(t) /\ Tells(t, c)

\* A handler that has begun works for a call.
LEMMA HandlerCall ==
    ASSUME Inv, NEW t \in Thread, ~IdleThread(t)
    PROVE  threads[t].job \in Job /\ threads[t].job.call \in CallId
  BY DEF Inv, ThreadsFit, Job

\* A step that writes no row and no effect, and moves on or returns.
LEMMA PlainMove ==
    ASSUME Inv, NEW t \in Thread, NEW pc \in Pc, Goto(t, pc), ~IdleThread(t),
           pc # "execute", pc \in RanPc <=> threads[t].pc \in RanPc,
           UNCHANGED <<toolCalls, pending, issued, executions>>
    PROVE  OutcomeStep(t)
  <1>1. MovesTo(t, pc)
    BY GotoMoves DEF Inv
  <1> QED
    BY <1>1 DEF MovesTo, OutcomeStep, Keeps, Moves, Runs, Tells

\* A return tells nothing new.
LEMMA PlainReturn ==
    ASSUME Inv, NEW t \in Thread, Return(t),
           UNCHANGED <<toolCalls, pending, issued, executions>>
    PROVE  OutcomeStep(t)
  <1>1. Leaves(t)
    BY ReturnLeaves DEF Inv
  <1> QED
    BY <1>1 DEF Leaves, OutcomeStep, Keeps, Moves, Runs, Tells

\* A step that writes the row of its call and moves on.
LEMMA WritingMove ==
    ASSUME Inv, NEW t \in Thread, NEW pc \in Pc, Goto(t, pc), ~IdleThread(t),
           NEW status, Writes(threads[t].job.call, status),
           pc = "execute" => status = "EXECUTING",
           status \in {"EXECUTING", "COMPLETED", "FAILED", "PENDING", "REJECTED", "CANCELLED"},
           status \in {"COMPLETED", "FAILED"} => threads[t].pc \in RanPc,
           status \in {"PENDING", "REJECTED", "CANCELLED"} => threads[t].pc \notin RanPc,
           pc \in RanPc <=> threads[t].pc \in RanPc,
           UNCHANGED <<pending, issued, executions>>
    PROVE  OutcomeStep(t)
  <1>1. MovesTo(t, pc)
    BY GotoMoves DEF Inv
  <1> QED
    BY <1>1 DEF MovesTo, OutcomeStep, Keeps, Moves, Runs, Tells

\* Every step of a handler, and a store error that ends it, is of this shape.
LEMMA EvaluateOutcome ==
    ASSUME Inv, NEW t \in Thread, EvaluateStep(t)
    PROVE  OutcomeStep(t) /\ ~IdleThread(t)
  <1> USE DEF At, IdleThread
  <1>1. CASE AuditEvaluation(t)
    BY <1>1, PlainMove DEF AuditEvaluation, history, RanPc, Pc, StorePc
  <1>2. CASE SaveExecuting(t)
    <2>1. Writes(threads[t].job.call, "EXECUTING")
      BY <1>2, HandlerCall, SaveWrites DEF SaveExecuting, Inv
    <2> QED BY <1>2, <2>1, WritingMove DEF SaveExecuting, history, RanPc, Pc, StorePc
  <1>3. CASE SavePending(t)
    <2> DEFINE c == threads[t].job.call
    <2>1. Writes(c, "PENDING") /\ threads[t].job \in Job
      BY <1>3, HandlerCall, SaveWrites DEF SavePending, Inv
    <2>2. PICK a \in ApprovalId :
            LET job == [threads[t].job EXCEPT !.approval = a, !.expires = now + Lifetime]
            IN  threads' = [threads EXCEPT ![t].pc = "stage_audit", ![t].job = job]
      BY <1>3 DEF SavePending
    <2> DEFINE job == [threads[t].job EXCEPT !.approval = a, !.expires = now + Lifetime]
    <2>3. job.call = c
      BY <2>1 DEF Job
    <2> HIDE DEF job
    <2>4. /\ threads'[t].pc = "stage_audit" /\ threads'[t].job = job
          /\ \A u \in Thread : u # t => threads'[u] = threads[u]
      BY <2>2 DEF job, Inv, TypeOK, ThreadState
    <2>5. UNCHANGED <<pending, issued, executions>> /\ threads[t].pc = "stage_save"
      BY <1>3 DEF SavePending
    <2> QED
      BY <2>1, <2>3, <2>4, <2>5 DEF OutcomeStep, Keeps, Moves, Runs, Tells, RanPc
  <1>4. CASE AuditRequested(t)
    BY <1>4, PlainMove DEF AuditRequested, history, RanPc, Pc, StorePc
  <1>5. CASE Stage(t)
    <2> DEFINE a == threads[t].job.approval
    <2>1. Leaves(t)
      BY <1>5, ReturnLeaves DEF Stage, Inv
    <2>2. /\ pending'[a] = threads[t].job
          /\ \A b \in ApprovalId : b # a => pending'[b] = pending[b]
      BY <1>5 DEF Stage, Inv, TypeOK, ThreadsFit, CarryPc
    <2>3. UNCHANGED <<toolCalls, issued, executions>> /\ threads[t].pc = "stage"
      BY <1>5 DEF Stage, tables, history
    <2> QED
      BY <2>1, <2>2, <2>3 DEF Leaves, OutcomeStep, Keeps, Moves, Runs, Tells, RanPc
  <1>6. CASE SaveRejected(t)
    <2>1. Writes(threads[t].job.call, "REJECTED")
      BY <1>6, HandlerCall, SaveWrites DEF SaveRejected, Inv
    <2> QED BY <1>6, <2>1, WritingMove DEF SaveRejected, history, RanPc, Pc, StorePc
  <1>7. CASE AuditDenied(t)
    BY <1>7, PlainReturn DEF AuditDenied, history
  <1>8. CASE SaveRefused(t)
    BY <1>8, PlainReturn DEF SaveRefused, tables, history
  <1> QED
    BY <1>1, <1>2, <1>3, <1>4, <1>5, <1>6, <1>7, <1>8 DEF EvaluateStep

\* The steps of an execution tell what happened.
LEMMA ExecuteOutcome ==
    ASSUME Inv, NEW t \in Thread, ExecuteStep(t)
    PROVE  OutcomeStep(t) /\ ~IdleThread(t)
  <1> USE DEF At, IdleThread
  <1>1. CASE ExecuteOk(t)
    <2>1. PICK pc \in {"completed", "failed"} : Goto(t, pc)
      BY <1>1 DEF ExecuteOk
    <2>2. MovesTo(t, pc)
      BY <2>1, GotoMoves DEF Pc, StorePc, Inv
    <2>3. /\ UNCHANGED <<toolCalls, pending, issued>> /\ threads[t].pc = "execute"
          /\ executions' = Append(executions, threads[t].job)
      BY <1>1 DEF ExecuteOk, tables
    <2> QED
      BY <2>2, <2>3 DEF MovesTo, OutcomeStep, Keeps, Moves, Runs, Tells, RanPc
  <1>2. CASE ExecuteErr(t)
    BY <1>2, PlainReturn DEF ExecuteErr, tables, history
  <1>3. CASE Finish(t)
    <2>1. PICK status \in {"COMPLETED", "FAILED"} : UpdateStatus(threads[t].job.call, status)
      BY <1>3 DEF Finish
    <2>2. Writes(threads[t].job.call, status)
      BY <1>3, <2>1, HandlerCall, UpdateWrites DEF Finish, Inv
    <2>3. /\ Goto(t, "exec_audit") /\ UNCHANGED <<pending, issued, executions>>
          /\ threads[t].pc \in {"completed", "failed"}
      BY <1>3 DEF Finish, history
    <2>4. "exec_audit" \in Pc
      BY DEF Pc, StorePc
    <2> QED BY <2>2, <2>3, <2>4, WritingMove DEF RanPc
  <1>4. CASE AuditExecuted(t)
    BY <1>4, PlainReturn DEF AuditExecuted, history
  <1> QED BY <1>1, <1>2, <1>3, <1>4 DEF ExecuteStep

\* So do the steps of a submission.
LEMMA SubmitOutcome ==
    ASSUME Inv, NEW t \in Thread, SubmitStep(t)
    PROVE  OutcomeStep(t) /\ ~IdleThread(t)
  <1> USE DEF At, IdleThread
  <1>1. CASE Decide(t)
    <2>1. PICK pc \in {"expire_update", "reject_update", "grant_save"} :
            threads' = [threads EXCEPT ![t].pc = pc, ![t].at = now]
      BY <1>1 DEF Decide
    <2>2. /\ threads'[t].pc = pc /\ threads'[t].job = threads[t].job
          /\ \A u \in Thread : u # t => threads'[u] = threads[u]
      BY <2>1 DEF Inv, TypeOK, ThreadState
    <2>3. UNCHANGED <<toolCalls, pending, issued, executions>> /\ threads[t].pc = "taken"
      BY <1>1 DEF Decide, tables, history
    <2> QED
      BY <2>2, <2>3 DEF OutcomeStep, Keeps, Moves, Runs, Tells, RanPc
  <1>2. CASE Reinsert(t)
    <2> DEFINE a == threads[t].job.approval
    <2>1. Leaves(t)
      BY <1>2, ReturnLeaves DEF Reinsert, Inv
    <2>2. /\ pending'[a] = threads[t].job
          /\ \A b \in ApprovalId : b # a => pending'[b] = pending[b]
      BY <1>2 DEF Reinsert, Inv, TypeOK, ThreadsFit, CarryPc, SettlePc
    <2>3. UNCHANGED <<toolCalls, issued, executions>> /\ threads[t].pc = "taken"
      BY <1>2 DEF Reinsert, tables, history
    <2> QED
      BY <2>1, <2>2, <2>3 DEF Leaves, OutcomeStep, Keeps, Moves, Runs, Tells, RanPc
  <1>3. CASE ExpireUpdate(t)
    <2>1. Writes(threads[t].job.call, "CANCELLED")
      BY <1>3, HandlerCall, UpdateWrites DEF ExpireUpdate, Inv
    <2> QED BY <1>3, <2>1, WritingMove DEF ExpireUpdate, history, RanPc, Pc, StorePc
  <1>4. CASE AuditExpired(t)
    BY <1>4, PlainReturn DEF AuditExpired, history
  <1>5. CASE RejectUpdate(t)
    <2>1. Writes(threads[t].job.call, "REJECTED")
      BY <1>5, HandlerCall, UpdateWrites DEF RejectUpdate, Inv
    <2> QED BY <1>5, <2>1, WritingMove DEF RejectUpdate, history, RanPc, Pc, StorePc
  <1>6. CASE RejectSave(t)
    BY <1>6, PlainMove DEF RejectSave, history, RanPc, Pc, StorePc
  <1>7. CASE AuditRejected(t)
    BY <1>7, PlainReturn DEF AuditRejected, history
  <1>8. CASE GrantSave(t)
    BY <1>8, PlainMove DEF GrantSave, history, RanPc, Pc, StorePc
  <1>9. CASE AuditGranted(t)
    BY <1>9, PlainMove DEF AuditGranted, history, RanPc, Pc, StorePc
  <1>10. CASE GrantUpdate(t)
    <2>1. Writes(threads[t].job.call, "EXECUTING")
      BY <1>10, HandlerCall, UpdateWrites DEF GrantUpdate, Inv
    <2> QED BY <1>10, <2>1, WritingMove DEF GrantUpdate, history, RanPc, Pc, StorePc
  <1> QED
    BY <1>1, <1>2, <1>3, <1>4, <1>5, <1>6, <1>7, <1>8, <1>9, <1>10 DEF SubmitStep

\* And every step of a handler, or of a failing database.
LEMMA HandlerOutcome ==
    ASSUME Inv, NEW t \in Thread, HandlerStep(t) \/ DbError(t)
    PROVE  OutcomeStep(t) /\ ~IdleThread(t)
  <1>1. CASE HandlerStep(t)
    BY <1>1, EvaluateOutcome, ExecuteOutcome, SubmitOutcome DEF HandlerStep
  <1>2. CASE DbError(t)
    BY <1>2, PlainReturn DEF DbError, tables, history, IdleThread, At, StorePc
  <1> QED BY <1>1, <1>2

\* An effect adds its call to those that ran, and nothing else does.
LEMMA AppendRuns ==
    ASSUME TypeOK, NEW job \in Job, executions' = Append(executions, job), NEW c
    PROVE  Ran(c)' <=> Ran(c) \/ job.call = c
  <1>1. /\ DOMAIN executions = 1 .. Len(executions) /\ Len(executions) \in Nat
        /\ DOMAIN executions' = 1 .. (Len(executions) + 1)
        /\ \A i \in DOMAIN executions : executions'[i] = executions[i]
        /\ executions'[Len(executions) + 1] = job
    BY DEF TypeOK
  <1> QED BY <1>1 DEF Ran

\* Such a step keeps every call in one place and its row true.
LEMMA OutcomeStepFit ==
    ASSUME Inv, OutcomeFit, NEW t \in Thread, OutcomeStep(t), ~IdleThread(t)
    PROVE  OutcomeFit'
  <1> DEFINE c == threads[t].job.call
  <1>1. /\ Keeps(t, c) /\ Moves(t, c) /\ Runs(t) /\ Tells(t, c)
        /\ c \in CallId /\ threads[t].job \in Job
        /\ Holds(t, c)
    BY HandlerCall DEF OutcomeStep, Holds
  <1> HIDE DEF c
  <1>2. \A u \in Thread, d \in CallId : Holds(u, d)' => Holds(u, d) /\ (u = t => d = c)
    BY <1>1 DEF Keeps, Holds, IdleThread, At, c
  <1>3. \A a \in ApprovalId, d \in CallId :
          Waits(a, d)' => \/ Waits(a, d)
                          \/ /\ d = c /\ threads'[t].pc = "idle" /\ threads[t].pc \notin RanPc
                             /\ pending'[a] # pending[a]
    BY <1>1 DEF Moves, Waits
  <1>4. \A d \in CallId : Ran(d)' => Ran(d) \/ d = c
    BY <1>1, AppendRuns DEF Runs, Ran, c, Inv
  <1>5. CallsFit'
    <2>1. \A u, v \in Thread, d \in CallId : Holds(u, d)' /\ Holds(v, d)' => u = v
      BY <1>2 DEF OutcomeFit, CallsFit
    <2>2. \A a, b \in ApprovalId, d \in CallId : Waits(a, d)' /\ Waits(b, d)' => a = b
      BY <1>1, <1>3 DEF OutcomeFit, CallsFit, Moves
    <2>3. \A u \in Thread, a \in ApprovalId, d \in CallId : Holds(u, d)' => ~Waits(a, d)'
      <3> SUFFICES ASSUME NEW u \in Thread, NEW a \in ApprovalId, NEW d \in CallId,
                          Holds(u, d)', Waits(a, d)'
                   PROVE  FALSE
        OBVIOUS
      <3>1. CASE Waits(a, d)
        BY <3>1, <1>2 DEF OutcomeFit, CallsFit
      <3>2. CASE d = c /\ threads'[t].pc = "idle"
        BY <3>2, <1>1, <1>2 DEF OutcomeFit, CallsFit, Holds, IdleThread, At
      <3> QED BY <3>1, <3>2, <1>3
    <2>4. c \in issued /\ issued' = issued
      BY <1>1 DEF OutcomeFit, CallsFit, Keeps
    <2> QED
      BY <1>2, <1>3, <1>4, <2>1, <2>2, <2>3, <2>4 DEF OutcomeFit, CallsFit
  <1>6. ProgressFit'
    <2>1. \A u \in Thread, d \in CallId : Holds(u, d)' => (Ran(d)' <=> threads'[u].pc \in RanPc)
      <3> SUFFICES ASSUME NEW u \in Thread, NEW d \in CallId, Holds(u, d)'
                   PROVE  Ran(d)' <=> threads'[u].pc \in RanPc
        OBVIOUS
      <3>1. CASE u # t
        <4>1. Holds(u, d) /\ threads'[u] = threads[u] /\ d # c
          BY <1>1, <1>2, <3>1 DEF Keeps, OutcomeFit, CallsFit
        <4>2. Ran(d)' <=> Ran(d)
          BY <1>1, <4>1, AppendRuns DEF Runs, Ran, c, Inv
        <4> QED BY <4>1, <4>2 DEF OutcomeFit, ProgressFit
      <3>2. CASE u = t
        <4>1. d = c /\ (Ran(c) <=> threads[t].pc \in RanPc) /\ threads'[t].pc # "idle"
          BY <1>1, <1>2, <3>2 DEF OutcomeFit, ProgressFit, Holds, IdleThread, At
        <4>2. CASE executions' = executions
          BY <1>1, <3>2, <4>1, <4>2 DEF Runs, Ran, RanPc
        <4>3. CASE executions' = Append(executions, threads[t].job) /\ threads'[t].pc \in RanPc
          BY <1>1, <3>2, <4>1, <4>3, AppendRuns DEF c, Inv
        <4> QED BY <1>1, <4>2, <4>3 DEF Runs
      <3> QED BY <3>1, <3>2
    <2>2. \A a \in ApprovalId, d \in CallId : Waits(a, d)' => ~Ran(d)'
      <3> SUFFICES ASSUME NEW a \in ApprovalId, NEW d \in CallId, Waits(a, d)'
                   PROVE  ~Ran(d)'
        OBVIOUS
      <3>1. CASE Waits(a, d)
        <4>1. ~Ran(d) /\ d # c
          BY <1>1, <3>1 DEF OutcomeFit, ProgressFit, CallsFit
        <4> QED BY <1>4, <4>1
      <3>2. CASE d = c /\ threads'[t].pc = "idle" /\ threads[t].pc \notin RanPc
        <4>1. ~Ran(c) /\ executions' = executions
          BY <1>1, <3>2 DEF OutcomeFit, ProgressFit, Runs, RanPc
        <4> QED BY <3>2, <4>1 DEF Ran
      <3> QED BY <1>3, <3>1, <3>2
    <2>3. \A u \in Thread, d \in CallId : Holds(u, d)' /\ At(u, "execute")' /\ toolCalls'[d] # Nothing =>
            toolCalls'[d].status = "EXECUTING"
      <3> SUFFICES ASSUME NEW u \in Thread, NEW d \in CallId, Holds(u, d)',
                          threads'[u].pc = "execute", toolCalls'[d] # Nothing
                   PROVE  toolCalls'[d].status = "EXECUTING"
        BY DEF At
      <3>1. CASE u # t
        <4>1. Holds(u, d) /\ threads[u].pc = "execute" /\ d # c
          BY <1>1, <1>2, <3>1 DEF Keeps, OutcomeFit, CallsFit
        <4>2. toolCalls'[d] = toolCalls[d]
          BY <1>1, <4>1 DEF Tells, Writes
        <4> QED BY <4>1, <4>2 DEF OutcomeFit, ProgressFit, At
      <3>2. CASE u = t
        BY <1>1, <1>2, <3>2 DEF Tells, Writes
      <3> QED BY <3>1, <3>2
    <2> QED BY <2>1, <2>2, <2>3 DEF ProgressFit
  <1>7. StatusTellsOutcome'
    <2> SUFFICES ASSUME NEW d \in CallId, toolCalls'[d] # Nothing
                 PROVE  /\ toolCalls'[d].status \in {"COMPLETED", "FAILED"} => Ran(d)'
                        /\ toolCalls'[d].status \in {"PENDING", "REJECTED", "CANCELLED"} => ~Ran(d)'
      BY DEF StatusTellsOutcome
    <2>1. Ran(d) => Ran(d)'
      BY <1>1, AppendRuns DEF Runs, Ran, Inv
    <2>2. Ran(c) <=> threads[t].pc \in RanPc
      BY <1>1 DEF OutcomeFit, ProgressFit
    <2>3. CASE toolCalls'[d] = toolCalls[d]
      <3>1. CASE executions' = executions
        BY <2>3, <3>1 DEF OutcomeFit, StatusTellsOutcome, Ran
      <3>2. CASE executions' = Append(executions, threads[t].job) /\ threads[t].pc = "execute"
        <4>1. d = c => toolCalls[d].status = "EXECUTING"
          BY <1>1, <2>3, <3>2 DEF OutcomeFit, ProgressFit, At
        <4> QED BY <1>4, <2>1, <2>3, <4>1 DEF OutcomeFit, StatusTellsOutcome
      <3> QED BY <1>1, <3>1, <3>2 DEF Runs
    <2>4. CASE toolCalls'[d] # toolCalls[d]
      <3>1. d = c
        BY <1>1, <2>4 DEF Tells, Writes
      <3>2. CASE threads[t].pc \in RanPc
        BY <1>1, <2>1, <2>2, <2>4, <3>1, <3>2 DEF Tells, Writes
      <3>3. CASE threads[t].pc \notin RanPc
        <4>1. \/ toolCalls'[c].status = "EXECUTING"
              \/ executions' = executions /\ toolCalls'[c].status \in {"PENDING", "REJECTED", "CANCELLED"}
          BY <1>1, <2>4, <3>1, <3>3 DEF Tells, Writes
        <4> QED BY <2>2, <3>1, <3>3, <4>1 DEF Ran
      <3> QED BY <3>2, <3>3
    <2> QED BY <2>3, <2>4
  <1> QED BY <1>5, <1>6, <1>7 DEF OutcomeFit


\* A step that only drops approvals from the map, or handlers with them.
LEMMA OutcomeForgets ==
    ASSUME OutcomeFit,
           \A a \in ApprovalId : pending'[a] \in {pending[a], Nothing},
           \A t \in Thread : threads'[t] = threads[t] \/ threads'[t].pc = "idle",
           UNCHANGED <<toolCalls, issued, executions>>
    PROVE  OutcomeFit'
  <1> USE DEF OutcomeFit, Holds, Waits, IdleThread, At
  <1>1. CallsFit'
    BY DEF CallsFit, Ran
  <1>2. ProgressFit'
    BY DEF ProgressFit, Ran
  <1>3. StatusTellsOutcome'
    BY DEF StatusTellsOutcome, Ran
  <1> QED BY <1>1, <1>2, <1>3

\* Deleting a server leaves the status of every row.
LEMMA DeleteKeepsStatus ==
    ASSUME TypeOK, NEW t \in Thread, NEW s \in Server, DeleteServer(t, s), NEW c \in CallId
    PROVE  /\ toolCalls'[c] # Nothing <=> toolCalls[c] # Nothing
           /\ toolCalls[c] # Nothing => toolCalls'[c].status = toolCalls[c].status
  <1>1. CASE toolCalls[c] # Nothing
    <2>1. toolCalls[c] \in Row
      BY <1>1 DEF TypeOK
    <2>2. /\ [toolCalls[c] EXCEPT !.server = Nothing] \in Row
          /\ [toolCalls[c] EXCEPT !.server = Nothing].status = toolCalls[c].status
      BY <2>1 DEF Row
    <2> QED BY <1>1, <2>2, NothingAssumption DEF DeleteServer
  <1>2. CASE toolCalls[c] = Nothing
    BY <1>2 DEF DeleteServer
  <1> QED BY <1>1, <1>2

\* Every step keeps every call in one place and its row true, unless the
\* provider gives one id to two calls.
LEMMA OutcomeKept ==
    ASSUME ~ReuseCallIds, Inv, OutcomeFit, [Next]_vars
    PROVE  OutcomeFit'
  <1>1. ASSUME NEW t \in Thread, HandlerStep(t) \/ DbError(t) PROVE OutcomeFit'
    BY <1>1, HandlerOutcome, OutcomeStepFit
  <1>2. ASSUME NEW t \in Thread, ListPending(t) PROVE OutcomeFit'
    BY <1>2, OutcomeForgets DEF ListPending, tables, history
  <1>3. ASSUME NEW t \in Thread, NEW c \in CallId, NEW inv \in Invocation, Evaluate(t, c, inv)
        PROVE  OutcomeFit'
    <2>1. /\ c \notin issued /\ issued' = issued \cup {c}
          /\ UNCHANGED <<toolCalls, pending, executions>>
      BY <1>3 DEF Evaluate, tables
    <2>2. \/ threads' = threads
          \/ /\ threads'[t].pc = "evaluated" /\ threads'[t].job.call = c
             /\ \A u \in Thread : u # t => threads'[u] = threads[u]
      <3>1. CASE inv.valid
        <4>1. PICK server \in GetServer(inv.target) :
                threads' = [threads EXCEPT ![t] =
                  Doing("evaluated",
                        [call |-> c, inv |-> inv, server |-> server,
                         decision |-> PolicyFor(inv, server),
                         approval |-> Nothing, expires |-> 0],
                        Nothing)]
          BY <1>3, <3>1 DEF Evaluate
        <4> QED BY <4>1 DEF Doing, Inv, TypeOK
      <3> QED BY <1>3, <3>1 DEF Evaluate
    <2>3. \A u \in Thread, d \in CallId :
            Holds(u, d)' => \/ Holds(u, d) /\ threads'[u] = threads[u] /\ d # c
                            \/ u = t /\ d = c /\ threads'[t].pc = "evaluated"
      BY <2>1, <2>2 DEF Holds, IdleThread, At, OutcomeFit, CallsFit
    <2>4. ~Ran(c) /\ \A a \in ApprovalId : ~Waits(a, c)
      BY <2>1 DEF OutcomeFit, CallsFit
    <2>5. CallsFit'
      BY <2>1, <2>3, <2>4 DEF OutcomeFit, CallsFit, Ran, Waits
    <2>6. ProgressFit'
      BY <2>1, <2>3, <2>4 DEF OutcomeFit, ProgressFit, Ran, Waits, RanPc, At
    <2>7. StatusTellsOutcome'
      BY <2>1 DEF OutcomeFit, StatusTellsOutcome, Ran
    <2> QED BY <2>5, <2>6, <2>7 DEF OutcomeFit
  <1>4. ASSUME NEW t \in Thread, NEW a \in ApprovalId, NEW sub \in Submission,
               SubmitApproval(t, a, sub)
        PROVE  OutcomeFit'
    <2> DEFINE c == pending[a].call
    <2>1. /\ Waits(a, c) /\ pending'[a] = Nothing
          /\ \A b \in ApprovalId : b # a => pending'[b] = pending[b]
          /\ UNCHANGED <<toolCalls, issued, executions>>
      BY <1>4 DEF SubmitApproval, Inv, TypeOK, Waits, tables, history
    <2>2. /\ threads'[t].pc = "taken" /\ threads'[t].job.call = c
          /\ \A u \in Thread : u # t => threads'[u] = threads[u]
      BY <1>4 DEF SubmitApproval, Doing, Inv, TypeOK
    <2>3. c \in CallId
      BY <2>1 DEF Inv, TypeOK, Waits, Job
    <2> HIDE DEF c
    <2>4. \A u \in Thread, d \in CallId :
            Holds(u, d)' => \/ Holds(u, d) /\ threads'[u] = threads[u] /\ d # c
                            \/ u = t /\ d = c
      BY <2>1, <2>2, <2>3 DEF Holds, IdleThread, At, OutcomeFit, CallsFit
    <2>5. \A b \in ApprovalId, d \in CallId : Waits(b, d)' => Waits(b, d) /\ d # c
      BY <2>1, <2>3 DEF Waits, OutcomeFit, CallsFit
    <2>6. CallsFit'
      BY <2>1, <2>3, <2>4, <2>5 DEF OutcomeFit, CallsFit, Ran
    <2>7. ProgressFit'
      BY <2>1, <2>2, <2>3, <2>4, <2>5 DEF OutcomeFit, ProgressFit, Ran, RanPc, At
    <2>8. StatusTellsOutcome'
      BY <2>1 DEF OutcomeFit, StatusTellsOutcome, Ran
    <2> QED BY <2>6, <2>7, <2>8 DEF OutcomeFit
  <1>5. ASSUME NEW t \in Thread, NEW s \in Server, NEW env \in Environment, SaveServer(t, s, env)
        PROVE  OutcomeFit'
    BY <1>5, OutcomeForgets DEF SaveServer, tables, history
  <1>6. ASSUME NEW t \in Thread, NEW s \in Server, DeleteServer(t, s) PROVE OutcomeFit'
    <2>1. UNCHANGED <<pending, threads, issued, executions>>
      BY <1>6 DEF DeleteServer, history
    <2>2. \A c \in CallId : /\ toolCalls'[c] # Nothing <=> toolCalls[c] # Nothing
                            /\ toolCalls[c] # Nothing => toolCalls'[c].status = toolCalls[c].status
      BY <1>6, DeleteKeepsStatus DEF Inv
    <2>3. CallsFit'
      BY <2>1 DEF OutcomeFit, CallsFit, Ran, Holds, Waits, IdleThread, At
    <2>4. ProgressFit'
      BY <2>1, <2>2 DEF OutcomeFit, ProgressFit, Ran, Holds, Waits, IdleThread, At
    <2>5. StatusTellsOutcome'
      BY <2>1, <2>2 DEF OutcomeFit, StatusTellsOutcome, Ran
    <2> QED BY <2>3, <2>4, <2>5 DEF OutcomeFit
  <1>7. CASE Restart
    BY <1>7, OutcomeForgets DEF Restart, Idle, Doing, tables, history
  <1>8. CASE Tick
    BY <1>8, OutcomeForgets DEF Tick, tables, history
  <1>9. CASE UNCHANGED vars
    BY <1>9, OutcomeForgets DEF vars, tables, history
  <1> QED
    BY <1>1, <1>2, <1>3, <1>4, <1>5, <1>6, <1>7, <1>8, <1>9 DEF Next

\* As long as the provider gives no id to two calls, the status column tells what
\* happened, whatever crashes, store errors and failed tools come between.
THEOREM StatusIsTrue ==
    ASSUME ~ReuseCallIds
    PROVE  Spec => []StatusTellsOutcome
  <1>1. Init => OutcomeFit
    BY DEF Init, OutcomeFit, CallsFit, ProgressFit, StatusTellsOutcome, Holds, Waits, Ran,
           IdleThread, At, Idle, Doing
  <1>2. Inv /\ OutcomeFit /\ [Next]_vars => OutcomeFit'
    BY OutcomeKept
  <1>3. OutcomeFit => StatusTellsOutcome
    BY DEF OutcomeFit
  <1> QED BY <1>1, <1>2, <1>3, Invariance, PTL DEF Spec

-----------------------------------------------------------------------------
(* The audit trail *)

\* A step that writes no TOOL_EXECUTED event and loses none.
SameExecuted == \A e : e.type = "TOOL_EXECUTED" => (e \in audit' <=> e \in audit)

\* A handler that stays on its side of the effect, or leaves before it, keeps
\* the trail and the effects in step.
LEMMA RecordSame ==
    ASSUME RecordFit, SameExecuted, executions' = executions,
           \A t \in Thread :
             \/ threads'[t].job = threads[t].job /\ (threads'[t].pc \in RanPc <=> threads[t].pc \in RanPc)
             \/ threads[t].pc \notin RanPc /\ threads'[t].pc \notin RanPc
    PROVE  RecordFit'
  <1>1. EffectFit'
    BY DEF RecordFit, EffectFit
  <1>2. AuditMatchesEffects'
    <2>1. \A t \in Thread : threads[t].pc \in RanPc =>
            threads'[t].pc \in RanPc /\ threads'[t].job = threads[t].job
      OBVIOUS
    <2>2. ASSUME NEW i \in DOMAIN executions
          PROVE  \/ \E t \in Thread : /\ threads'[t].pc \in {"completed", "failed", "exec_audit"}
                                      /\ threads'[t].job = executions[i]
                 \/ [type |-> "TOOL_EXECUTED", call |-> executions[i].call,
                     approval |-> executions[i].approval] \in audit'
      <3> DEFINE e == [type |-> "TOOL_EXECUTED", call |-> executions[i].call,
                       approval |-> executions[i].approval]
      <3>1. e.type = "TOOL_EXECUTED"
        OBVIOUS
      <3>2. (\E t \in Thread : threads[t].pc \in RanPc /\ threads[t].job = executions[i]) \/ e \in audit
        BY DEF RecordFit, AuditMatchesEffects, EventsTellEffects, RanPc
      <3> HIDE DEF e
      <3>3. e \in audit => e \in audit'
        BY <3>1 DEF SameExecuted
      <3>4. (\E t \in Thread : threads'[t].pc \in RanPc /\ threads'[t].job = executions[i]) \/ e \in audit'
        BY <2>1, <3>2, <3>3
      <3> QED BY <3>4 DEF RanPc, e
    <2>3. \A v \in audit' : v.type = "TOOL_EXECUTED" =>
            \E i \in DOMAIN executions :
               executions[i].call = v.call /\ executions[i].approval = v.approval
      BY DEF SameExecuted, RecordFit, AuditMatchesEffects, EventsTellEffects
    <2> QED BY <2>2, <2>3 DEF AuditMatchesEffects, EventsTellEffects
  <1> QED BY <1>1, <1>2 DEF RecordFit


\* Evaluation and submission stay before the effect.
BeforeEffect(t) ==
    /\ SameExecuted /\ executions' = executions
    /\ threads[t].pc \notin RanPc /\ threads'[t].pc \notin RanPc
    /\ \A u \in Thread : u # t => threads'[u] = threads[u]

\* The steps of an evaluation come before the effect, and write no outcome of it.
LEMMA EvaluateBefore ==
    ASSUME Inv, NEW t \in Thread, EvaluateStep(t)
    PROVE  BeforeEffect(t)
  <1> USE DEF At, RanPc, BeforeEffect
  <1>1. CASE AuditEvaluation(t) \/ AuditRequested(t)
    <2>1. PICK pc \in {"auto_save", "deny_save", "stage_save", "stage"} : Goto(t, pc)
      BY <1>1 DEF AuditEvaluation, AuditRequested
    <2>2. MovesTo(t, pc)
      BY <2>1, GotoMoves DEF Pc, StorePc, Inv
    <2>3. SameExecuted /\ executions' = executions
      BY <1>1 DEF AuditEvaluation, AuditRequested, RecordAudit, SameExecuted, history
    <2> QED BY <1>1, <2>2, <2>3 DEF MovesTo, AuditEvaluation, AuditRequested
  <1>2. CASE SaveExecuting(t) \/ SaveRejected(t)
    <2>1. PICK pc \in {"execute", "deny_audit"} : Goto(t, pc)
      BY <1>2 DEF SaveExecuting, SaveRejected
    <2>2. MovesTo(t, pc)
      BY <2>1, GotoMoves DEF Pc, StorePc, Inv
    <2>3. SameExecuted /\ executions' = executions
      BY <1>2 DEF SaveExecuting, SaveRejected, SameExecuted, history
    <2> QED BY <1>2, <2>2, <2>3 DEF MovesTo, SaveExecuting, SaveRejected
  <1>3. CASE SavePending(t)
    <2>1. /\ threads'[t].pc = "stage_audit"
          /\ \A u \in Thread : u # t => threads'[u] = threads[u]
      BY <1>3 DEF SavePending, Inv, TypeOK, ThreadState
    <2>2. SameExecuted /\ executions' = executions
      BY <1>3 DEF SavePending, SameExecuted
    <2> QED BY <1>3, <2>1, <2>2 DEF SavePending
  <1>4. CASE Stage(t) \/ AuditDenied(t) \/ SaveRefused(t)
    <2>1. Leaves(t)
      BY <1>4, ReturnLeaves DEF Stage, AuditDenied, SaveRefused, Inv
    <2>2. SameExecuted /\ executions' = executions
      BY <1>4 DEF Stage, AuditDenied, SaveRefused, RecordAudit, SameExecuted, history, tables
    <2> QED BY <1>4, <2>1, <2>2 DEF Leaves, Stage, AuditDenied, SaveRefused
  <1> QED BY <1>1, <1>2, <1>3, <1>4 DEF EvaluateStep

\* So do those of a submission.
LEMMA SubmitBefore ==
    ASSUME Inv, NEW t \in Thread, SubmitStep(t)
    PROVE  BeforeEffect(t)
  <1> USE DEF At, RanPc, BeforeEffect
  <1>1. CASE Decide(t)
    <2>1. PICK pc \in {"expire_update", "reject_update", "grant_save"} :
            threads' = [threads EXCEPT ![t].pc = pc, ![t].at = now]
      BY <1>1 DEF Decide
    <2>2. /\ threads'[t].pc = pc
          /\ \A u \in Thread : u # t => threads'[u] = threads[u]
      BY <2>1 DEF Inv, TypeOK, ThreadState
    <2> QED BY <1>1, <2>2 DEF Decide, SameExecuted, tables, history
  <1>2. CASE Reinsert(t) \/ AuditExpired(t) \/ AuditRejected(t)
    <2>1. Leaves(t)
      BY <1>2, ReturnLeaves DEF Reinsert, AuditExpired, AuditRejected, Inv
    <2>2. SameExecuted /\ executions' = executions
      BY <1>2 DEF Reinsert, AuditExpired, AuditRejected, RecordAudit, SameExecuted, history, tables
    <2> QED BY <1>2, <2>1, <2>2 DEF Leaves, Reinsert, AuditExpired, AuditRejected
  <1>3. CASE ExpireUpdate(t) \/ RejectUpdate(t) \/ GrantUpdate(t)
    <2>1. PICK pc \in {"expire_audit", "reject_save", "execute"} : Goto(t, pc)
      BY <1>3 DEF ExpireUpdate, RejectUpdate, GrantUpdate
    <2>2. MovesTo(t, pc)
      BY <2>1, GotoMoves DEF Pc, StorePc, Inv
    <2>3. SameExecuted /\ executions' = executions
      BY <1>3 DEF ExpireUpdate, RejectUpdate, GrantUpdate, SameExecuted, history
    <2> QED BY <1>3, <2>2, <2>3 DEF MovesTo, ExpireUpdate, RejectUpdate, GrantUpdate
  <1>4. CASE RejectSave(t) \/ GrantSave(t) \/ AuditGranted(t)
    <2>1. PICK pc \in {"reject_audit", "grant_audit", "grant_update"} : Goto(t, pc)
      BY <1>4 DEF RejectSave, GrantSave, AuditGranted
    <2>2. MovesTo(t, pc)
      BY <2>1, GotoMoves DEF Pc, StorePc, Inv
    <2>3. SameExecuted /\ executions' = executions
      BY <1>4 DEF RejectSave, GrantSave, AuditGranted, RecordAudit, SameExecuted, history
    <2> QED BY <1>4, <2>2, <2>3 DEF MovesTo, RejectSave, GrantSave, AuditGranted
  <1> QED BY <1>1, <1>2, <1>3, <1>4 DEF SubmitStep

\* The effect, its status and its event.
LEMMA ExecuteRecord ==
    ASSUME Inv, RecordFit, NEW t \in Thread, ExecuteStep(t)
    PROVE  RecordFit'
  <1> USE DEF At
  <1>1. CASE ExecuteOk(t)
    <2>1. PICK pc \in {"completed", "failed"} : Goto(t, pc)
      BY <1>1 DEF ExecuteOk
    <2>2. MovesTo(t, pc)
      BY <2>1, GotoMoves DEF Pc, StorePc, Inv
    <2>3. /\ audit' = audit /\ threads[t].pc = "execute"
          /\ executions' = Append(executions, threads[t].job)
      BY <1>1 DEF ExecuteOk, tables
    <2>4. threads[t].job \in Job
      BY <1>1, HandlerCall DEF ExecuteOk, IdleThread
    <2>5. /\ DOMAIN executions' = DOMAIN executions \cup {Len(executions) + 1}
          /\ \A i \in DOMAIN executions : executions'[i] = executions[i]
          /\ executions'[Len(executions) + 1] = threads[t].job
      BY <2>3, <2>4 DEF Inv, TypeOK
    <2>6. \A u \in Thread : threads[u].pc \in RanPc => threads'[u] = threads[u]
      BY <2>2, <2>3 DEF MovesTo, RanPc
    <2>7. EffectFit'
      BY <2>2, <2>5 DEF RecordFit, EffectFit, MovesTo
    <2>8. AuditMatchesEffects'
      <3>1. \A i \in DOMAIN executions :
              \/ \E u \in Thread : threads[u].pc \in RanPc /\ threads[u].job = executions[i]
              \/ [type |-> "TOOL_EXECUTED", call |-> executions[i].call,
                  approval |-> executions[i].approval] \in audit
        BY DEF RecordFit, AuditMatchesEffects, EventsTellEffects, RanPc
      <3>2. \A i \in DOMAIN executions' :
              \/ \E u \in Thread : threads'[u].pc \in RanPc /\ threads'[u].job = executions'[i]
              \/ [type |-> "TOOL_EXECUTED", call |-> executions'[i].call,
                  approval |-> executions'[i].approval] \in audit'
        <4>1. threads'[t].pc \in RanPc /\ threads'[t].job = threads[t].job
          BY <2>2 DEF MovesTo, RanPc
        <4>2. ASSUME NEW i \in DOMAIN executions
              PROVE  \/ \E u \in Thread : threads'[u].pc \in RanPc /\ threads'[u].job = executions'[i]
                     \/ [type |-> "TOOL_EXECUTED", call |-> executions'[i].call,
                         approval |-> executions'[i].approval] \in audit'
          BY <2>3, <2>5, <2>6, <3>1
        <4> QED BY <2>5, <4>1, <4>2
      <3>3. \A v \in audit' : v.type = "TOOL_EXECUTED" =>
              \E i \in DOMAIN executions' :
                 executions'[i].call = v.call /\ executions'[i].approval = v.approval
        BY <2>3, <2>5 DEF RecordFit, AuditMatchesEffects, EventsTellEffects
      <3> QED BY <3>2, <3>3 DEF AuditMatchesEffects, EventsTellEffects, RanPc
    <2> QED BY <2>7, <2>8 DEF RecordFit
  <1>2. CASE ExecuteErr(t)
    <2>1. Leaves(t)
      BY <1>2, ReturnLeaves DEF ExecuteErr, Inv
    <2>2. SameExecuted /\ executions' = executions
      BY <1>2 DEF ExecuteErr, SameExecuted, tables, history
    <2> QED BY <1>2, <2>1, <2>2, RecordSame DEF Leaves, ExecuteErr, RanPc
  <1>3. CASE Finish(t)
    <2>1. MovesTo(t, "exec_audit")
      BY <1>3, GotoMoves DEF Finish, Pc, StorePc, Inv
    <2>2. SameExecuted /\ executions' = executions
      BY <1>3 DEF Finish, SameExecuted, history
    <2> QED BY <1>3, <2>1, <2>2, RecordSame DEF MovesTo, Finish, RanPc
  <1>4. CASE AuditExecuted(t)
    <2> DEFINE job == threads[t].job
               event(j) == [type |-> "TOOL_EXECUTED", call |-> j.call, approval |-> j.approval]
    <2>1. Leaves(t)
      BY <1>4, ReturnLeaves DEF AuditExecuted, Inv
    <2>2. executions' = executions /\ audit' = audit \cup {event(job)} /\ threads[t].pc = "exec_audit"
      BY <1>4 DEF AuditExecuted, RecordAudit, history
    <2>3. \A j : event(j).type = "TOOL_EXECUTED" /\ event(j).call = j.call /\ event(j).approval = j.approval
      OBVIOUS
    <2>4. \A i \in DOMAIN executions :
            \/ \E u \in Thread : threads[u].pc \in RanPc /\ threads[u].job = executions[i]
            \/ event(executions[i]) \in audit
      BY DEF RecordFit, AuditMatchesEffects, EventsTellEffects, RanPc
    <2>5. PICK k \in DOMAIN executions : executions[k] = job
      BY <2>2 DEF RecordFit, EffectFit, RanPc
    <2> HIDE DEF event
    <2>6. EffectFit'
      BY <2>1, <2>2 DEF RecordFit, EffectFit, Leaves, RanPc
    <2>7. \A i \in DOMAIN executions :
            \/ \E u \in Thread : threads'[u].pc \in RanPc /\ threads'[u].job = executions[i]
            \/ event(executions[i]) \in audit'
      BY <2>1, <2>2, <2>4 DEF Leaves
    <2>8. \A v \in audit' : v.type = "TOOL_EXECUTED" =>
            \E i \in DOMAIN executions :
               executions[i].call = v.call /\ executions[i].approval = v.approval
      BY <2>2, <2>3, <2>5 DEF RecordFit, AuditMatchesEffects, EventsTellEffects
    <2>9. AuditMatchesEffects'
      BY <2>2, <2>7, <2>8 DEF AuditMatchesEffects, EventsTellEffects, RanPc, event
    <2> QED BY <2>6, <2>9 DEF RecordFit
  <1> QED BY <1>1, <1>2, <1>3, <1>4 DEF ExecuteStep

\* Every step keeps the trail and the effects in step, unless a crash or a store
\* error ends a handler between the two.
LEMMA RecordKept ==
    ASSUME ~DbCanFail, ~CanRestart, Inv, RecordFit, [Next]_vars
    PROVE  RecordFit'
  <1>1. ASSUME NEW t \in Thread, BeforeEffect(t) PROVE RecordFit'
    BY <1>1, RecordSame DEF BeforeEffect
  <1>2. ASSUME NEW t \in Thread, HandlerStep(t) PROVE RecordFit'
    BY <1>1, <1>2, EvaluateBefore, SubmitBefore, ExecuteRecord DEF HandlerStep
  <1>3. ASSUME NEW t \in Thread, NEW c \in CallId, NEW inv \in Invocation, Evaluate(t, c, inv)
        PROVE  RecordFit'
    <2>1. threads[t].pc = "idle" /\ SameExecuted /\ executions' = executions
      BY <1>3 DEF Evaluate, IdleThread, At, SameExecuted, tables
    <2>2. \/ threads' = threads
          \/ /\ threads'[t].pc = "evaluated"
             /\ \A u \in Thread : u # t => threads'[u] = threads[u]
      <3>1. CASE inv.valid
        <4>1. PICK job : threads' = [threads EXCEPT ![t] = Doing("evaluated", job, Nothing)]
          BY <1>3, <3>1 DEF Evaluate
        <4> QED BY <4>1 DEF Doing, Inv, TypeOK
      <3> QED BY <1>3, <3>1 DEF Evaluate
    <2> QED BY <2>1, <2>2, RecordSame DEF RanPc
  <1>4. ASSUME NEW t \in Thread, NEW a \in ApprovalId, NEW sub \in Submission,
               SubmitApproval(t, a, sub)
        PROVE  RecordFit'
    <2>1. threads[t].pc = "idle" /\ SameExecuted /\ executions' = executions
      BY <1>4 DEF SubmitApproval, IdleThread, At, SameExecuted, tables, history
    <2>2. threads'[t].pc = "taken" /\ \A u \in Thread : u # t => threads'[u] = threads[u]
      BY <1>4 DEF SubmitApproval, Doing, Inv, TypeOK
    <2> QED BY <2>1, <2>2, RecordSame DEF RanPc
  <1>5. ASSUME NEW t \in Thread, ListPending(t) \/ \E s \in Server : DeleteServer(t, s)
                                   \/ \E env \in Environment : SaveServer(t, s, env)
        PROVE  RecordFit'
    <2>1. SameExecuted /\ executions' = executions /\ threads' = threads
      BY <1>5 DEF ListPending, DeleteServer, SaveServer, SameExecuted, tables, history
    <2> QED BY <2>1, RecordSame
  <1>6. CASE Tick \/ UNCHANGED vars
    <2>1. SameExecuted /\ executions' = executions /\ threads' = threads
      BY <1>6 DEF Tick, vars, SameExecuted, tables, history
    <2> QED BY <2>1, RecordSame
  <1> QED
    BY <1>2, <1>3, <1>4, <1>5, <1>6 DEF Next, DbError, Restart

\* Without crashes and store errors, every effect has its TOOL_EXECUTED event or
\* a handler that has yet to write it, and every such event stands for an effect.
THEOREM TrailIsComplete ==
    ASSUME ~DbCanFail, ~CanRestart
    PROVE  Spec => []AuditMatchesEffects
  <1>1. Init => RecordFit
    BY DEF Init, RecordFit, EffectFit, AuditMatchesEffects, EventsTellEffects, Idle, Doing, RanPc
  <1>2. Inv /\ RecordFit /\ [Next]_vars => RecordFit'
    BY RecordKept
  <1>3. RecordFit => AuditMatchesEffects
    BY DEF RecordFit
  <1> QED BY <1>1, <1>2, <1>3, Invariance, PTL DEF Spec

\* A step that has no effect and writes no TOOL_EXECUTED event cannot make the
\* trail untrue, though it ends handlers.
LEMMA EventSame ==
    ASSUME EventFit, SameExecuted, executions' = executions,
           \A t \in Thread : threads'[t].pc \in RanPc =>
              threads[t].pc \in RanPc /\ threads'[t].job = threads[t].job
    PROVE  EventFit'
  <1>1. EffectFit'
    BY DEF EventFit, EffectFit
  <1>2. EventsTellEffects'
    BY DEF EventFit, EventsTellEffects, SameExecuted
  <1> QED BY <1>1, <1>2 DEF EventFit

\* The effect goes into the history before its handler writes of it.
LEMMA ExecuteEvent ==
    ASSUME Inv, EventFit, NEW t \in Thread, ExecuteStep(t)
    PROVE  EventFit'
  <1> USE DEF At
  <1>1. CASE ExecuteOk(t)
    <2>1. PICK pc \in {"completed", "failed"} : Goto(t, pc)
      BY <1>1 DEF ExecuteOk
    <2>2. MovesTo(t, pc)
      BY <2>1, GotoMoves DEF Pc, StorePc, Inv
    <2>3. audit' = audit /\ executions' = Append(executions, threads[t].job)
      BY <1>1 DEF ExecuteOk, tables
    <2>4. threads[t].job \in Job
      BY <1>1, HandlerCall DEF ExecuteOk, IdleThread
    <2>5. /\ DOMAIN executions' = DOMAIN executions \cup {Len(executions) + 1}
          /\ \A i \in DOMAIN executions : executions'[i] = executions[i]
          /\ executions'[Len(executions) + 1] = threads[t].job
      BY <2>3, <2>4 DEF Inv, TypeOK
    <2>6. EffectFit'
      BY <2>2, <2>5 DEF EventFit, EffectFit, MovesTo
    <2>7. EventsTellEffects'
      BY <2>3, <2>5 DEF EventFit, EventsTellEffects
    <2> QED BY <2>6, <2>7 DEF EventFit
  <1>2. CASE ExecuteErr(t)
    <2>1. Leaves(t)
      BY <1>2, ReturnLeaves DEF ExecuteErr, Inv
    <2>2. SameExecuted /\ executions' = executions
      BY <1>2 DEF ExecuteErr, SameExecuted, tables, history
    <2> QED BY <2>1, <2>2, EventSame DEF Leaves, RanPc
  <1>3. CASE Finish(t)
    <2>1. MovesTo(t, "exec_audit")
      BY <1>3, GotoMoves DEF Finish, Pc, StorePc, Inv
    <2>2. SameExecuted /\ executions' = executions
      BY <1>3 DEF Finish, SameExecuted, history
    <2> QED BY <1>3, <2>1, <2>2, EventSame DEF MovesTo, Finish, RanPc
  <1>4. CASE AuditExecuted(t)
    <2> DEFINE event(j) == [type |-> "TOOL_EXECUTED", call |-> j.call, approval |-> j.approval]
    <2>1. Leaves(t)
      BY <1>4, ReturnLeaves DEF AuditExecuted, Inv
    <2>2. /\ executions' = executions /\ audit' = audit \cup {event(threads[t].job)}
          /\ threads[t].pc = "exec_audit"
      BY <1>4 DEF AuditExecuted, RecordAudit, history
    <2>3. \A j : event(j).call = j.call /\ event(j).approval = j.approval
      OBVIOUS
    <2>4. PICK k \in DOMAIN executions : executions[k] = threads[t].job
      BY <2>2 DEF EventFit, EffectFit, RanPc
    <2> HIDE DEF event
    <2>5. EffectFit'
      BY <2>1, <2>2 DEF EventFit, EffectFit, Leaves, RanPc
    <2>6. EventsTellEffects'
      BY <2>2, <2>3, <2>4 DEF EventFit, EventsTellEffects
    <2> QED BY <2>5, <2>6 DEF EventFit
  <1> QED BY <1>1, <1>2, <1>3, <1>4 DEF ExecuteStep

\* A handler that begins, or a step of no handler, changes neither the effects nor
\* the events of them, and puts nobody past an effect.
LEMMA ElsewhereEvent ==
    ASSUME Inv,
           \/ \E t \in Thread :
                \/ \E c \in CallId, inv \in Invocation : Evaluate(t, c, inv)
                \/ \E a \in ApprovalId, sub \in Submission : SubmitApproval(t, a, sub)
                \/ ListPending(t) \/ DbError(t)
                \/ \E s \in Server, env \in Environment : SaveServer(t, s, env)
                \/ \E s \in Server : DeleteServer(t, s)
           \/ Restart \/ Tick \/ UNCHANGED vars
    PROVE  /\ SameExecuted /\ executions' = executions
           /\ \A t \in Thread : threads'[t].pc \in RanPc =>
                threads[t].pc \in RanPc /\ threads'[t].job = threads[t].job
  <1>1. ASSUME NEW t \in Thread, NEW c \in CallId, NEW inv \in Invocation, Evaluate(t, c, inv)
        PROVE  /\ SameExecuted /\ executions' = executions
               /\ \A u \in Thread : threads'[u].pc \in RanPc => threads'[u] = threads[u]
    <2>1. SameExecuted /\ executions' = executions
      BY <1>1 DEF Evaluate, SameExecuted, tables
    <2>2. CASE inv.valid
      <3>1. PICK job : threads' = [threads EXCEPT ![t] = Doing("evaluated", job, Nothing)]
        BY <1>1, <2>2 DEF Evaluate
      <3>2. threads'[t].pc = "evaluated" /\ \A u \in Thread : u # t => threads'[u] = threads[u]
        BY <3>1 DEF Doing, Inv, TypeOK
      <3> QED BY <2>1, <3>2 DEF RanPc
    <2>3. CASE ~inv.valid
      BY <1>1, <2>1, <2>3 DEF Evaluate
    <2> QED BY <2>2, <2>3
  <1>2. ASSUME NEW t \in Thread, NEW a \in ApprovalId, NEW sub \in Submission,
               SubmitApproval(t, a, sub)
        PROVE  /\ SameExecuted /\ executions' = executions
               /\ \A u \in Thread : threads'[u].pc \in RanPc => threads'[u] = threads[u]
    <2>1. SameExecuted /\ executions' = executions
      BY <1>2 DEF SubmitApproval, SameExecuted, tables, history
    <2>2. threads'[t].pc = "taken" /\ \A u \in Thread : u # t => threads'[u] = threads[u]
      BY <1>2 DEF SubmitApproval, Doing, Inv, TypeOK
    <2> QED BY <2>1, <2>2 DEF RanPc
  <1>3. ASSUME NEW t \in Thread, DbError(t)
        PROVE  /\ SameExecuted /\ executions' = executions
               /\ \A u \in Thread : threads'[u].pc \in RanPc => threads'[u] = threads[u]
    <2>1. Leaves(t) /\ SameExecuted /\ executions' = executions
      BY <1>3, ReturnLeaves DEF DbError, SameExecuted, tables, history, Inv
    <2> QED BY <2>1 DEF Leaves, RanPc
  <1>4. ASSUME NEW t \in Thread,
               \/ ListPending(t)
               \/ \E s \in Server, env \in Environment : SaveServer(t, s, env)
               \/ \E s \in Server : DeleteServer(t, s)
        PROVE  SameExecuted /\ executions' = executions /\ threads' = threads
    BY <1>4 DEF ListPending, DeleteServer, SaveServer, SameExecuted, tables, history
  <1>5. CASE Restart
    <2>1. SameExecuted /\ executions' = executions
      BY <1>5 DEF Restart, SameExecuted, tables, history
    <2>2. \A t \in Thread : threads'[t].pc = "idle"
      BY <1>5 DEF Restart, Idle, Doing
    <2> QED BY <2>1, <2>2 DEF RanPc
  <1>6. CASE Tick \/ UNCHANGED vars
    BY <1>6 DEF Tick, vars, SameExecuted, tables, history
  <1> QED BY <1>1, <1>2, <1>3, <1>4, <1>5, <1>6

\* Every step keeps the trail true, whatever ends a handler.
LEMMA EventKept ==
    ASSUME Inv, EventFit, [Next]_vars
    PROVE  EventFit'
  <1>1. ASSUME NEW t \in Thread, EvaluateStep(t) \/ SubmitStep(t) PROVE EventFit'
    <2>1. BeforeEffect(t)
      BY <1>1, EvaluateBefore, SubmitBefore
    <2> QED BY <2>1, EventSame DEF BeforeEffect
  <1>2. ASSUME NEW t \in Thread, ExecuteStep(t) PROVE EventFit'
    BY <1>2, ExecuteEvent
  <1>3. CASE \/ \E t \in Thread :
                  \/ \E c \in CallId, inv \in Invocation : Evaluate(t, c, inv)
                  \/ \E a \in ApprovalId, sub \in Submission : SubmitApproval(t, a, sub)
                  \/ ListPending(t) \/ DbError(t)
                  \/ \E s \in Server, env \in Environment : SaveServer(t, s, env)
                  \/ \E s \in Server : DeleteServer(t, s)
             \/ Restart \/ Tick \/ UNCHANGED vars
    BY <1>3, ElsewhereEvent, EventSame
  <1> QED BY <1>1, <1>2, <1>3 DEF Next, HandlerStep

\* The trail is true: no TOOL_EXECUTED event without the effect it tells of, through
\* crashes, store errors, failed tools and call ids that collide.
THEOREM TrailIsTrue == Spec => []EventsTellEffects
  <1>1. Init => EventFit
    BY DEF Init, EventFit, EffectFit, EventsTellEffects, Idle, Doing, RanPc
  <1>2. Inv /\ EventFit /\ [Next]_vars => EventFit'
    BY EventKept
  <1>3. EventFit => EventsTellEffects
    BY DEF EventFit
  <1> QED BY <1>1, <1>2, <1>3, Invariance, PTL DEF Spec


-----------------------------------------------------------------------------
(* Approvals that can still be decided *)

Asks(c) == toolCalls[c] # Nothing /\ toolCalls[c].status = "PENDING"

\* A step of the handler on t keeps approvals open, or closes the row of its own;
\* it asks for nothing, or for what it has just minted.
DecideStep(t) ==
    /\ now' = now
    /\ \A u \in Thread : u # t => threads'[u] = threads[u]
    /\ \A a \in ApprovalId : /\ minted[a] # Nothing => minted'[a] = minted[a]
                             /\ pending[a] # Nothing => pending'[a] # Nothing
    /\ \/ threads[t].pc \notin OpenPc
       \/ threads'[t].pc \in OpenPc /\ threads'[t].job = threads[t].job
       \/ pending'[threads[t].job.approval] # Nothing
       \/ \E c \in CallId : c = threads[t].job.call /\ ~Asks(c)'
    /\ \A c \in CallId : Asks(c)' =>
         \/ Asks(c)
         \/ \E a \in ApprovalId : /\ minted'[a] # Nothing /\ minted'[a].call = c
                                  /\ Carries(t, a)' /\ threads'[t].pc \in OpenPc

\* A step of a decision keeps the pending rows decidable.
LEMMA DecideStepFit ==
    ASSUME Inv, DecidableFit, NEW t \in Thread, DecideStep(t)
    PROVE  DecidableFit'
  <1> SUFFICES ASSUME NEW c \in CallId, Asks(c)'
               PROVE  \E a \in ApprovalId : minted'[a] # Nothing /\ minted'[a].call = c /\ Open(a)'
    BY DEF DecidableFit, Asks
  <1>1. CASE Asks(c)
    <2>1. PICK a \in ApprovalId : minted[a] # Nothing /\ minted[a].call = c /\ Open(a)
      BY <1>1 DEF DecidableFit, Asks
    <2>2. minted'[a] = minted[a] /\ now' = now
      BY <2>1 DEF DecideStep
    <2>3. Open(a)'
      <3>1. CASE pending[a] # Nothing \/ minted[a].expires <= now
        BY <2>2, <3>1 DEF DecideStep, Open
      <3>2. CASE \E u \in Thread : Carries(u, a) /\ threads[u].pc \in OpenPc
        <4>1. PICK u \in Thread : Carries(u, a) /\ threads[u].pc \in OpenPc
          BY <3>2
        <4>2. CASE u # t
          BY <4>1, <4>2 DEF DecideStep, Open, Carries, IdleThread, At
        <4>3. CASE u = t
          <5>1. threads[t].job = minted[a] /\ threads[t].job.approval = a
            BY <4>1, <4>3 DEF Inv, MintedFit, Carries
          <5>2. threads[t].job.call = c
            BY <2>1, <5>1
          <5>3. CASE threads'[t].pc \in OpenPc /\ threads'[t].job = threads[t].job
            BY <4>3, <5>1, <5>3 DEF Open, Carries, IdleThread, At, OpenPc
          <5>4. CASE pending'[threads[t].job.approval] # Nothing
            BY <5>1, <5>4 DEF Open
          <5> QED BY <4>1, <4>3, <5>2, <5>3, <5>4 DEF DecideStep
        <4> QED BY <4>2, <4>3
      <3> QED BY <2>1, <3>1, <3>2 DEF Open
    <2> QED BY <2>1, <2>2, <2>3
  <1>2. CASE ~Asks(c)
    BY <1>2 DEF DecideStep, Open
  <1> QED BY <1>1, <1>2

\* A step that writes no row, and moves on among the same handlers or outside them.
LEMMA DecideMove ==
    ASSUME Inv, NEW t \in Thread, NEW pc \in Pc, Goto(t, pc),
           threads[t].pc \in OpenPc => pc \in OpenPc,
           UNCHANGED <<toolCalls, pending, minted, now>>
    PROVE  DecideStep(t)
  <1>1. MovesTo(t, pc)
    BY GotoMoves DEF Inv
  <1> QED BY <1>1 DEF MovesTo, DecideStep, Asks

\* A thread that returns is such a step.
LEMMA DecideReturn ==
    ASSUME Inv, NEW t \in Thread, Return(t), threads[t].pc \notin OpenPc,
           UNCHANGED <<toolCalls, pending, minted, now>>
    PROVE  DecideStep(t)
  <1>1. Leaves(t)
    BY ReturnLeaves DEF Inv
  <1> QED BY <1>1 DEF Leaves, DecideStep, Asks

\* A step that writes another status than PENDING.
LEMMA DecideWrite ==
    ASSUME Inv, NEW t \in Thread, NEW pc \in Pc, Goto(t, pc), ~IdleThread(t),
           NEW status, status # "PENDING", Writes(threads[t].job.call, status),
           UNCHANGED <<pending, minted, now>>
    PROVE  DecideStep(t)
  <1>1. MovesTo(t, pc)
    BY GotoMoves DEF Inv
  <1>2. threads[t].job.call \in CallId
    BY HandlerCall
  <1> QED BY <1>1, <1>2 DEF MovesTo, DecideStep, Asks, Writes

\* So are the steps of an evaluation,
LEMMA EvaluateDecides ==
    ASSUME Inv, NEW t \in Thread, EvaluateStep(t)
    PROVE  DecideStep(t)
  <1> USE DEF At, IdleThread
  <1>1. CASE AuditEvaluation(t)
    BY <1>1, DecideMove DEF AuditEvaluation, history, OpenPc, Pc, StorePc
  <1>2. CASE SaveExecuting(t)
    <2>1. Writes(threads[t].job.call, "EXECUTING")
      BY <1>2, HandlerCall, SaveWrites DEF SaveExecuting, Inv
    <2> QED BY <1>2, <2>1, DecideWrite DEF SaveExecuting, history, Pc, StorePc
  <1>3. CASE SavePending(t)
    <2> DEFINE c == threads[t].job.call
    <2>1. /\ Writes(c, "PENDING") /\ threads[t].job \in Job
          /\ threads[t].pc = "stage_save" /\ UNCHANGED <<pending, now>>
      BY <1>3, HandlerCall, SaveWrites DEF SavePending, Inv
    <2>2. PICK a \in ApprovalId :
            /\ minted[a] = Nothing
            /\ LET job == [threads[t].job EXCEPT !.approval = a, !.expires = now + Lifetime]
               IN  /\ minted' = [minted EXCEPT ![a] = job]
                   /\ threads' = [threads EXCEPT ![t].pc = "stage_audit", ![t].job = job]
      BY <1>3 DEF SavePending
    <2> DEFINE job == [threads[t].job EXCEPT !.approval = a, !.expires = now + Lifetime]
    <2>3. job \in Job /\ job.call = c /\ job.approval = a
      <3>1. now + Lifetime \in Nat
        BY BoundsAssumption DEF Inv, TypeOK, Time
      <3>2. \A j \in Job, e \in Nat :
              LET k == [j EXCEPT !.approval = a, !.expires = e]
              IN  k \in Job /\ k.call = j.call /\ k.approval = a
        BY DEF Job
      <3> QED BY <2>1, <3>1, <3>2
    <2> HIDE DEF job
    <2>4. /\ threads'[t].pc = "stage_audit" /\ threads'[t].job = job
          /\ \A u \in Thread : u # t => threads'[u] = threads[u]
      BY <2>2 DEF job, Inv, TypeOK, ThreadState
    <2>5. minted'[a] = job /\ \A b \in ApprovalId : b # a => minted'[b] = minted[b]
      BY <2>2 DEF job, Inv, TypeOK
    <2>6. job # Nothing
      BY <2>3, NothingAssumption
    <2>7. \A d \in CallId : Asks(d)' => Asks(d) \/ d = c
      BY <2>1 DEF Writes, Asks
    <2> QED
      BY <2>1, <2>2, <2>3, <2>4, <2>5, <2>6, <2>7 DEF DecideStep, Carries, OpenPc
  <1>4. CASE AuditRequested(t)
    BY <1>4, DecideMove DEF AuditRequested, history, OpenPc, Pc, StorePc
  <1>5. CASE Stage(t)
    <2> DEFINE a == threads[t].job.approval
    <2>1. Leaves(t)
      BY <1>5, ReturnLeaves DEF Stage, Inv
    <2>2. /\ pending'[a] = threads[t].job /\ threads[t].job # Nothing
          /\ \A b \in ApprovalId : b # a => pending'[b] = pending[b]
      BY <1>5, NothingAssumption DEF Stage, Inv, TypeOK, ThreadsFit, CarryPc
    <2>3. UNCHANGED <<toolCalls, minted, now>>
      BY <1>5 DEF Stage, tables, history
    <2> QED BY <2>1, <2>2, <2>3 DEF Leaves, DecideStep, Asks
  <1>6. CASE SaveRejected(t)
    <2>1. Writes(threads[t].job.call, "REJECTED")
      BY <1>6, HandlerCall, SaveWrites DEF SaveRejected, Inv
    <2> QED BY <1>6, <2>1, DecideWrite DEF SaveRejected, history, Pc, StorePc
  <1>7. CASE AuditDenied(t)
    BY <1>7, DecideReturn DEF AuditDenied, history, OpenPc
  <1>8. CASE SaveRefused(t)
    BY <1>8, DecideReturn DEF SaveRefused, tables, history, OpenPc
  <1> QED
    BY <1>1, <1>2, <1>3, <1>4, <1>5, <1>6, <1>7, <1>8 DEF EvaluateStep

\* of an execution,
LEMMA ExecuteDecides ==
    ASSUME Inv, NEW t \in Thread, ExecuteStep(t)
    PROVE  DecideStep(t)
  <1> USE DEF At, IdleThread
  <1>1. CASE ExecuteOk(t)
    <2>1. PICK pc \in {"completed", "failed"} : Goto(t, pc)
      BY <1>1 DEF ExecuteOk
    <2> QED BY <1>1, <2>1, DecideMove DEF ExecuteOk, tables, OpenPc, Pc, StorePc
  <1>2. CASE ExecuteErr(t)
    BY <1>2, DecideReturn DEF ExecuteErr, tables, history, OpenPc
  <1>3. CASE Finish(t)
    <2>1. PICK status \in {"COMPLETED", "FAILED"} : UpdateStatus(threads[t].job.call, status)
      BY <1>3 DEF Finish
    <2>2. Writes(threads[t].job.call, status)
      BY <1>3, <2>1, HandlerCall, UpdateWrites DEF Finish, Inv
    <2>3. /\ Goto(t, "exec_audit") /\ UNCHANGED <<pending, minted, now>>
          /\ threads[t].pc \in {"completed", "failed"}
      BY <1>3 DEF Finish, history
    <2>4. "exec_audit" \in Pc
      BY DEF Pc, StorePc
    <2> QED BY <2>2, <2>3, <2>4, DecideWrite
  <1>4. CASE AuditExecuted(t)
    BY <1>4, DecideReturn DEF AuditExecuted, history, OpenPc
  <1> QED BY <1>1, <1>2, <1>3, <1>4 DEF ExecuteStep

\* and of a submission.
LEMMA SubmitDecides ==
    ASSUME Inv, NEW t \in Thread, SubmitStep(t)
    PROVE  DecideStep(t)
  <1> USE DEF At, IdleThread
  <1>1. CASE Decide(t)
    <2>1. PICK pc \in {"expire_update", "reject_update", "grant_save"} :
            threads' = [threads EXCEPT ![t].pc = pc, ![t].at = now]
      BY <1>1 DEF Decide
    <2>2. /\ threads'[t].pc = pc /\ threads'[t].job = threads[t].job
          /\ \A u \in Thread : u # t => threads'[u] = threads[u]
      BY <2>1 DEF Inv, TypeOK, ThreadState
    <2>3. UNCHANGED <<toolCalls, pending, minted, now>>
      BY <1>1 DEF Decide, tables, history
    <2> QED BY <2>2, <2>3 DEF DecideStep, Asks, OpenPc
  <1>2. CASE Reinsert(t)
    <2> DEFINE a == threads[t].job.approval
    <2>1. Leaves(t)
      BY <1>2, ReturnLeaves DEF Reinsert, Inv
    <2>2. /\ pending'[a] = threads[t].job /\ threads[t].job # Nothing
          /\ \A b \in ApprovalId : b # a => pending'[b] = pending[b]
      BY <1>2, NothingAssumption DEF Reinsert, Inv, TypeOK, ThreadsFit, CarryPc, SettlePc
    <2>3. UNCHANGED <<toolCalls, minted, now>>
      BY <1>2 DEF Reinsert, tables, history
    <2> QED BY <2>1, <2>2, <2>3 DEF Leaves, DecideStep, Asks
  <1>3. CASE ExpireUpdate(t)
    <2>1. Writes(threads[t].job.call, "CANCELLED")
      BY <1>3, HandlerCall, UpdateWrites DEF ExpireUpdate, Inv
    <2> QED BY <1>3, <2>1, DecideWrite DEF ExpireUpdate, history, Pc, StorePc
  <1>4. CASE AuditExpired(t)
    BY <1>4, DecideReturn DEF AuditExpired, history, OpenPc
  <1>5. CASE RejectUpdate(t)
    <2>1. Writes(threads[t].job.call, "REJECTED")
      BY <1>5, HandlerCall, UpdateWrites DEF RejectUpdate, Inv
    <2> QED BY <1>5, <2>1, DecideWrite DEF RejectUpdate, history, Pc, StorePc
  <1>6. CASE RejectSave(t)
    BY <1>6, DecideMove DEF RejectSave, history, OpenPc, Pc, StorePc
  <1>7. CASE AuditRejected(t)
    BY <1>7, DecideReturn DEF AuditRejected, history, OpenPc
  <1>8. CASE GrantSave(t)
    BY <1>8, DecideMove DEF GrantSave, history, OpenPc, Pc, StorePc
  <1>9. CASE AuditGranted(t)
    BY <1>9, DecideMove DEF AuditGranted, history, OpenPc, Pc, StorePc
  <1>10. CASE GrantUpdate(t)
    <2>1. Writes(threads[t].job.call, "EXECUTING")
      BY <1>10, HandlerCall, UpdateWrites DEF GrantUpdate, Inv
    <2> QED BY <1>10, <2>1, DecideWrite DEF GrantUpdate, history, Pc, StorePc
  <1> QED
    BY <1>1, <1>2, <1>3, <1>4, <1>5, <1>6, <1>7, <1>8, <1>9, <1>10 DEF SubmitStep

\* A step of an idle thread or of the clock that leaves rows and handlers, and
\* drops from the map at most what is past its deadline.
LEMMA DecideElsewhere ==
    ASSUME Inv, DecidableFit, now' \in Nat, now <= now',
           \A c \in CallId : Asks(c)' => Asks(c),
           \A a \in ApprovalId : \/ pending'[a] = pending[a]
                                 \/ pending[a] # Nothing /\ pending[a].expires <= now,
           \A t \in Thread : threads'[t] = threads[t] \/ threads[t].pc = "idle",
           minted' = minted
    PROVE  DecidableFit'
  <1> SUFFICES ASSUME NEW c \in CallId, Asks(c)'
               PROVE  \E a \in ApprovalId : minted'[a] # Nothing /\ minted'[a].call = c /\ Open(a)'
    BY DEF DecidableFit, Asks
  <1>1. PICK a \in ApprovalId : minted[a] # Nothing /\ minted[a].call = c /\ Open(a)
    BY DEF DecidableFit, Asks
  <1>2. minted[a].expires \in Nat /\ now \in Nat
    BY <1>1, BoundsAssumption DEF Inv, TypeOK, Time, Job
  <1>3. CASE minted[a].expires <= now
    <2>1. minted'[a].expires <= now'
      BY <1>2, <1>3
    <2> QED BY <1>1, <2>1 DEF Open
  <1>4. CASE pending[a] # Nothing
    BY <1>1, <1>3, <1>4, StagedIsMinted DEF Open
  <1>5. CASE \E t \in Thread : Carries(t, a) /\ threads[t].pc \in OpenPc
    BY <1>1, <1>5 DEF Open, Carries, IdleThread, At, OpenPc
  <1> QED BY <1>1, <1>3, <1>4, <1>5 DEF Open

\* Every step keeps approvals whose row says PENDING open, unless a crash or a
\* store error loses them.
LEMMA DecidableKept ==
    ASSUME ~DbCanFail, ~CanRestart, Inv, DecidableFit, [Next]_vars
    PROVE  DecidableFit'
  <1>0. now \in Nat /\ now <= now
    BY BoundsAssumption DEF Inv, TypeOK, Time
  <1>1. ASSUME NEW t \in Thread, HandlerStep(t) PROVE DecidableFit'
    BY <1>1, EvaluateDecides, ExecuteDecides, SubmitDecides, DecideStepFit DEF HandlerStep
  <1>2. ASSUME NEW t \in Thread, ListPending(t) PROVE DecidableFit'
    <2>1. UNCHANGED <<toolCalls, threads, minted, now>>
      BY <1>2 DEF ListPending, tables, history
    <2>2. \A a \in ApprovalId : \/ pending'[a] = pending[a]
                                \/ pending[a] # Nothing /\ pending[a].expires <= now
      <3> SUFFICES ASSUME NEW a \in ApprovalId, pending'[a] # pending[a]
                   PROVE  pending[a] # Nothing /\ pending[a].expires <= now
        OBVIOUS
      <3>1. pending[a] # Nothing /\ ~(pending[a].expires > now)
        BY <1>2 DEF ListPending
      <3>2. pending[a].expires \in Nat
        BY <3>1 DEF Inv, TypeOK, Job
      <3> QED BY <1>0, <3>1, <3>2
    <2> QED BY <1>0, <2>1, <2>2, DecideElsewhere DEF Asks
  <1>3. ASSUME NEW t \in Thread, NEW c \in CallId, NEW inv \in Invocation, Evaluate(t, c, inv)
        PROVE  DecidableFit'
    <2>1. threads[t].pc = "idle" /\ UNCHANGED <<toolCalls, pending, minted, now>>
      BY <1>3 DEF Evaluate, IdleThread, At, tables
    <2>2. \A u \in Thread : u # t => threads'[u] = threads[u]
      <3>1. CASE inv.valid
        <4>1. PICK job : threads' = [threads EXCEPT ![t] = Doing("evaluated", job, Nothing)]
          BY <1>3, <3>1 DEF Evaluate
        <4> QED BY <4>1 DEF Inv, TypeOK
      <3> QED BY <1>3, <3>1 DEF Evaluate
    <2> QED BY <1>0, <2>1, <2>2, DecideElsewhere DEF Asks
  <1>4. ASSUME NEW t \in Thread, NEW a \in ApprovalId, NEW sub \in Submission,
               SubmitApproval(t, a, sub)
        PROVE  DecidableFit'
    <2>1. /\ threads[t].pc = "idle" /\ UNCHANGED <<toolCalls, minted, now>>
          /\ pending[a] # Nothing /\ pending[a].approval = a
      BY <1>4, StagedIsMinted DEF SubmitApproval, IdleThread, At, tables, history
    <2>2. \A b \in ApprovalId : b # a => pending'[b] = pending[b]
      BY <1>4 DEF SubmitApproval, Inv, TypeOK
    <2>3. /\ threads'[t].pc = "taken" /\ threads'[t].job = pending[a]
          /\ \A u \in Thread : u # t => threads'[u] = threads[u]
      BY <1>4 DEF SubmitApproval, Doing, Inv, TypeOK
    <2>4. Carries(t, a)' /\ threads'[t].pc \in OpenPc
      BY <2>1, <2>3 DEF Carries, IdleThread, At, OpenPc
    <2>5. \A b \in ApprovalId : Open(b) => Open(b)'
      BY <2>1, <2>2, <2>3, <2>4 DEF Open, Carries, IdleThread, At, OpenPc
    <2> QED BY <2>1, <2>5 DEF DecidableFit
  <1>5. ASSUME NEW t \in Thread, NEW s \in Server, NEW env \in Environment, SaveServer(t, s, env)
        PROVE  DecidableFit'
    <2>1. UNCHANGED <<toolCalls, pending, threads, minted, now>>
      BY <1>5 DEF SaveServer, tables, history
    <2> QED BY <1>0, <2>1, DecideElsewhere DEF Asks
  <1>6. ASSUME NEW t \in Thread, NEW s \in Server, DeleteServer(t, s) PROVE DecidableFit'
    <2>1. UNCHANGED <<pending, threads, minted, now>>
      BY <1>6 DEF DeleteServer, history
    <2>2. \A c \in CallId : Asks(c)' => Asks(c)
      BY <1>6, DeleteKeepsStatus DEF Asks, Inv
    <2> QED BY <1>0, <2>1, <2>2, DecideElsewhere
  <1>7. CASE Tick
    <2>1. UNCHANGED <<toolCalls, pending, threads, minted>> /\ now' = now + 1
      BY <1>7 DEF Tick, tables, history
    <2>2. now' \in Nat /\ now <= now'
      BY <1>0, <2>1
    <2> QED BY <2>1, <2>2, DecideElsewhere DEF Asks
  <1>8. CASE UNCHANGED vars
    <2>1. UNCHANGED <<toolCalls, pending, threads, minted, now>>
      BY <1>8 DEF vars, tables, history
    <2> QED BY <1>0, <2>1, DecideElsewhere DEF Asks
  <1> QED
    BY <1>1, <1>2, <1>3, <1>4, <1>5, <1>6, <1>7, <1>8 DEF Next, DbError, Restart

\* Without crashes and store errors, a PENDING row is one that somebody can still
\* decide, is deciding, or whose deadline has come: prune and submission, in any
\* interleaving, never lose a request the user was shown.
THEOREM PendingStaysDecidable ==
    ASSUME ~DbCanFail, ~CanRestart
    PROVE  Spec => []PendingRowDecidable
  <1>1. Init => DecidableFit
    BY DEF Init, DecidableFit
  <1>2. Inv /\ DecidableFit /\ [Next]_vars => DecidableFit'
    BY DecidableKept
  <1>3. Inv /\ DecidableFit => PendingRowDecidable
    <2> SUFFICES ASSUME Inv, DecidableFit, NEW c \in CallId,
                        toolCalls[c] # Nothing, toolCalls[c].status = "PENDING"
                 PROVE  \/ Busy(c)
                        \/ \E a \in ApprovalId :
                              /\ minted[a] # Nothing /\ minted[a].call = c
                              /\ pending[a] # Nothing \/ minted[a].expires <= now
      BY DEF PendingRowDecidable
    <2>1. PICK a \in ApprovalId : minted[a] # Nothing /\ minted[a].call = c /\ Open(a)
      BY DEF DecidableFit
    <2>2. \A t \in Thread : Carries(t, a) => ~IdleThread(t) /\ threads[t].job.call = c
      BY <2>1 DEF Inv, MintedFit, Carries
    <2> QED BY <2>1, <2>2 DEF Open, Busy
  <1> QED BY <1>1, <1>2, <1>3, Invariance, PTL DEF Spec

-----------------------------------------------------------------------------
(* The policy engine, for every sample of commands *)

\* A request keeps the types of its parts.
LEMMA PolicyTypes == RequestSpec => []RequestTypeOK
  <1>1. RequestInit => RequestTypeOK
    BY SampleAssumption DEF RequestInit, RequestTypeOK
  <1>2. RequestTypeOK /\ [RequestNext]_request => RequestTypeOK'
    <2> SUFFICES ASSUME RequestTypeOK, [RequestNext]_request PROVE RequestTypeOK'
      OBVIOUS
    <2>1. CASE ExtendCommand
      <3>1. cmd \in Command
        BY <2>1 DEF ExtendCommand, HasCommand, RequestTypeOK
      <3>2. cmd' \in Command
        BY <2>1, <3>1, SampleAssumption DEF ExtendCommand, Command
      <3> QED BY <2>1, <3>2 DEF ExtendCommand, RequestTypeOK
    <2>2. CASE ~ExtendCommand
      BY <2>2 DEF RequestNext, request, RequestTypeOK, RaiseRisk, TightenMode, Promote, LoseTarget, Environment
    <2> QED BY <2>1, <2>2
  <1> QED BY <1>1, <1>2, PTL DEF RequestSpec

\* A tool without a command has none of the commands.
LEMMA NoCommandIsNone == NoCommand \notin Command
  BY DEF NoCommand, Command

\* More text never turns a command into a diagnostic or makes it harmless.
LEMMA ExtensionIsWorse ==
    ASSUME RequestTypeOK, ExtendCommand
    PROVE  /\ IsReadOnlyDiagnostic(cmd)' => IsReadOnlyDiagnostic(cmd)
           /\ ScanDestructive(cmd) => ScanDestructive(cmd)'
  <1>1. cmd \in Command
    BY DEF ExtendCommand, HasCommand, RequestTypeOK
  <1>2. /\ cmd'.blank = cmd.blank
        /\ cmd.redirects => cmd'.redirects
        /\ cmd.matches \subseteq cmd'.matches
        /\ cmd.segments \subseteq cmd'.segments
        /\ cmd' \in Command
    <2> DEFINE Worse(new) ==
          /\ new.blank = cmd.blank
          /\ cmd.redirects => new.redirects
          /\ cmd.matches \subseteq new.matches
          /\ cmd.segments \subseteq new.segments
          /\ new \in Command
    <2>1. Worse([cmd EXCEPT !.redirects = TRUE])
      BY <1>1 DEF Command
    <2>2. \A s \in Segment : Worse([cmd EXCEPT !.segments = @ \cup {s}])
      BY <1>1 DEF Command
    <2>3. \A h \in Pattern : Worse([cmd EXCEPT !.matches = @ \cup {h}])
      BY <1>1, SampleAssumption DEF Command
    <2>4. Worse(cmd')
      BY <2>1, <2>2, <2>3 DEF ExtendCommand
    <2> QED BY <2>4
  <1> QED
    BY <1>1, <1>2, NoCommandIsNone DEF HasCommand, IsReadOnlyDiagnostic, ScanDestructive

\* Which way each part of the decision moves on a step.
LEMMA TighteningParts ==
    ASSUME RequestTypeOK, RequestNext
    PROVE  /\ Unresolved(category, target) => Unresolved(category, target)'
           /\ Critical(risk, cmd) => Critical(risk, cmd)'
           /\ Unresolved(category, target)' \/ Critical(risk, cmd)' \/
              (Automatic(category, risk, target, mode, cmd)' =>
                 Automatic(category, risk, target, mode, cmd))
  <1> USE DEF Unresolved, Critical, Automatic, EffectiveRisk
  <1>1. CASE RaiseRisk
    <2> USE <1>1 DEF RaiseRisk, RiskRank, RiskLevel, RequestTypeOK
    <2>1. Unresolved(category, target)' = Unresolved(category, target)
      OBVIOUS
    <2>2. risk = "CRITICAL" => risk' = "CRITICAL"
      OBVIOUS
    <2>3. risk' \in {"READ_ONLY", "LOW"} => risk \in {"READ_ONLY", risk'}
      OBVIOUS
    <2>4. risk' = "MEDIUM" => risk # "HIGH"
      OBVIOUS
    <2>5. risk' \in RiskLevel /\ UNCHANGED <<category, target, mode, cmd>>
      OBVIOUS
    <2> QED
      BY <2>1, <2>2, <2>3, <2>4, <2>5 DEF ScanDestructive, HasCommand, IsReadOnlyDiagnostic
  <1>2. CASE TightenMode
    BY <1>2 DEF TightenMode, ModeRank, PermissionMode, RequestTypeOK
  <1>3. CASE Promote
    BY <1>3 DEF Promote, Environment, NoServer
  <1>4. CASE LoseTarget
    BY <1>4 DEF LoseTarget
  <1>5. CASE ExtendCommand
    BY <1>5, ExtensionIsWorse DEF ExtendCommand
  <1> QED BY <1>1, <1>2, <1>3, <1>4, <1>5 DEF RequestNext

\* A riskier tool, a stricter mode, production, a lost target or more text in the
\* command never makes the decision of the policy engine less strict.
THEOREM Tightening == RequestSpec => TighteningNeverRelaxes
  <1>1. RequestTypeOK /\ [RequestNext]_request => [DecisionRank[TheDecision'] >= DecisionRank[TheDecision]]_request
    <2> SUFFICES ASSUME RequestTypeOK, RequestNext PROVE DecisionRank[TheDecision'] >= DecisionRank[TheDecision]
      OBVIOUS
    <2> DEFINE Strictness(u, c, f) == IF u THEN 3 ELSE IF c THEN 2 ELSE IF f THEN 0 ELSE 1
    <2>1. DecisionRank[TheDecision] =
            Strictness(Unresolved(category, target), Critical(risk, cmd),
                       Automatic(category, risk, target, mode, cmd))
      BY DEF TheDecision, EvaluatePolicy, DecisionRank
    <2>2. DecisionRank[TheDecision'] =
            Strictness(Unresolved(category, target)', Critical(risk, cmd)',
                       Automatic(category, risk, target, mode, cmd)')
      BY DEF TheDecision, EvaluatePolicy, DecisionRank
    <2> QED BY <2>1, <2>2, TighteningParts
  <1> QED BY <1>1, PolicyTypes, PTL DEF RequestSpec, TighteningNeverRelaxes
=============================================================================
