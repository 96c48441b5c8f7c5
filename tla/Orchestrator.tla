------------------------------ MODULE Orchestrator ------------------------------
(***************************************************************************)
(* One turn of a chat: ToolLoopOrchestrator.run (ai-core/orchestrator.ts).  *)
(* A provider streams an answer; the tool calls in it go to the executor,   *)
(* one after the other, and their results into the next request, until an   *)
(* answer has no calls, a call needs the user's approval, or a limit is     *)
(* reached.  A provider that fails is replaced by the next of the chain.    *)
(*                                                                         *)
(* Every await is a point where the user's abort, the time limit, a failing *)
(* provider or an executor that throws may come in.  Texts are left out:    *)
(* what a stream is known by here is the calls it asks for.                 *)
(***************************************************************************)
EXTENDS Naturals, Sequences

CONSTANTS
    CallId,          \* ids of tool calls that a provider may use
    ChainLength,     \* providers of the chain
    MaxIterations,   \* LoopLimits.maxIterations
    MaxCalls,        \* bound on the calls of one stream
    CanAbort,        \* may the user abort the turn?
    CanBeLate,       \* may the turn exceed maxExecutionDurationMs?
    StreamCanFail,   \* may a provider fail without an abort?
    ToolCanThrow     \* may the executor's callback throw?

ASSUME OrchestratorAssumption ==
    /\ ChainLength \in Nat \ {0}
    /\ MaxIterations \in Nat /\ MaxCalls \in Nat
    /\ {CanAbort, CanBeLate, StreamCanFail, ToolCanThrow} \subseteq BOOLEAN

Provider == 1 .. ChainLength

\* A call and, for the properties, the provider that asked for it.
Call == [id : CallId, by : Provider]

VARIABLES
    pc,         \* where run() is; "over": it has returned or thrown
    iteration,
    active,     \* activeProviderIndex
    calls,      \* toolCallMap, in the order of its keys; then requestedCalls
    next,       \* position of the call under way in requestedCalls
    messages,   \* what the turn has added to workingMessages
    aborted,    \* signal.aborted
    late,       \* is the time over?
    outcome,    \* how the turn ended, or "none"
    ran,        \* history: the calls given to the executor, with their iteration
    fence       \* history: the iteration of the abort, MaxIterations before it

stream == <<active, calls>>
history == <<ran, fence>>
vars == <<pc, iteration, active, calls, next, messages, aborted, late, outcome, history>>

Outcome == {"none", "final", "approval", "cancelled", "limit", "failed"}

Init ==
    /\ pc = "head"
    /\ iteration = 0
    /\ active = 1
    /\ calls = <<>>
    /\ next = 1
    /\ messages = <<>>
    /\ aborted = FALSE
    /\ late = FALSE
    /\ outcome = "none"
    /\ ran = {}
    /\ fence = MaxIterations

Assistant(requested) == [role |-> "assistant", calls |-> requested]
Tool(call) == [role |-> "tool", calls |-> <<call>>]

Return(how) == pc' = "over" /\ outcome' = how

-----------------------------------------------------------------------------
(* The head of the loop *)

LimitReached ==
    /\ pc = "head"
    /\ iteration = MaxIterations
    /\ Return("limit")
    /\ UNCHANGED <<iteration, stream, next, messages, aborted, late, history>>

\* MUTANT of Ask: nobody looks at the signal.
AskRegardless ==
    /\ pc = "head"
    /\ iteration < MaxIterations
    /\ iteration' = iteration + 1
    /\ IF late THEN Return("failed") ELSE pc' = "stream" /\ outcome' = outcome
    /\ calls' = <<>>
    /\ next' = 1
    /\ UNCHANGED <<active, messages, aborted, late, history>>

\* The iteration is counted, the time is looked at, then the signal, then the active
\* provider is asked.
Ask ==
    /\ pc = "head"
    /\ iteration < MaxIterations
    /\ iteration' = iteration + 1
    /\ \/ late /\ Return("failed") /\ calls' = <<>>
       \/ ~late /\ aborted /\ Return("cancelled") /\ calls' = <<>>
       \/ ~late /\ ~aborted /\ pc' = "stream" /\ calls' = <<>> /\ outcome' = outcome
    /\ next' = 1
    /\ UNCHANGED <<active, messages, aborted, late, history>>

-----------------------------------------------------------------------------
(* The stream *)

Asked(id) == \E i \in DOMAIN calls : calls[i].id = id

\* Further pieces of a call go to its entry of the map.
ToolCallDelta(id) ==
    /\ pc = "stream"
    /\ ~aborted
    /\ ~Asked(id)
    /\ Len(calls) < MaxCalls
    /\ calls' = Append(calls, [id |-> id, by |-> active])
    /\ UNCHANGED <<pc, iteration, active, next, messages, aborted, late, outcome, history>>

\* The next chunk of any kind after the abort ends the turn.
CancelledMidStream ==
    /\ pc = "stream"
    /\ aborted
    /\ Return("cancelled")
    /\ UNCHANGED <<iteration, stream, next, messages, aborted, late, history>>

\* No calls: this is the final answer.
StreamEnds ==
    /\ pc = "stream"
    /\ messages' = Append(messages, Assistant(calls))
    /\ IF calls = <<>>
       THEN Return("final")
       ELSE pc' = "calls" /\ outcome' = outcome
    /\ UNCHANGED <<iteration, stream, next, aborted, late, history>>

\* MUTANT of StreamFails: the chain starts over.
StreamRetried ==
    /\ pc = "stream"
    /\ StreamCanFail \/ aborted
    /\ active' = (active % ChainLength) + 1
    /\ calls' = <<>>
    /\ UNCHANGED <<pc, iteration, next, messages, aborted, late, outcome, history>>

\* What the failing stream has sent is dropped, and the next provider asked.  The
\* abort makes a pending fetch throw, too.
StreamFails ==
    /\ pc = "stream"
    /\ StreamCanFail \/ aborted
    /\ IF active < ChainLength
       THEN active' = active + 1 /\ calls' = <<>> /\ UNCHANGED <<pc, outcome>>
       ELSE Return("failed") /\ UNCHANGED <<active, calls>>
    /\ UNCHANGED <<iteration, next, messages, aborted, late, history>>

-----------------------------------------------------------------------------
(* The calls, one after the other; nobody looks at the signal *)

Execute ==
    /\ pc = "calls"
    /\ next <= Len(calls)
    /\ pc' = "execute"
    /\ ran' = ran \cup {[iteration |-> iteration, call |-> calls[next]]}
    /\ UNCHANGED <<iteration, stream, next, messages, aborted, late, outcome, fence>>

\* MUTANT of Answered: nothing is told to the model.
AnsweredSilently ==
    /\ pc = "execute"
    /\ next' = next + 1
    /\ pc' = "calls"
    /\ UNCHANGED <<iteration, stream, messages, aborted, late, outcome, history>>

\* Executed, failed or denied: the model is told, sanitised and wrapped.
Answered ==
    /\ pc = "execute"
    /\ messages' = Append(messages, Tool(calls[next]))
    /\ next' = next + 1
    /\ pc' = "calls"
    /\ UNCHANGED <<iteration, stream, aborted, late, outcome, history>>

\* The turn is over; the calls behind this one are never answered.
ApprovalRequired ==
    /\ pc = "execute"
    /\ Return("approval")
    /\ UNCHANGED <<iteration, stream, next, messages, aborted, late, history>>

ExecutorThrows ==
    /\ pc = "execute"
    /\ ToolCanThrow
    /\ Return("failed")
    /\ UNCHANGED <<iteration, stream, next, messages, aborted, late, history>>

CallsDone ==
    /\ pc = "calls"
    /\ next > Len(calls)
    /\ pc' = "head"
    /\ UNCHANGED <<iteration, stream, next, messages, aborted, late, outcome, history>>

-----------------------------------------------------------------------------
(* The user and the clock *)

Abort ==
    /\ CanAbort
    /\ ~aborted
    /\ pc # "over"
    /\ aborted' = TRUE
    /\ fence' = iteration
    /\ UNCHANGED <<pc, iteration, stream, next, messages, late, outcome, ran>>

TimeOver ==
    /\ CanBeLate
    /\ ~late
    /\ pc # "over"
    /\ late' = TRUE
    /\ UNCHANGED <<pc, iteration, stream, next, messages, aborted, outcome, history>>

Loop == LimitReached \/ Ask \/ CallsDone \/ Execute

Chunk == CancelledMidStream \/ StreamEnds \/ StreamFails \/ \E id \in CallId : ToolCallDelta(id)

Executor == Answered \/ ApprovalRequired \/ ExecutorThrows

Next == Loop \/ Chunk \/ Executor \/ Abort \/ TimeOver

Spec == Init /\ [][Next]_vars

\* The loop itself does not stop between two awaits, and the abort, given to fetch as
\* its signal, ends a stream.  Nothing is assumed of providers before the abort, nor of
\* the executor.
FairSpec == Spec /\ WF_vars(Loop) /\ WF_vars(aborted /\ Chunk)

-----------------------------------------------------------------------------
(* Properties *)

Message == [role : {"assistant", "tool"}, calls : Seq(Call)]

\* The variables hold what their types say, and a turn that is over has an outcome.
TypeOK ==
    /\ pc \in {"head", "stream", "calls", "execute", "over"}
    /\ iteration \in 0 .. MaxIterations
    /\ active \in Provider
    /\ calls \in Seq(Call)
    /\ next \in 1 .. Len(calls) + 1
    /\ messages \in Seq(Message)
    /\ {aborted, late} \subseteq BOOLEAN
    /\ outcome \in Outcome
    /\ pc = "over" <=> outcome # "none"
    /\ ran \subseteq [iteration : 1 .. MaxIterations, call : Call]
    /\ fence \in 0 .. MaxIterations

\* Providers refuse a request in which a call has no result, two results, or results in
\* another place: whenever one is asked, behind each answer with calls stand the results
\* of exactly these calls, and then the next answer.  Fallbacks, denials and failing
\* tools must not leave a gap.
RequestsComplete ==
    pc = "stream" =>
        \A i \in DOMAIN messages : messages[i].role = "assistant" =>
            LET requested == messages[i].calls IN
            /\ i + Len(requested) \in DOMAIN messages
            /\ \A k \in 1 .. Len(requested) : messages[i + k] = Tool(requested[k])
            /\ i + Len(requested) + 1 \in DOMAIN messages
                   => messages[i + Len(requested) + 1].role = "assistant"
            /\ \A k, l \in 1 .. Len(requested) : requested[k].id = requested[l].id => k = l

\* What runs was asked for in one answer that came to its end: no call of a stream that
\* broke off, and none of the provider that was replaced, is carried over.
CallsOfOneAnswer ==
    \A r \in ran : \E i \in DOMAIN messages :
        /\ messages[i].role = "assistant"
        /\ \E k \in DOMAIN messages[i].calls : messages[i].calls[k] = r.call
        /\ \A k \in DOMAIN messages[i].calls : messages[i].calls[k].by = r.call.by

\* After the user's abort only the answer under way can still run calls or end the turn:
\* nothing of an answer that was not yet asked for has an effect.
AbortBounds ==
    /\ \A r \in ran : r.iteration <= fence
    /\ outcome = "final" => iteration <= fence

\* An abort ends the turn, or the turn is inside a tool, which nobody interrupts.
AbortEnds == aborted ~> pc \in {"over", "execute"}

=================================================================================
