--------------------------- MODULE ApprovalInvariant ---------------------------
(***************************************************************************)
(* The inductive invariant behind the safety properties of the approval     *)
(* manager.  An approval is at any time in one place: not minted, carried   *)
(* by the one handler that stages or settles it, staged in the map, or gone *)
(* for good; what the tables say of it depends on how far its carrier is.   *)
(***************************************************************************)
EXTENDS ApprovalManager

Carries(t, a) == ~IdleThread(t) /\ threads[t].job.approval = a

\* Handlers without, and with, an approval; those that settle a submission; and
\* those that still have to put the answer on record.
PlainPc == {"evaluated", "auto_save", "stage_save", "deny_save", "deny_audit"}
SettlePc == {"taken", "expire_update", "expire_audit", "reject_update", "reject_save",
             "reject_audit", "grant_save", "grant_audit", "grant_update"}
CarryPc == SettlePc \cup {"stage_audit", "stage"}
ExecutePc == {"execute", "completed", "failed", "exec_audit"}
UnansweredPc == {"stage_audit", "stage", "taken", "expire_update", "expire_audit",
                 "reject_update", "reject_save", "grant_save"}

Verdict == {"APPROVAL_GRANTED", "APPROVAL_REJECTED", "APPROVAL_EXPIRED"}

\* No answer to a is on record.
Unanswered(a) ==
    /\ \A r \in approvals : r.approval # a
    /\ \A e \in audit : e.approval = a => e.type \notin Verdict

NoEffect(a) == \A i \in DOMAIN executions : executions[i].approval # a

OnlyRejected(a) == ~Granted(a) /\ ~Audited("APPROVAL_GRANTED", a) /\ ~Audited("APPROVAL_EXPIRED", a)
OnlyGranted(a) == ~Rejected(a) /\ ~Audited("APPROVAL_REJECTED", a) /\ ~Audited("APPROVAL_EXPIRED", a)

\* The saved consent is in time and, if typed, what was asked for.
Consented(a) ==
    \E r \in approvals :
        /\ r.approval = a /\ r.decision = "APPROVED"
        /\ r.at <= minted[a].expires
        /\ RequiresTyped(minted[a]) => r.ack = ExpectedConfirmation(minted[a])

\* What a thread holds fits the place it is at.
ThreadsFit ==
    \A t \in Thread :
        /\ ~IdleThread(t) => threads[t].job \in Job
        /\ threads[t].pc \in PlainPc => threads[t].job.approval = Nothing
        /\ threads[t].pc \in CarryPc => threads[t].job.approval \in ApprovalId
        /\ threads[t].pc \in SettlePc => threads[t].sub \in Submission

\* What runs without an approval is what the policy allows.
DecisionsFit ==
    \A t \in Thread : ~IdleThread(t) /\ threads[t].job.approval = Nothing =>
        LET job == threads[t].job IN
        /\ job.decision = PolicyFor(job.inv, job.server)
        /\ threads[t].pc = "auto_save" => job.decision = "ALLOW"
        /\ threads[t].pc \in ExecutePc => job.decision = "ALLOW"

\* Whatever names an approval names one that was minted, as it was minted.
MintedFit ==
    \A a \in ApprovalId :
        /\ minted[a] # Nothing => minted[a].approval = a
        /\ pending[a] # Nothing => pending[a] = minted[a]
        /\ \A t \in Thread : Carries(t, a) => threads[t].job = minted[a]
        /\ minted[a] = Nothing => Unanswered(a) /\ NoEffect(a)

\* An approval is in one place.
OnePlace ==
    \A a \in ApprovalId, t \in Thread : Carries(t, a) =>
        /\ pending[a] = Nothing
        /\ \A u \in Thread : Carries(u, a) => u = t

StagedFit ==
    \A a \in ApprovalId : pending[a] # Nothing => Unanswered(a) /\ NoEffect(a)

\* What is on record of an approval, by how far its carrier is.
CarrierFits(t, a) ==
    /\ threads[t].pc \in UnansweredPc => Unanswered(a)
    /\ threads[t].pc \in CarryPc \cup {"execute"} => NoEffect(a)
    /\ threads[t].pc = "reject_audit" => Rejected(a) /\ OnlyRejected(a)
    /\ threads[t].pc = "grant_save" =>
         /\ threads[t].at <= minted[a].expires
         /\ Confirmed(minted[a], threads[t].sub)
    /\ threads[t].pc \in {"grant_audit", "grant_update", "execute"} =>
         Consented(a) /\ OnlyGranted(a)
    /\ threads[t].pc \in {"grant_update", "execute"} => Audited("APPROVAL_GRANTED", a)

CarriedFit ==
    \A a \in ApprovalId, t \in Thread : Carries(t, a) => CarrierFits(t, a)

\* Where the effects of the past stand.
EffectsFit ==
    /\ NoEffectWithoutAuthority
    /\ OneEffectPerApproval
    /\ OneVerdict

Inv ==
    /\ TypeOK
    /\ ThreadsFit
    /\ DecisionsFit
    /\ MintedFit
    /\ OnePlace
    /\ StagedFit
    /\ CarriedFit
    /\ EffectsFit

-----------------------------------------------------------------------------
(* What the records tell: three further invariants, each on its own assumptions *)

\* A call is with a handler, or staged; it is past its effect in RanPc.
Holds(t, c) == ~IdleThread(t) /\ threads[t].job.call = c
Waits(a, c) == pending[a] # Nothing /\ pending[a].call = c
RanPc == {"completed", "failed", "exec_audit"}

\* When no id is given to two calls, a call is in one place at most.
CallsFit ==
    \A c \in CallId :
        /\ c \notin issued =>
             /\ ~Ran(c)
             /\ \A t \in Thread : ~Holds(t, c)
             /\ \A a \in ApprovalId : ~Waits(a, c)
        /\ \A t, u \in Thread : Holds(t, c) /\ Holds(u, c) => t = u
        /\ \A a, b \in ApprovalId : Waits(a, c) /\ Waits(b, c) => a = b
        /\ \A t \in Thread, a \in ApprovalId : Holds(t, c) => ~Waits(a, c)

\* A call has run when its handler is past the effect, not before.
ProgressFit ==
    /\ \A t \in Thread, c \in CallId : Holds(t, c) => (Ran(c) <=> threads[t].pc \in RanPc)
    /\ \A a \in ApprovalId, c \in CallId : Waits(a, c) => ~Ran(c)
    /\ \A t \in Thread, c \in CallId :
         Holds(t, c) /\ At(t, "execute") /\ toolCalls[c] # Nothing =>
            toolCalls[c].status = "EXECUTING"

OutcomeFit == CallsFit /\ ProgressFit /\ StatusTellsOutcome

\* A handler past the effect has left it in the history.
EffectFit ==
    \A t \in Thread : threads[t].pc \in RanPc =>
        \E i \in DOMAIN executions : executions[i] = threads[t].job

RecordFit == EffectFit /\ AuditMatchesEffects

\* The half of it that survives crashes and store errors.
EventFit == EffectFit /\ EventsTellEffects

\* Handlers whose approval has a row that still says PENDING.
OpenPc == {"stage_audit", "stage", "taken", "expire_update", "reject_update",
           "grant_save", "grant_audit", "grant_update"}

\* An approval that can be decided, is being decided, or is past its deadline.
Open(a) ==
    \/ pending[a] # Nothing
    \/ minted[a].expires <= now
    \/ \E t \in Thread : Carries(t, a) /\ threads[t].pc \in OpenPc

DecidableFit ==
    \A c \in CallId : toolCalls[c] # Nothing /\ toolCalls[c].status = "PENDING" =>
        \E a \in ApprovalId : minted[a] # Nothing /\ minted[a].call = c /\ Open(a)
=============================================================================
