------------------------------ MODULE ApprovalGate ------------------------------
(***************************************************************************)
(* What the approval manager promises the user of each approval, and no     *)
(* more: the core asks once, the answer is given once and never changes,    *)
(* and a granted approval has at most one effect, after the grant.  Effects *)
(* the policy allows by itself happen at any time and stand apart.          *)
(***************************************************************************)
EXTENDS Sequences

CONSTANTS ApprovalId, Nothing

VARIABLES
    consent,  \* "none", "asked", "granted" or "refused", for each approval
    effects   \* the approval each effect rests on, or Nothing, in order

gateVars == <<consent, effects>>

Init ==
    /\ consent = [a \in ApprovalId |-> "none"]
    /\ effects = <<>>

Ask(a) ==
    /\ consent[a] = "none"
    /\ consent' = [consent EXCEPT ![a] = "asked"]
    /\ UNCHANGED effects

Answer(a, verdict) ==
    /\ consent[a] = "asked"
    /\ consent' = [consent EXCEPT ![a] = verdict]
    /\ UNCHANGED effects

Effect(a) ==
    /\ consent[a] = "granted"
    /\ \A i \in DOMAIN effects : effects[i] # a
    /\ effects' = Append(effects, a)
    /\ UNCHANGED consent

AutomaticEffect ==
    /\ effects' = Append(effects, Nothing)
    /\ UNCHANGED consent

Next ==
    \/ \E a \in ApprovalId :
         Ask(a) \/ Answer(a, "granted") \/ Answer(a, "refused") \/ Effect(a)
    \/ AutomaticEffect

Spec == Init /\ [][Next]_gateVars
=============================================================================
