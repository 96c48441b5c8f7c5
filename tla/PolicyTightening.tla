---------------------------- MODULE PolicyTightening ----------------------------
(***************************************************************************)
(* The policy engine against the order its documents give to risks,         *)
(* environments and modes: a request is tightened step by step, and its     *)
(* decision may only get stricter.                                          *)
(***************************************************************************)
EXTENDS PolicyEngine

CONSTANTS
    Sample,  \* commands a request may start with
    Pattern  \* destructive patterns that may come to match its text

ASSUME SampleAssumption ==
    Sample \subseteq Command \cup {NoCommand} /\ Pattern \subseteq Heuristic

\* "target" is the environment of the server the request is for.
VARIABLES category, risk, target, mode, cmd

request == <<category, risk, target, mode, cmd>>

RequestInit ==
    /\ category \in Category
    /\ risk \in RiskLevel
    /\ target \in Environment \cup {NoServer}
    /\ mode \in PermissionMode
    /\ cmd \in Sample

RiskRank == [READ_ONLY |-> 0, LOW |-> 1, MEDIUM |-> 2, HIGH |-> 3, CRITICAL |-> 4]

\* FULL_ACCESS leaves the most to the assistant, APPROVAL_REQUIRED the least.
ModeRank == [FULL_ACCESS |-> 0, SAFE_AUTOMATION |-> 1, APPROVAL_REQUIRED |-> 2]

DecisionRank ==
    [ALLOW |-> 0, REQUIRE_APPROVAL |-> 1, REQUIRE_TYPED_CONFIRMATION |-> 2, DENY |-> 3]

RaiseRisk ==
    /\ \E r \in RiskLevel : RiskRank[r] >= RiskRank[risk] /\ risk' = r
    /\ UNCHANGED <<category, target, mode, cmd>>

TightenMode ==
    /\ \E m \in PermissionMode : ModeRank[m] >= ModeRank[mode] /\ mode' = m
    /\ UNCHANGED <<category, risk, target, cmd>>

Promote ==
    /\ target \in Environment
    /\ target' = "PRODUCTION"
    /\ UNCHANGED <<category, risk, mode, cmd>>

\* The server of a remote tool is deleted, or was never named.
LoseTarget ==
    /\ IsRemote(category)
    /\ target' = NoServer
    /\ UNCHANGED <<category, risk, mode, cmd>>

\* "uptime" becomes "uptime > f", "uptime; reboot", or a text that matches.
ExtendCommand ==
    /\ HasCommand(cmd)
    /\ ~cmd.blank
    /\ \/ cmd' = [cmd EXCEPT !.redirects = TRUE]
       \/ \E s \in Segment : cmd' = [cmd EXCEPT !.segments = @ \cup {s}]
       \/ \E h \in Pattern : cmd' = [cmd EXCEPT !.matches = @ \cup {h}]
    /\ UNCHANGED <<category, risk, target, mode>>

RequestNext == RaiseRisk \/ TightenMode \/ Promote \/ LoseTarget \/ ExtendCommand

RequestSpec == RequestInit /\ [][RequestNext]_request

RequestTypeOK ==
    /\ category \in Category
    /\ risk \in RiskLevel
    /\ target \in Environment \cup {NoServer}
    /\ mode \in PermissionMode
    /\ cmd \in Command \cup {NoCommand}

TheDecision == EvaluatePolicy(category, risk, target, mode, cmd)

\* A riskier tool, a stricter mode, production for another environment, a lost
\* target, or more text in the command never makes the decision less strict.
TighteningNeverRelaxes ==
    [][DecisionRank[TheDecision'] >= DecisionRank[TheDecision]]_request

=============================================================================
