--------------------------- MODULE ApprovalRefinement ---------------------------
(* The approval manager implements the gate. *)
EXTENDS ApprovalManager

ConsentOf(a) ==
    IF minted[a] = Nothing THEN "none"
    ELSE IF Granted(a) THEN "granted"
    ELSE IF Rejected(a) \/ Audited("APPROVAL_EXPIRED", a) THEN "refused"
    ELSE "asked"

Gate == INSTANCE ApprovalGate WITH
    consent <- [a \in ApprovalId |-> ConsentOf(a)],
    effects <- [i \in DOMAIN executions |-> executions[i].approval]

\* Read through its tables, every behaviour of the approval manager, with its
\* races, crashes and store errors, is one the gate allows.
ImplementsGate == Gate!Spec
=============================================================================
