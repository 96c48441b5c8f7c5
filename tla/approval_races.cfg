\* Two threads, two approvals, call ids that may collide, crashes, store errors;
\* also the refinement of the gate.
SPECIFICATION Spec
CONSTANTS
    s1 = s1
    n1 = n1
    a1 = a1
    a2 = a2
    c1 = c1
    c2 = c2
    Thread = {t1, t2}
    CallId = {c1}
    ApprovalId = {a1, a2}
    Server = {s1}
    Name = {n1}
    NameOf <- MCNameOf
    Invocation <- RiskyOrQuick
    Lifetime = 1
    MaxTime = 2
    MaxRequests = 2
    ReuseCallIds = TRUE
    DbCanFail = TRUE
    ToolCanErr = TRUE
    ServersChange = FALSE
    CanRestart = TRUE
    Nothing = Nothing
SYMMETRY ApprovalSymmetry
INVARIANTS
    NoEffectWithoutAuthority
    OneEffectPerApproval
    OneVerdict
    PendingAsStaged
    EventsTellEffects
PROPERTIES
    ImplementsGate
