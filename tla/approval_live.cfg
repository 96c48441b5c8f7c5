\* One request and every kind of tool, two fair threads, servers edited and deleted
\* in between; unique call ids, no crash, no store error.
SPECIFICATION FairSpec
CONSTANTS
    s1 = s1
    n1 = n1
    a1 = a1
    a2 = a2
    c1 = c1
    c2 = c2
    Thread = {t1, t2}
    CallId = {c1}
    ApprovalId = {a1}
    Server = {s1}
    Name = {n1}
    NameOf <- MCNameOf
    Invocation <- Everyday
    Lifetime = 1
    MaxTime = 2
    MaxRequests = 1
    ReuseCallIds = FALSE
    DbCanFail = FALSE
    ToolCanErr = TRUE
    ServersChange = TRUE
    CanRestart = FALSE
    Nothing = Nothing
INVARIANTS
    AuditMatchesEffects
    PendingRowDecidable
    StatusTellsOutcome
PROPERTIES
    EffectIsRecorded
    SubmissionSettles
