\* A probe, rekeys, other writers of the file, an alias, failures, restarts.
SPECIFICATION Spec
CONSTANTS
    h = h
    a = a
    e1 = e1
    e2 = e2
    r1 = r1
    Key = {e1, e2, r1}
    TypeOf <- MCTypeOf
    Host = {h, a}
    Hostname = h
    Targets = {h, a}
    Probe = {p1}
    Foreign <- MCForeign
    Rekeys = TRUE
    Forgets = TRUE
    FileFails = TRUE
    DbCanFail = TRUE
    CanRestart = TRUE
    MaxLines = 2
    Nothing = Nothing
INVARIANTS
    TrustFollowsUser
    ReplacedKeyWarned
PROPERTY
    LoginBehindTrustedKey
