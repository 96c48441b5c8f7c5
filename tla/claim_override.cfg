\* The server gets a new key, which the user accepts.
SPECIFICATION Spec
CONSTANTS
    h = h
    a = a
    e1 = e1
    e2 = e2
    r1 = r1
    Key = {e1, e2, r1}
    TypeOf <- MCTypeOf
    Host = {h, a}
    Hostname = h
    Targets = {h}
    Probe = {p1}
    Foreign <- NoForeign
    Rekeys = TRUE
    Forgets = FALSE
    FileFails = FALSE
    DbCanFail = FALSE
    CanRestart = FALSE
    MaxLines = 2
    Nothing = Nothing
INVARIANT
    AcceptedIsTrusted
