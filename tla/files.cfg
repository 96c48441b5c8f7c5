\* A live or a mock server: ssh commands fail, others write, the application restarts.
SPECIFICATION Spec
CONSTANTS
    f1 = f1
    t1 = t1
    t2 = t2
    File = {f1}
    Text = {t1, t2}
    Big = {t1}
    Invalid = {t2}
    Crashing = {t1}
    Seeded <- SeededTexts
    LiveChoices = {TRUE, FALSE}
    LinkFails = TRUE
    CopyFails = FALSE
    SameSecond = FALSE
    OthersWrite = TRUE
    CanRestart = TRUE
    MaxTime = 1
    MaxCommands = 3
    Nothing = Nothing
INVARIANTS
    SnapshotsKept
PROPERTIES
    OverwriteKeepsOld
    RestoreBringsBack
    RolledBackRestored
