SPECIFICATION FairSpec
CONSTANTS
    s1 = s1
    s2 = s2
    s3 = s3
    Server = {s1, s2, s3}
    Absent = absent
    Rank <- MCRank
    Nothing = nothing
    Choices <- MCChoices
    Called <- MCCalled
    Tables <- MCTables
    Edits <- MCEdits
    ConcurrencyLimit = 2
    MaxBatches = 2
INVARIANTS EveryTargetAnswers ReportedAsAsked
PROPERTIES KeepsPromise BatchReturns
