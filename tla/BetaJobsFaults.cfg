\* Two days, a storage error, crashes and shutdowns; a free and a member job fit the cap together.
SPECIFICATION FairSpec
CONSTANTS
    Ids = {i1, i2}
    Codes = {alice}
    Targets = {t1}
    Clients = {h1}
    None = None
    Cap = 4
    MaxConcurrent = 2
    PerRun = 1
    RunQuota = 0
    MemberPerRun = 3
    MemberRuns = 0
    MemberDaily = 0
    Weights = {1}
    MaxDay = 1
    MaxFaults = 1
INVARIANTS
    TypeOK
    SpendCovered
    StrandedOnlyByFault
    PausedMeansIdle
PROPERTIES
    TerminalIsFinal
    EveryJobSettles
    ImplementsLedger
CHECK_DEADLOCK FALSE
