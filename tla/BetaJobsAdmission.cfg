\* Two handlers race for the credits, quotas and slots of one day; members have a daily pool.
SPECIFICATION Spec
CONSTANTS
    Ids = {i1, i2, i3}
    Codes = {alice}
    Targets = {t1, t2}
    Clients = {h1, h2}
    None = None
    Cap = 4
    MaxConcurrent = 2
    PerRun = 2
    RunQuota = 2
    MemberPerRun = 3
    MemberRuns = 0
    MemberDaily = 3
    Weights = {2}
    MaxDay = 0
    MaxFaults = 0
SYMMETRY Symmetry
INVARIANTS
    DailyCap
    OneActivePerFingerprint
    FreeRunQuota
    PoolMatchesLedger
PROPERTIES
    PoolCountsEarlierRuns
\* With every identifier used and the process down for good nothing is left to do.
CHECK_DEADLOCK FALSE
