\* Runs that straddle midnight.
SPECIFICATION Spec
CONSTANTS
    Ids = {i1, i2}
    Codes = {alice}
    Targets = {t1, t2}
    Clients = {h1}
    None = None
    Cap = 2
    MaxConcurrent = 2
    PerRun = 2
    RunQuota = 0
    MemberPerRun = 2
    MemberRuns = 0
    MemberDaily = 0
    Weights = {1}
    MaxDay = 1
    MaxFaults = 0
SYMMETRY Symmetry
INVARIANTS
    BilledWithinCap
CHECK_DEADLOCK FALSE
