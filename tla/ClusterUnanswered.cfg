\* One chain: tokens handed on twice, and one request that fails or is answered with
\* nothing.
SPECIFICATION Spec
CONSTANTS
    Sol = "sol"
    Target = "target"
    Fee = 1
    Rent = 2
    MaterialSol = 5
    SampleLimit = 2
    Seed = 2
    Supply = 1000
    Materiality = 1
    Nobody = 0
    MaxFailures = 1
    Templates <- MCTemplates
    Worlds <- MCHandedOn
    Opening <- MCOpening
    Configs <- MCConfigs
INVARIANTS
    FailsClosed
\* An audit that is done stays so.
CHECK_DEADLOCK FALSE
