\* One chain: tokens moved by a delegate of a wallet that was visited before.
SPECIFICATION Spec
CONSTANTS
    Sol = "sol"
    Target = "target"
    Fee = 1
    Rent = 2
    MaterialSol = 5
    SampleLimit = 2
    Seed = 2
    Supply = 1000
    Materiality = 1
    Nobody = 0
    MaxFailures = 0
    Templates <- MCTemplates
    Worlds <- MCDelegated
    Opening <- MCOpening
    Configs <- MCConfigs
INVARIANTS
    ExpansionEnds
\* An audit that is done stays so.
CHECK_DEADLOCK FALSE
