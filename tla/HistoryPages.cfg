\* Two addresses, tight budgets, a window of two payloads, three calls.
SPECIFICATION Spec
CONSTANTS
    a1 = a1
    a2 = a2
    s1 = s1
    s2 = s2
    s3 = s3
    s4 = s4
    x1 = x1
    x2 = x2
    None = None
    Signatures = {s1, s2, s3, s4}
    Addresses = {a1, a2}
    Accounts = {x1, x2}
    History <- MCHistory
    Transfers <- MCTransfers
    PageLimits = {1, 3}
    MaxRequests = 6
    MaxSignatures = 3
    MaxTransactions = 3
    MaxCredits = 320
    PayloadWindow = 2
    MaxRetries = 1
    ChunkSize = 1
    MaxVersion = 1
    MaxCalls = 3
INVARIANTS
    CompleteHistory
    DeliveredOnce
    WithinBudgets
    ReplayKeepsPayloads
    OneAnswerPerAccount
\* The calls of an investigation are bounded.
CHECK_DEADLOCK FALSE
