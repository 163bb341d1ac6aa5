\* Two handlers issue and check invoices of one account; late and shared payments, a
\* membership that runs on, one that lapses, and one on another network.
SPECIFICATION Spec
CONSTANTS
    Invoices = {i1, i2}
    Codes = {alice}
    Signatures = {s1, s2}
    Clients = {h1, h2}
    Networks = {devnet, mainnet}
    Plans = {1}
    None = None
    Lifetime = 1
    Throttle = 1
    DailyLimit = 5
    MaxTime = 3
SYMMETRY Symmetry
INVARIANTS
    TypeOK
    CreditedOnce
    LastsAsPaid
    OneOpenInvoice
PROPERTIES
    GrantSettlesInvoice
\* At the last moment, with every identifier used, nothing is left to do.
CHECK_DEADLOCK FALSE
