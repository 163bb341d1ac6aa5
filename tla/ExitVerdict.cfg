\* A seller, two wallets it may pay, and a pool; one or two units a transaction, up to
\* two transactions a second.
SPECIFICATION Spec
CONSTANTS
    Root = r
    Market = pool
    Wallets = {r, a, b}
    Holdings <- MCHoldings
    Amounts = {1, 2}
    TraceDepths = {1, 2}
    MaxMoves = 3
    MaxPerSecond = 2
SYMMETRY MCSymmetry
INVARIANTS
    StartExact
    Conservation
    OutIsTrue
    FailuresWeaken
    ReportsAgree
    LinkedOnce
\* The transactions of the window are bounded.
CHECK_DEADLOCK FALSE
