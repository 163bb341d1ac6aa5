\* Two coins, of one founder or of two; two calls of one player at once.
SPECIFICATION Spec
CONSTANTS
    Mints = {m1, m2}
    Creators = {c1, c2}
    Players = {ann}
    Clients = {h1, h2}
    None = None
    Allowance = 1
    Stake = 1
    Delays = {299, 300}
    MaxDay = 1
    MaxPending = 3
SYMMETRY Symmetry
INVARIANTS
    TypeOK
    SettledRoundHasNoOpenCall
    OverdraftBounded
PROPERTIES
    OnlyRestartStrands
