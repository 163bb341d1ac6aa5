\* One coin, one player, one call.
SPECIFICATION Spec
CONSTANTS
    Mints = {m1}
    Creators = {c1}
    Players = {ann}
    Clients = {h1}
    None = None
    Allowance = 4
    Stake = 1
    Delays = {299, 300}
    MaxDay = 0
    MaxPending = 1
SYMMETRY Symmetry
PROPERTIES
    StakeLeavesOnce
