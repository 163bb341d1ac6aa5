\* Two updates by either transport; an account that is unlinked and linked again.
SPECIFICATION Spec
CONSTANTS
    Updates = {1, 2}
    Worlds <- MCWorlds
    InboxLimit = 1
    PerMinute = 1
    MaxChanges = 2
INVARIANTS
    EachUpdateOnce
    UnlinkStops
    DoneIsTracked
PROPERTIES
    NothingLingers
CHECK_DEADLOCK FALSE
