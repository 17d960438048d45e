SPECIFICATION Spec
CONSTANTS
    Process = {p1}
    Killer = {k1, k2}
    Waiter = {w1}
    Managed = TRUE
    StoreFaults = TRUE
    Drops = TRUE
    Crashes = FALSE
SYMMETRY KillerSymmetry
CHECK_DEADLOCK FALSE
INVARIANTS
    TypeOK
    ClosedAtMostOnce
    HoldFollowsStatus
    GivesUpOnlyOnKilled
