SPECIFICATION FairSpec
CONSTANTS
    Process = {p1}
    Killer = {k1, k2}
    Waiter = {w1}
    Managed = FALSE
    StoreFaults = FALSE
    Drops = TRUE
    Crashes = TRUE
CHECK_DEADLOCK FALSE
PROPERTIES
    RunningEnds
    WaiterReturns
    TerminalIsFinal
    KillIsEffective
