SPECIFICATION LiveSpec
CONSTANTS
    Request = {r1, r2}
    NoRequest = norequest
    thread = t1
    Thread <- MCThread
    ThreadOf <- MCThreadOf
    Auth = {r2}
    Resolver = {u1}
    PersistFaults = TRUE
    Crashes = TRUE
CHECK_DEADLOCK FALSE
INVARIANTS
    TypeOK
    ApprovalActsOnce
    DenialIsFinal
    ParkedIsAccountedFor
PROPERTY
    PauseEnds
