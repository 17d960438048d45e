SPECIFICATION LiveSpec
CONSTANTS
    Request = {r1}
    NoRequest = norequest
    thread = t1
    Thread <- MCThread
    ThreadOf <- MCThreadOf
    Auth = {}
    Resolver = {u1}
    PersistFaults = FALSE
    Crashes = FALSE
CHECK_DEADLOCK FALSE
PROPERTY
    ExpiryFailsClosed
