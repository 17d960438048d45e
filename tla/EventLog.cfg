SPECIFICATION LiveSpec
CONSTANTS
    stream = s1
    all = all
    some = some
    a = a
    b = b
    Stream = {s1}
    Record = {a, b}
    Reader = {all, some}
    StreamOf <- MCStreamOf
    Filter <- MCFilter
    MaxLimit = 2
    MaxEvents = 4
CHECK_DEADLOCK FALSE
INVARIANTS
    TypeOK
    JsonlAgrees
PROPERTIES
    ImplementsDelivery
    CatchesUp
