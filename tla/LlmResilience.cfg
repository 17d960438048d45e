SPECIFICATION LiveSpec
CONSTANTS
    Call = {c1, c2}
    Providers = 2
    FailureThreshold = 2
    SuccessesNeeded = 2
    CooldownThreshold = 2
    MaxRetries = 1
INVARIANT
    BreakerOK
PROPERTIES
    OpenPeriodIsFixed
    CircuitRecovers
    PrimaryReturns
