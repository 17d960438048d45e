SPECIFICATION FairSpec
CONSTANTS
    i1 = i1
    fDispatch = fDispatch
    fSpawn = fSpawn
    Invocation = {i1}
    Fingerprint = {fDispatch, fSpawn}
    NoFingerprint = nofp
    NoLeaseId = nolease
    InvocationOf <- MCInvocationOf
    KindOf <- MCKindOf
    MaxInvocations <- MCMaxInvocations
    LeaseId = {k1, k2}
    Caller = {c1, c2}
    Approver = {a1, a2}
    Rejects = TRUE
    StoreFaults = FALSE
    Crashes = FALSE

CHECK_DEADLOCK FALSE
INVARIANT
    ActiveLeaseIsBacked
PROPERTIES
    RunningSettles
    ClaimSettles
