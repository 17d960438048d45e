SPECIFICATION Spec
CONSTANTS
    i1 = i1
    fDispatch = fDispatch
    fSpawn = fSpawn
    Invocation = {i1}
    Fingerprint = {fDispatch}
    NoFingerprint = nofp
    NoLeaseId = nolease
    InvocationOf <- MCInvocationOf
    KindOf <- MCKindOf
    MaxInvocations <- OneMaxInvocations
    LeaseId = {k1}
    Caller = {c1, c2}
    Approver = {a1}
    Rejects = FALSE
    StoreFaults = FALSE
    Crashes = FALSE

CHECK_DEADLOCK FALSE
PROPERTY
    CompletedIsFinal
