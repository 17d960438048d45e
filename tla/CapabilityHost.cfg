SPECIFICATION Spec
CONSTANTS
    i1 = i1
    fDispatch = fDispatch
    fSpawn = fSpawn
    Invocation = {i1}
    Fingerprint = {fDispatch, fSpawn}
    NoFingerprint = nofp
    NoLeaseId = nolease
    InvocationOf <- MCInvocationOf
    KindOf <- MCKindOf
    MaxInvocations <- MCMaxInvocations
    LeaseId = {k1, k2}
    Caller = {c1, c2}
    Approver = {a1, a2}
    Rejects = TRUE
    StoreFaults = TRUE
    Crashes = TRUE
SYMMETRY ActorSymmetry
CHECK_DEADLOCK FALSE
INVARIANTS
    TypeOK
    OneEffectPerLease
    ReplayWasApproved
    DeniedNeverRuns
    CompletedDidRun
    BlockedRunHasRequest
PROPERTY
    ImplementsReplay
