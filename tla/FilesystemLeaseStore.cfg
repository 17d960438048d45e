SPECIFICATION FsSpec
CONSTANTS
    LeaseId = {k1, k2}
    Invocation = {i1}
    Fingerprint = {f1, f2}
    NoFingerprint = nofp
    MaxInvocations <- MCMaxInvocations
SYMMETRY LeaseSymmetry
INVARIANTS
    TypeOK
    SpentWithinBudget
    ListingIsComplete
PROPERTIES
    SpentOrRevokedIsFinal
