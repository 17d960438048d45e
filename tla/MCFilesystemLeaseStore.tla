----------------------- MODULE MCFilesystemLeaseStore -----------------------
(* Instances of FilesystemLeaseStore for TLC. *)
EXTENDS FilesystemLeaseStore, TLC

LeaseSymmetry == Permutations(LeaseId) \cup Permutations(Fingerprint)

\* No cap, an exhausted grant, a one-shot grant and one with room to spare.
MCMaxInvocations == {Unbounded, 0, 1, 2}
=============================================================================
