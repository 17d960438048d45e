-------------------------- MODULE MCCapabilityHost --------------------------
(* Instances of CapabilityHost for TLC: one invocation asked for as a dispatch *)
(* or as a spawn, so that each request is a mismatch for the other.            *)
EXTENDS CapabilityHost, TLC

CONSTANTS i1, fDispatch, fSpawn

MCInvocationOf == [f \in Fingerprint |-> i1]
MCKindOf == [f \in Fingerprint |-> IF f = fDispatch THEN "Dispatch" ELSE "Spawn"]
MCMaxInvocations == {Unbounded, 0}
OneMaxInvocations == {1}

ActorSymmetry ==
    Permutations(LeaseId) \cup Permutations(Caller) \cup Permutations(Approver)
=============================================================================
