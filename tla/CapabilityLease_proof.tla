------------------------ MODULE CapabilityLease_proof ------------------------
(***************************************************************************)
(* Facts about a single lease, used by the proofs about the lease store    *)
(* and about the capability host.                                          *)
(***************************************************************************)
EXTENDS CapabilityLease, TLAPS

\* What consume returns is again a lease: in particular the unchecked
\* decrement of max_invocations stays at or above zero, because a consumable
\* lease is not exhausted.
LEMMA ConsumeKeepsLease ==
    ASSUME NEW l \in Lease, Consumable(l)
    PROVE  AfterConsume(l) \in Lease
  <1> USE DEF Lease, LeaseStatus
  <1>1. CASE l.fingerprint # NoFingerprint
    <2>1. (IF l.remaining = Unbounded THEN l.remaining ELSE 0) \in Nat \cup {Unbounded}
      OBVIOUS
    <2>2. QED
      BY <1>1, <2>1 DEF AfterConsume
  <1>2. CASE l.fingerprint = NoFingerprint /\ l.remaining = Unbounded
    BY <1>2 DEF AfterConsume
  <1>3. CASE l.fingerprint = NoFingerprint /\ l.remaining # Unbounded
    <2>1. l.remaining \in Nat /\ l.remaining # 0
      BY <1>3 DEF Consumable, Live
    <2>2. l.remaining - 1 \in Nat
      BY <2>1
    <2>3. QED
      BY <1>3, <2>2 DEF AfterConsume
  <1>4. QED
    BY <1>1, <1>2, <1>3

\* A lease drawn up by an approval or a grant is a lease.
LEMMA NewLeaseType ==
    ASSUME NEW inv \in Invocation, NEW fp \in Fingerprint \cup {NoFingerprint},
           NEW n \in MaxInvocations
    PROVE  NewLease(inv, fp, n) \in Lease
  BY MaxInvocationsAssumption DEF NewLease, Lease, LeaseStatus

\* An approved replay uses its lease up, and consume changes neither the
\* request nor the invocation a lease is for.
LEMMA ConsumeKeepsRequest ==
    ASSUME NEW l \in Lease
    PROVE  /\ AfterConsume(l).fingerprint = l.fingerprint
           /\ AfterConsume(l).inv = l.inv
           /\ AfterConsume(l).status \in {"Active", "Consumed"}
           /\ l.fingerprint # NoFingerprint => AfterConsume(l).status = "Consumed"
  <1>1. CASE l.fingerprint # NoFingerprint
    BY <1>1 DEF AfterConsume, Lease
  <1>2. CASE l.fingerprint = NoFingerprint /\ l.remaining = Unbounded
    BY <1>2 DEF AfterConsume, Lease
  <1>3. CASE l.fingerprint = NoFingerprint /\ l.remaining # Unbounded
    BY <1>3 DEF AfterConsume, Lease
  <1>4. QED
    BY <1>1, <1>2, <1>3
=============================================================================
