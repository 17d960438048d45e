--------------------------- MODULE CapabilityLease ---------------------------
(***************************************************************************)
(* One capability lease of crates/ironclaw_authorization and the checks    *)
(* every lease store applies to it.  A lease is a record                   *)
(*   status       Active, Claimed, Consumed or Revoked ("Absent": no such  *)
(*                lease in the store)                                      *)
(*   inv          the invocation of its scope                              *)
(*   fingerprint  the exact request it may replay, or NoFingerprint        *)
(*   remaining    max_invocations, or Unbounded for None                   *)
(*   expired      expires_at lies in the past                              *)
(***************************************************************************)
EXTENDS Integers

CONSTANTS Invocation, Fingerprint, NoFingerprint, MaxInvocations

Unbounded == -1

ASSUME InvocationAssumption == Invocation # {}
ASSUME NoFingerprintAssumption == NoFingerprint \notin Fingerprint
ASSUME MaxInvocationsAssumption == MaxInvocations \subseteq Nat \cup {Unbounded}

LeaseStatus == {"Absent", "Active", "Claimed", "Consumed", "Revoked"}

Lease == [status : LeaseStatus,
          inv : Invocation,
          fingerprint : Fingerprint \cup {NoFingerprint},
          remaining : Nat \cup {Unbounded},
          expired : BOOLEAN]

\* CapabilityLease::new, with the fingerprint an approval stamps on it.
NewLease(inv, fp, n) ==
    [status |-> "Active", inv |-> inv, fingerprint |-> fp,
     remaining |-> n, expired |-> FALSE]

\* ensure_not_expired_or_exhausted.
Live(l) == ~ l.expired /\ l.remaining # 0

\* lease_is_authorizing.
Authorizing(l, inv) == l.status = "Active" /\ l.inv = inv /\ Live(l)

\* Mutant: a claimed lease may be claimed again.
ClaimableTwice(l, fp) ==
    l.status \in {"Active", "Claimed"} /\ l.fingerprint = fp /\ Live(l)

\* ensure_claimable.
Claimable(l, fp) == l.status = "Active" /\ l.fingerprint = fp /\ Live(l)

\* Mutant: an exhausted lease may still be consumed.
ConsumableExhausted(l) ==
    /\ l.status \in {"Active", "Claimed"}
    /\ l.fingerprint # NoFingerprint => l.status = "Claimed"
    /\ ~ l.expired

\* ensure_consumable.
Consumable(l) ==
    /\ l.status \in {"Active", "Claimed"}
    /\ l.fingerprint # NoFingerprint => l.status = "Claimed"
    /\ Live(l)

\* Mutant: None is counted down like a number.
AfterConsumeUnchecked(l) == [l EXCEPT !.status = "Consumed", !.remaining = @ - 1]

\* What consume leaves behind: a fingerprinted lease is used up by one replay,
\* a counted one loses one invocation, and one that survives is Active again.
AfterConsume(l) ==
    IF l.fingerprint # NoFingerprint
    THEN [l EXCEPT !.status = "Consumed",
                   !.remaining = IF @ = Unbounded THEN @ ELSE 0]
    ELSE IF l.remaining = Unbounded
         THEN [l EXCEPT !.status = "Active"]
         ELSE [l EXCEPT !.remaining = @ - 1,
                        !.status = IF l.remaining = 1 THEN "Consumed" ELSE "Active"]
=============================================================================
