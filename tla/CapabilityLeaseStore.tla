------------------------ MODULE CapabilityLeaseStore ------------------------
(***************************************************************************)
(* The capability lease store of crates/ironclaw_authorization as its      *)
(* callers see it.  The in-memory store holds one mutex per call and the   *)
(* filesystem store one lock per owner, so each operation is one action.   *)
(* A call the code rejects changes nothing and is a stuttering step.       *)
(***************************************************************************)
EXTENDS CapabilityLease

CONSTANT LeaseId   \* grant ids; each is drawn fresh (a UUID) by its issuer

VARIABLES
    leases,   \* [LeaseId -> Lease]
    budget,   \* history: max_invocations the lease was issued with
    spent     \* history: how often it was consumed, when that is bounded

vars == <<leases, budget, spent>>

NoLease == [status |-> "Absent", inv |-> CHOOSE i \in Invocation : TRUE,
            fingerprint |-> NoFingerprint, remaining |-> 0, expired |-> FALSE]

Init ==
    /\ leases = [k \in LeaseId |-> NoLease]
    /\ budget = [k \in LeaseId |-> 0]
    /\ spent = [k \in LeaseId |-> 0]

\* issue: an approved replay carries a fingerprint, a policy grant does not.
Issue(k, inv, fp, n) ==
    /\ leases[k].status = "Absent"
    /\ leases' = [leases EXCEPT ![k] = NewLease(inv, fp, n)]
    /\ budget' = [budget EXCEPT ![k] = n]
    /\ UNCHANGED spent

\* revoke: from any status.
Revoke(k) ==
    /\ leases[k].status # "Absent"
    /\ leases' = [leases EXCEPT ![k].status = "Revoked"]
    /\ UNCHANGED <<budget, spent>>

\* claim: the holder of the exact request takes the lease for one replay.
Claim(k, fp) ==
    /\ Claimable(leases[k], fp)
    /\ leases' = [leases EXCEPT ![k].status = "Claimed"]
    /\ UNCHANGED <<budget, spent>>

\* A lease whose uses the store bounds: one replay, or a counted grant.
Counted(k) == leases[k].fingerprint # NoFingerprint \/ budget[k] # Unbounded

\* Mutant: a lease that was revoked in the meantime is consumed all the same.
ConsumeRevoked(k) ==
    /\ leases[k].status # "Absent" /\ Live(leases[k])
    /\ leases' = [leases EXCEPT ![k] = AfterConsume(leases[k])]
    /\ spent' = [spent EXCEPT ![k] = IF Counted(k) THEN @ + 1 ELSE @]
    /\ UNCHANGED budget

\* consume.
Consume(k) ==
    /\ Consumable(leases[k])
    /\ leases' = [leases EXCEPT ![k] = AfterConsume(leases[k])]
    /\ spent' = [spent EXCEPT ![k] = IF Counted(k) THEN @ + 1 ELSE @]
    /\ UNCHANGED budget

\* The clock passes expires_at (only a lease that has one ever expires).
Expire(k) ==
    /\ leases[k].status # "Absent"
    /\ leases' = [leases EXCEPT ![k].expired = TRUE]
    /\ UNCHANGED <<budget, spent>>

Next ==
    \E k \in LeaseId :
        \/ \E inv \in Invocation, fp \in Fingerprint \cup {NoFingerprint},
              n \in MaxInvocations : Issue(k, inv, fp, n)
        \/ Revoke(k)
        \/ \E fp \in Fingerprint : Claim(k, fp)
        \/ Consume(k)
        \/ Expire(k)

Spec == Init /\ [][Next]_vars

-----------------------------------------------------------------------------

\* The shape of the state; max_invocations is a u64 that the code decrements
\* without a check of its own, so it must never go below zero.
TypeOK ==
    /\ leases \in [LeaseId -> Lease]
    /\ budget \in [LeaseId -> Nat \cup {Unbounded}]
    /\ spent \in [LeaseId -> Nat]

\* A lease pays for no more than it was issued for, whatever the order of
\* claims, consumes and revocations: an approved replay runs at most once even
\* if the approver set no max_invocations, and a counted grant runs at most
\* max_invocations times.
SpentWithinBudget ==
    \A k \in LeaseId :
        /\ leases[k].fingerprint # NoFingerprint => spent[k] <= 1
        /\ budget[k] # Unbounded => spent[k] <= budget[k]

\* A lease that was used up or withdrawn never becomes usable again.
SpentOrRevokedIsFinal ==
    [][\A k \in LeaseId :
          leases[k].status \in {"Consumed", "Revoked"} =>
              leases'[k].status \in {"Consumed", "Revoked"}]_vars

\* The inductive strengthening of SpentWithinBudget: what a counted grant has
\* left and what it has spent add up to its budget, and a replay lease that
\* was spent has left the statuses a claim or a consume accepts.
Accounted(k) ==
    /\ leases[k].status = "Absent" => spent[k] = 0
    /\ leases[k].fingerprint = NoFingerprint /\ budget[k] # Unbounded
         /\ leases[k].status # "Absent" =>
           leases[k].remaining \in Nat /\ leases[k].remaining + spent[k] = budget[k]
    /\ leases[k].fingerprint = NoFingerprint /\ budget[k] = Unbounded =>
           leases[k].remaining = Unbounded
    /\ leases[k].fingerprint # NoFingerprint =>
         /\ spent[k] = 0 \/ leases[k].status \in {"Consumed", "Revoked"}
         /\ spent[k] <= 1
         /\ budget[k] = 0 => spent[k] = 0 /\ leases[k].remaining = 0

\* The inductive invariant: every lease is accounted for.
BudgetAccounting == \A k \in LeaseId : Accounted(k)
=============================================================================
