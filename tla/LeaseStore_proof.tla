-------------------------- MODULE LeaseStore_proof --------------------------
(***************************************************************************)
(* Proofs about the lease stores, for any number of leases, requests and   *)
(* invocation limits: the books of CapabilityLeaseStore balance, also when *)
(* its leases are files, and the filesystem store lists completely.        *)
(***************************************************************************)
EXTENDS FilesystemLeaseStore, CapabilityLease_proof

(* The lease store, on its own specification. *)

\* The type invariant of the lease store is preserved by every operation.
LEMMA TypeStep == TypeOK /\ [Next]_vars => TypeOK'
  <1> SUFFICES ASSUME TypeOK, [Next]_vars PROVE TypeOK'
    OBVIOUS
  <1> USE DEF TypeOK
  <1>1. ASSUME NEW k \in LeaseId, NEW inv \in Invocation,
               NEW fp \in Fingerprint \cup {NoFingerprint},
               NEW n \in MaxInvocations, Issue(k, inv, fp, n)
        PROVE  TypeOK'
    <2>1. NewLease(inv, fp, n) \in Lease /\ n \in Nat \cup {Unbounded}
      BY MaxInvocationsAssumption DEF NewLease, Lease, LeaseStatus
    <2>2. QED
      BY <1>1, <2>1 DEF Issue
  <1>2. ASSUME NEW k \in LeaseId, Revoke(k) PROVE TypeOK'
    BY <1>2 DEF Revoke, Lease, LeaseStatus
  <1>3. ASSUME NEW k \in LeaseId, NEW fp \in Fingerprint, Claim(k, fp) PROVE TypeOK'
    BY <1>3 DEF Claim, Lease, LeaseStatus
  <1>4. ASSUME NEW k \in LeaseId, Consume(k) PROVE TypeOK'
    <2>1. AfterConsume(leases[k]) \in Lease
      BY <1>4, ConsumeKeepsLease DEF Consume
    <2>2. QED
      BY <1>4, <2>1 DEF Consume
  <1>5. ASSUME NEW k \in LeaseId, Expire(k) PROVE TypeOK'
    BY <1>5 DEF Expire, Lease, LeaseStatus
  <1>6. CASE UNCHANGED vars
    BY <1>6 DEF vars
  <1>7. QED
    BY <1>1, <1>2, <1>3, <1>4, <1>5, <1>6 DEF Next

\* The state of the lease store keeps its shape, and max_invocations never
\* wraps below zero, for any set of leases and limits.
THEOREM TypeCorrect == Spec => []TypeOK
  <1>1. Init => TypeOK
    <2> SUFFICES ASSUME Init PROVE TypeOK
      OBVIOUS
    <2>1. (CHOOSE i \in Invocation : TRUE) \in Invocation
      BY InvocationAssumption
    <2>2. NoLease \in Lease
      BY <2>1 DEF NoLease, Lease, LeaseStatus
    <2>3. QED
      BY <2>2 DEF Init, TypeOK
  <1>2. QED
    BY <1>1, TypeStep, PTL DEF Spec

\* Every operation keeps the account of what a lease has spent and has left.
LEMMA BudgetStep ==
    TypeOK /\ BudgetAccounting /\ [Next]_vars => BudgetAccounting'
  <1> SUFFICES ASSUME TypeOK, BudgetAccounting, [Next]_vars, NEW j \in LeaseId
               PROVE  Accounted(j)'
    BY DEF BudgetAccounting
  <1>0. /\ Accounted(j)
        /\ leases[j] \in Lease /\ spent[j] \in Nat
        /\ budget[j] \in Nat \cup {Unbounded}
    BY DEF BudgetAccounting, TypeOK
  <1>t. /\ leases \in [LeaseId -> Lease]
        /\ budget \in [LeaseId -> Nat \cup {Unbounded}]
        /\ spent \in [LeaseId -> Nat]
    BY DEF TypeOK
  <1>u. UNCHANGED <<leases[j], budget[j], spent[j]>> => Accounted(j)'
    BY <1>0 DEF Accounted
  <1>1. ASSUME NEW k \in LeaseId, NEW inv \in Invocation,
               NEW fp \in Fingerprint \cup {NoFingerprint},
               NEW n \in MaxInvocations, Issue(k, inv, fp, n)
        PROVE  Accounted(j)'
    <2>1. CASE k = j
      <3>1. /\ leases'[j] = NewLease(inv, fp, n) /\ budget'[j] = n
            /\ spent'[j] = 0
        BY <1>1, <1>0, <1>t, <2>1 DEF Issue, Accounted
      <3>2. n \in Nat \cup {Unbounded}
        BY MaxInvocationsAssumption
      <3>3. QED
        BY <3>1, <3>2 DEF Accounted, NewLease, Unbounded
    <2>2. CASE k # j
      BY <1>1, <1>t, <1>u, <2>2 DEF Issue
    <2>3. QED
      BY <2>1, <2>2
  <1>2. ASSUME NEW k \in LeaseId, Revoke(k) PROVE Accounted(j)'
    <2>1. CASE k = j
      BY <1>0, <1>t, <1>2, <2>1 DEF Revoke, Accounted, Lease
    <2>2. CASE k # j
      BY <1>2, <1>t, <1>u, <2>2 DEF Revoke
    <2>3. QED
      BY <2>1, <2>2
  <1>3. ASSUME NEW k \in LeaseId, NEW fp \in Fingerprint, Claim(k, fp)
        PROVE  Accounted(j)'
    <2>1. CASE k = j
      BY <1>0, <1>t, <1>3, <2>1 DEF Claim, Claimable, Accounted, Lease
    <2>2. CASE k # j
      BY <1>3, <1>t, <1>u, <2>2 DEF Claim
    <2>3. QED
      BY <2>1, <2>2
  <1>4. ASSUME NEW k \in LeaseId, Consume(k) PROVE Accounted(j)'
    <2>1. CASE k = j
      <3>1. /\ leases'[j] = AfterConsume(leases[j])
            /\ budget'[j] = budget[j]
            /\ spent'[j] = IF Counted(j) THEN spent[j] + 1 ELSE spent[j]
            /\ Consumable(leases[j])
        BY <1>4, <1>t, <2>1 DEF Consume
      <3>2. CASE leases[j].fingerprint # NoFingerprint
        BY <3>1, <3>2, <1>0 DEF AfterConsume, Accounted, Counted, Consumable, Live, Lease
      <3>3. CASE leases[j].fingerprint = NoFingerprint /\ budget[j] = Unbounded
        BY <3>1, <3>3, <1>0 DEF AfterConsume, Accounted, Counted, Consumable, Live, Lease
      <3>4. CASE leases[j].fingerprint = NoFingerprint /\ budget[j] # Unbounded
        <4>1. /\ leases[j].remaining \in Nat \ {0}
              /\ leases[j].remaining + spent[j] = budget[j]
          BY <3>1, <3>4, <1>0 DEF Accounted, Consumable, Live
        <4>2. /\ leases'[j].remaining = leases[j].remaining - 1
              /\ leases'[j].fingerprint = NoFingerprint
              /\ leases'[j].status # "Absent"
              /\ spent'[j] = spent[j] + 1
          BY <3>1, <3>4, <1>0, <4>1 DEF AfterConsume, Counted, Unbounded, Lease
        <4>3. QED
          BY <3>1, <3>4, <4>1, <4>2, <1>0 DEF Accounted
      <3>5. QED
        BY <3>2, <3>3, <3>4
    <2>2. CASE k # j
      BY <1>4, <1>t, <1>u, <2>2 DEF Consume
    <2>3. QED
      BY <2>1, <2>2
  <1>5. ASSUME NEW k \in LeaseId, Expire(k) PROVE Accounted(j)'
    <2>1. CASE k = j
      BY <1>0, <1>t, <1>5, <2>1 DEF Expire, Accounted, Lease
    <2>2. CASE k # j
      BY <1>5, <1>t, <1>u, <2>2 DEF Expire
    <2>3. QED
      BY <2>1, <2>2
  <1>6. CASE UNCHANGED vars
    BY <1>6, <1>u DEF vars
  <1>7. QED
    BY <1>1, <1>2, <1>3, <1>4, <1>5, <1>6 DEF Next

\* What a counted lease has left and what consume has taken add up to its
\* budget at every moment, and a replay lease that was spent is out of use.
THEOREM BooksBalance == Spec => []BudgetAccounting
  <1>1. Init => BudgetAccounting
    BY DEF Init, BudgetAccounting, Accounted, NoLease, Unbounded
  <1>2. QED
    BY <1>1, TypeCorrect, BudgetStep, PTL DEF Spec

\* For every number of leases and every limit: whatever the order of claims,
\* consumes, revocations and expiries, a lease pays for no more than it was
\* issued for.
THEOREM NeverOverspent == Spec => []SpentWithinBudget
  <1>1. TypeOK /\ BudgetAccounting => SpentWithinBudget
    <2> SUFFICES ASSUME TypeOK, BudgetAccounting, NEW k \in LeaseId
                 PROVE  /\ leases[k].fingerprint # NoFingerprint => spent[k] <= 1
                        /\ budget[k] # Unbounded => spent[k] <= budget[k]
      BY DEF SpentWithinBudget
    <2>1. /\ Accounted(k) /\ leases[k] \in Lease /\ spent[k] \in Nat
          /\ budget[k] \in Nat \cup {Unbounded}
      BY DEF BudgetAccounting, TypeOK
    <2>2. QED
      BY <2>1 DEF Accounted, Unbounded
  <1>2. QED
    BY <1>1, TypeCorrect, BooksBalance, PTL

\* A consumed or revoked lease is never claimable, consumable or active again.
THEOREM SpentStaysSpent == Spec => SpentOrRevokedIsFinal
  <1>1. TypeOK /\ [Next]_vars =>
          [\A k \in LeaseId : leases[k].status \in {"Consumed", "Revoked"} =>
              leases'[k].status \in {"Consumed", "Revoked"}]_vars
    <2> SUFFICES ASSUME TypeOK, Next, NEW j \in LeaseId,
                        leases[j].status \in {"Consumed", "Revoked"}
                 PROVE  leases'[j].status \in {"Consumed", "Revoked"}
      OBVIOUS
    <2>1. leases \in [LeaseId -> Lease] /\ leases[j] \in Lease
      BY DEF TypeOK
    <2>2. PICK k \in LeaseId :
            \/ \E inv \in Invocation, fp \in Fingerprint \cup {NoFingerprint},
                  n \in MaxInvocations : Issue(k, inv, fp, n)
            \/ Revoke(k)
            \/ \E fp \in Fingerprint : Claim(k, fp)
            \/ Consume(k)
            \/ Expire(k)
      BY DEF Next
    <2>3. CASE k = j
      BY <2>1, <2>2, <2>3 DEF Issue, Revoke, Claim, Claimable, Consume, Consumable,
                              Expire, Lease
    <2>4. CASE k # j
      BY <2>1, <2>2, <2>4 DEF Issue, Revoke, Claim, Consume, Expire
    <2>5. QED
      BY <2>3, <2>4
  <1>2. QED
    BY <1>1, TypeCorrect, PTL DEF Spec, SpentOrRevokedIsFinal

-----------------------------------------------------------------------------
(* The filesystem store. *)

\* The files and the calls in progress keep their shape.
LEMMA FsTypeStep == TypeOK /\ FsTypeOK /\ [FsNext]_allVars => FsTypeOK'
  <1> SUFFICES ASSUME TypeOK, FsTypeOK, [FsNext]_allVars PROVE FsTypeOK'
    OBVIOUS
  <1>0. NoLease \in Lease
    <2>1. (CHOOSE i \in Invocation : TRUE) \in Invocation
      BY InvocationAssumption
    <2>2. QED
      BY <2>1 DEF NoLease, Lease, LeaseStatus
  <1>a. UNCHANGED fsVars => FsTypeOK'
    BY DEF FsTypeOK, fsVars
  <1>1. ASSUME NEW k \in LeaseId, NEW inv \in Invocation,
               NEW fp \in Fingerprint \cup {NoFingerprint},
               NEW n \in MaxInvocations, IssueIndex(k, inv, fp, n)
        PROVE  FsTypeOK'
    <2>1. NewLease(inv, fp, n) \in Lease
      BY MaxInvocationsAssumption DEF NewLease, Lease, LeaseStatus
    <2>2. QED
      BY <1>1, <2>1 DEF IssueIndex, IndexLeasePath, FsTypeOK
  <1>2. ASSUME NEW k \in LeaseId, NEW inv \in Invocation,
               NEW fp \in Fingerprint \cup {NoFingerprint},
               NEW n \in MaxInvocations, IssueUnindexed(k, inv, fp, n)
        PROVE  FsTypeOK'
    BY <1>2 DEF IssueUnindexed, FsTypeOK
  <1>3. ASSUME NEW k \in LeaseId, IssueWrite(k) \/ IssueFails(k) PROVE FsTypeOK'
    BY <1>0, <1>3 DEF IssueWrite, IssueFails, FsTypeOK
  <1>4. ASSUME NEW k \in LeaseId,
               \/ Locked(Revoke(k)) \/ Locked(Consume(k)) \/ FsExpire(k)
               \/ \E fp \in Fingerprint : Locked(Claim(k, fp))
        PROVE  FsTypeOK'
    BY <1>4, <1>a DEF Locked, FsExpire
  <1>5. ASSUME NEW k \in LeaseId, ListRead(k) PROVE FsTypeOK'
    BY <1>5 DEF ListRead, FsTypeOK, Listing
  <1>6. ASSUME NEW inv \in Invocation, ListStart(inv) PROVE FsTypeOK'
    BY <1>6 DEF ListStart, FsTypeOK, Listing, ListedPaths, Present, Authority
  <1>7. ASSUME NEW paths \in SUBSET LeaseId, ListFault(paths) PROVE FsTypeOK'
    BY <1>7 DEF ListFault, FsTypeOK, Listing
  <1>8. CASE ListDone
    BY <1>8 DEF ListDone, FsTypeOK, Listing
  <1>9. CASE UNCHANGED allVars
    BY <1>9, <1>a DEF allVars
  <1>10. QED
    BY <1>1, <1>2, <1>3, <1>4, <1>5, <1>6, <1>7, <1>8, <1>9 DEF FsNext

\* To the leases every step of the filesystem store is an operation of the lease
\* store or nothing: claim, consume and revoke are its operations by definition,
\* and a file is written under an id that had none.
LEMMA StepRefines ==
    TypeOK /\ FsTypeOK /\ FsInv /\ [FsNext]_allVars => [Next]_vars
  <1> SUFFICES ASSUME TypeOK, FsTypeOK, FsInv, [FsNext]_allVars PROVE [Next]_vars
    OBVIOUS
  <1>1. ASSUME NEW k \in LeaseId, NEW inv \in Invocation,
               NEW fp \in Fingerprint \cup {NoFingerprint},
               NEW n \in MaxInvocations, IssueIndex(k, inv, fp, n)
        PROVE  UNCHANGED vars
    BY <1>1 DEF IssueIndex
  <1>2. ASSUME NEW k \in LeaseId, NEW inv \in Invocation,
               NEW fp \in Fingerprint \cup {NoFingerprint},
               NEW n \in MaxInvocations, IssueUnindexed(k, inv, fp, n)
        PROVE  Next
    BY <1>2 DEF IssueUnindexed, Next
  <1>3. ASSUME NEW k \in LeaseId, IssueWrite(k) PROVE Next
    <2>1. leases[k].status = "Absent"
      BY <1>3 DEF FsInv, PendingOK, IssueWrite
    <2>2. PICK inv \in Invocation, fp \in Fingerprint \cup {NoFingerprint},
               n \in MaxInvocations : pending[k] = NewLease(inv, fp, n)
      BY <1>3 DEF FsInv, PendingOK, IssueWrite
    <2>3. pending[k].remaining = n
      BY <2>2 DEF NewLease
    <2>4. Issue(k, inv, fp, n)
      BY <1>3, <2>1, <2>2, <2>3 DEF IssueWrite, Issue
    <2>5. QED
      BY <2>4 DEF Next
  <1>4. ASSUME NEW k \in LeaseId, IssueFails(k) PROVE UNCHANGED vars
    BY <1>4 DEF IssueFails
  <1>5. ASSUME NEW k \in LeaseId,
               \/ Locked(Revoke(k)) \/ Locked(Consume(k)) \/ FsExpire(k)
               \/ \E fp \in Fingerprint : Locked(Claim(k, fp))
        PROVE  Next
    BY <1>5 DEF Locked, FsExpire, Next
  <1>6. ASSUME \/ \E k \in LeaseId : ListRead(k)
               \/ \E inv \in Invocation : ListStart(inv)
               \/ \E paths \in SUBSET LeaseId : ListFault(paths)
               \/ ListDone
        PROVE  UNCHANGED vars
    BY <1>6 DEF ListRead, ListStart, ListFault, ListDone
  <1>7. CASE UNCHANGED allVars
    BY <1>7 DEF allVars
  <1>8. QED
    BY <1>1, <1>2, <1>3, <1>4, <1>5, <1>6, <1>7 DEF FsNext

\* A lease that exists keeps existing, and never authorizes again once it
\* does not.
LEMMA AuthorityIsLost ==
    ASSUME TypeOK, ClaimedIsReplay, [Next]_vars, NEW k \in LeaseId,
           NEW inv, leases[k].status # "Absent"
    PROVE  /\ leases'[k].status # "Absent"
           /\ Authorizing(leases'[k], inv) => Authorizing(leases[k], inv)
           /\ leases'[k].status = "Claimed" => leases'[k].fingerprint # NoFingerprint
  <1>t. leases \in [LeaseId -> Lease] /\ leases[k] \in Lease
    BY DEF TypeOK
  <1>1. CASE UNCHANGED vars
    BY <1>1 DEF vars, ClaimedIsReplay
  <1>2. CASE Next
    <2>1. PICK j \in LeaseId :
            \/ \E i \in Invocation, fp \in Fingerprint \cup {NoFingerprint},
                  n \in MaxInvocations : Issue(j, i, fp, n)
            \/ Revoke(j)
            \/ \E fp \in Fingerprint : Claim(j, fp)
            \/ Consume(j)
            \/ Expire(j)
      BY <1>2 DEF Next
    <2>2. CASE j # k
      BY <1>t, <2>1, <2>2 DEF Issue, Revoke, Claim, Consume, Expire, ClaimedIsReplay
    <2>3. CASE j = k /\ Revoke(k)
      BY <1>t, <2>3 DEF Revoke, Authorizing, Lease
    <2>4. CASE j = k /\ Expire(k)
      BY <1>t, <2>4 DEF Expire, Authorizing, Live, Lease, ClaimedIsReplay
    <2>5. CASE j = k /\ \E fp \in Fingerprint : Claim(k, fp)
      BY <1>t, <2>5, NoFingerprintAssumption DEF Claim, Claimable, Authorizing, Lease
    <2>6. CASE j = k /\ Consume(k)
      <3>1. leases'[k] = AfterConsume(leases[k]) /\ Consumable(leases[k])
        BY <1>t, <2>6 DEF Consume
      <3>2. CASE leases[k].fingerprint # NoFingerprint
        BY <1>t, <3>1, <3>2 DEF AfterConsume, Authorizing, Lease
      <3>3. CASE leases[k].fingerprint = NoFingerprint
        <4>1. leases[k].status = "Active" /\ Live(leases[k])
          BY <3>1, <3>3 DEF ClaimedIsReplay, Consumable
        <4>2. leases'[k].inv = leases[k].inv /\ leases'[k].status \in {"Active", "Consumed"}
          BY <1>t, <3>1, <3>3 DEF AfterConsume, Lease
        <4>3. QED
          BY <4>1, <4>2 DEF Authorizing
      <3>4. QED
        BY <3>2, <3>3
    <2>7. CASE j = k /\ \E i \in Invocation, fp \in Fingerprint \cup {NoFingerprint},
                              n \in MaxInvocations : Issue(k, i, fp, n)
      BY <2>7 DEF Issue
    <2>8. QED
      BY <2>1, <2>2, <2>3, <2>4, <2>5, <2>6, <2>7
  <1>3. QED
    BY <1>1, <1>2

\* A change of the leases alone, made with the lock held or by the clock,
\* keeps the invariant: files neither appear nor regain authority.
LEMMA LeaseChange ==
    ASSUME TypeOK, FsTypeOK, FsInv, [Next]_vars, UNCHANGED fsVars,
           \A k \in LeaseId : leases[k].status = "Absent" => leases'[k] = leases[k]
    PROVE  FsInv'
  <1>k. \A k \in LeaseId : \A inv : leases[k].status # "Absent" =>
            /\ leases'[k].status # "Absent"
            /\ Authorizing(leases'[k], inv) => Authorizing(leases[k], inv)
            /\ leases'[k].status = "Claimed" => leases'[k].fingerprint # NoFingerprint
    BY AuthorityIsLost DEF FsInv
  <1>1. ASSUME NEW k \in LeaseId PROVE PendingOK(k)'
    BY DEF FsInv, PendingOK, fsVars
  <1>2. IndexNamesLeases'
    BY DEF FsInv, IndexNamesLeases, Present, fsVars
  <1>3. ClaimedIsReplay'
    BY <1>k DEF FsInv, ClaimedIsReplay
  <1>4. ListingOnTrack'
    <2> SUFFICES ASSUME list.pc # "idle", ~ list.faulted, NEW k \in list.owed
                 PROVE  /\ leases'[k].status # "Absent"
                        /\ \/ k \in list.todo \cup list.found
                           \/ ~ Authorizing(leases'[k], list.inv)
      BY DEF ListingOnTrack, Authority, fsVars
    <2>1. k \in LeaseId
      BY DEF FsTypeOK, Listing
    <2>2. /\ leases[k].status # "Absent"
          /\ k \in list.todo \cup list.found \/ ~ Authorizing(leases[k], list.inv)
      BY <2>1 DEF FsInv, ListingOnTrack, Authority
    <2>3. QED
      BY <1>k, <2>1, <2>2
  <1>5. (list.pc = "done" => list.todo = {})'
    BY DEF FsInv, fsVars
  <1>6. QED
    BY <1>1, <1>2, <1>3, <1>4, <1>5 DEF FsInv

\* What an issue adds: the file of k appears, and every other lease is as it was.
LEMMA FileAppears ==
    ASSUME TypeOK, FsTypeOK, FsInv, NEW k \in LeaseId, leases[k].status = "Absent",
           NEW l \in Lease, l.status = "Active",
           leases' = [leases EXCEPT ![k] = l], UNCHANGED list
    PROVE  ClaimedIsReplay' /\ ListingOnTrack' /\ Present' = Present \cup {k}
  <1>1. \A j \in LeaseId : leases'[j] = IF j = k THEN l ELSE leases[j]
    BY DEF TypeOK
  <1>2. ClaimedIsReplay'
    BY <1>1 DEF FsInv, ClaimedIsReplay
  <1>3. Present' = Present \cup {k}
    BY <1>1 DEF Present
  <1>4. ListingOnTrack'
    <2> SUFFICES ASSUME list.pc # "idle", ~ list.faulted, NEW j \in list.owed
                 PROVE  /\ leases'[j].status # "Absent"
                        /\ \/ j \in list.todo \cup list.found
                           \/ ~ Authorizing(leases'[j], list.inv)
      BY DEF ListingOnTrack, Authority
    <2>1. j \in LeaseId
      BY DEF FsTypeOK, Listing
    <2>2. /\ leases[j].status # "Absent"
          /\ j \in list.todo \cup list.found \/ ~ Authorizing(leases[j], list.inv)
      BY <2>1 DEF FsInv, ListingOnTrack, Authority
    <2>3. QED
      BY <1>1, <2>1, <2>2
  <1>5. QED
    BY <1>2, <1>3, <1>4

\* Every step keeps the invariant of the index and the listing.
LEMMA FsInvStep == TypeOK /\ FsTypeOK /\ FsInv /\ [FsNext]_allVars => FsInv'
  <1> SUFFICES ASSUME TypeOK, FsTypeOK, FsInv, [FsNext]_allVars PROVE FsInv'
    OBVIOUS
  <1>s. [Next]_vars
    BY StepRefines
  <1>p. pending \in [LeaseId -> Lease]
    BY DEF FsTypeOK
  <1>1. ASSUME NEW k \in LeaseId, NEW inv \in Invocation,
               NEW fp \in Fingerprint \cup {NoFingerprint},
               NEW n \in MaxInvocations, IssueIndex(k, inv, fp, n)
        PROVE  FsInv'
    <2>1. ASSUME NEW j \in LeaseId PROVE PendingOK(j)'
      <3>1. CASE j = k
        BY <1>1, <1>p, <3>1 DEF IssueIndex, PendingOK, IndexLeasePath, Present, vars
      <3>2. CASE j # k
        BY <1>1, <1>p, <3>2 DEF IssueIndex, PendingOK, LockFree
      <3>3. QED
        BY <3>1, <3>2
    <2>2. IndexNamesLeases'
      <3>1. CASE index.written
        BY <1>1, <3>1 DEF FsInv, IndexNamesLeases, IssueIndex, IndexLeasePath, Present, vars
      <3>2. CASE ~ index.written
        BY <1>1, <3>2 DEF FsInv, IndexNamesLeases, IssueIndex, IndexLeasePath, Present, vars
      <3>3. QED
        BY <3>1, <3>2
    <2>3. ClaimedIsReplay' /\ ListingOnTrack' /\ (list.pc = "done" => list.todo = {})'
      BY <1>1 DEF FsInv, IssueIndex, ClaimedIsReplay, ListingOnTrack, Authority, vars
    <2>4. QED
      BY <2>1, <2>2, <2>3 DEF FsInv
  <1>2. ASSUME NEW k \in LeaseId, NEW inv \in Invocation,
               NEW fp \in Fingerprint \cup {NoFingerprint},
               NEW n \in MaxInvocations, IssueUnindexed(k, inv, fp, n)
        PROVE  FsInv'
    <2>1. /\ leases[k].status = "Absent" /\ NewLease(inv, fp, n).status = "Active"
          /\ NewLease(inv, fp, n) \in Lease
          /\ leases' = [leases EXCEPT ![k] = NewLease(inv, fp, n)] /\ UNCHANGED list
      BY <1>2, MaxInvocationsAssumption
         DEF IssueUnindexed, Issue, NewLease, Lease, LeaseStatus
    <2>2. ClaimedIsReplay' /\ ListingOnTrack'
      BY <2>1, FileAppears
    <2>3. ~ index'.written /\ \A j \in LeaseId : PendingOK(j)'
      BY <1>2 DEF IssueUnindexed, FsInv, PendingOK
    <2>4. QED
      BY <1>2, <2>1, <2>2, <2>3, FileAppears DEF IssueUnindexed, FsInv, IndexNamesLeases
  <1>3. ASSUME NEW k \in LeaseId, IssueWrite(k) PROVE FsInv'
    <2>1. /\ leases[k].status = "Absent" /\ pending[k].status = "Active"
          /\ pending[k] \in Lease /\ index.written /\ k \in index.paths
          /\ leases' = [leases EXCEPT ![k] = pending[k]] /\ UNCHANGED list
      BY <1>3, <1>p DEF IssueWrite, FsInv, PendingOK, NewLease
    <2>2. ClaimedIsReplay' /\ ListingOnTrack' /\ Present' = Present \cup {k}
      BY <2>1, FileAppears
    <2>3. IndexNamesLeases'
      BY <1>3, <2>1, <2>2 DEF IssueWrite, FsInv, IndexNamesLeases
    <2>4. ASSUME NEW j \in LeaseId PROVE PendingOK(j)'
      <3>1. CASE j = k
        BY <1>3, <1>p, <3>1 DEF IssueWrite, PendingOK, NoLease
      <3>2. CASE j # k
        BY <1>3, <1>p, <3>2 DEF IssueWrite, FsInv, PendingOK, TypeOK
      <3>3. QED
        BY <3>1, <3>2
    <2>5. QED
      BY <1>3, <2>2, <2>3, <2>4 DEF IssueWrite, FsInv
  <1>4. ASSUME NEW k \in LeaseId, IssueFails(k) PROVE FsInv'
    <2>1. ASSUME NEW j \in LeaseId PROVE PendingOK(j)'
      <3>1. CASE j = k
        BY <1>4, <1>p, <3>1 DEF IssueFails, PendingOK, NoLease
      <3>2. CASE j # k
        BY <1>4, <1>p, <3>2 DEF IssueFails, FsInv, PendingOK, vars
      <3>3. QED
        BY <3>1, <3>2
    <2>2. QED
      BY <1>4, <2>1 DEF IssueFails, FsInv, IndexNamesLeases, ClaimedIsReplay,
                        ListingOnTrack, Authority, Present, vars
  <1>5. ASSUME NEW k \in LeaseId,
               \/ Locked(Revoke(k)) \/ Locked(Consume(k)) \/ FsExpire(k)
               \/ \E fp \in Fingerprint : Locked(Claim(k, fp))
        PROVE  FsInv'
    <2>1. UNCHANGED fsVars
      BY <1>5 DEF Locked, FsExpire
    <2>2. \A j \in LeaseId : leases[j].status = "Absent" => leases'[j] = leases[j]
      BY <1>5 DEF Locked, FsExpire, Revoke, Consume, Consumable, Expire, Claim, Claimable,
                  TypeOK
    <2>3. QED
      BY <1>s, <2>1, <2>2, LeaseChange
  <1>6. ASSUME NEW k \in LeaseId, ListRead(k) PROVE FsInv'
    <2>1. ListingOnTrack'
      <3>1. /\ list'.pc = list.pc /\ list'.inv = list.inv /\ list'.owed = list.owed
            /\ list'.faulted = list.faulted
            /\ list'.todo = list.todo \ {k}
            /\ list'.found = IF k \in Authority(list.inv)
                             THEN list.found \cup {k} ELSE list.found
            /\ leases' = leases
        BY <1>6 DEF ListRead, FsTypeOK, Listing, vars
      <3>2. QED
        BY <3>1 DEF FsInv, ListingOnTrack, Authority
    <2>2. (list.pc = "done" => list.todo = {})'
      BY <1>6 DEF ListRead, FsTypeOK, Listing
    <2>3. QED
      BY <1>6, <2>1, <2>2 DEF ListRead, FsInv, PendingOK, IndexNamesLeases, Present,
                               ClaimedIsReplay, vars
  <1>7. ASSUME NEW inv \in Invocation, ListStart(inv) PROVE FsInv'
    <2>1. Authority(inv) \subseteq Present
      BY DEF Authority, Authorizing, Present
    <2>2. /\ list'.pc = "read" /\ list'.todo = ListedPaths
          /\ list'.owed = Authority(inv) \ (IF index.written THEN legacy ELSE {})
      BY <1>7 DEF ListStart
    <2>3. list'.owed \subseteq list'.todo
      BY <2>1, <2>2 DEF ListedPaths, FsInv, IndexNamesLeases
    <2>4. ListingOnTrack'
      BY <1>7, <2>1, <2>2, <2>3 DEF ListStart, ListingOnTrack, Present, vars
    <2>5. QED
      BY <1>7, <2>2, <2>4 DEF ListStart, FsInv, PendingOK, IndexNamesLeases, Present,
                               ClaimedIsReplay, vars
  <1>8. ASSUME NEW paths \in SUBSET LeaseId, ListFault(paths) PROVE FsInv'
    <2>1. list'.faulted /\ list'.pc = "read"
      BY <1>8 DEF ListFault, FsTypeOK, Listing
    <2>2. QED
      BY <1>8, <2>1 DEF ListFault, FsInv, PendingOK, IndexNamesLeases, Present,
                        ClaimedIsReplay, ListingOnTrack, vars
  <1>9. CASE ListDone
    <2>1. /\ list'.todo = {} /\ list.todo = {} /\ list'.found = list.found
          /\ list'.owed = list.owed /\ list'.inv = list.inv
          /\ list'.faulted = list.faulted /\ list.pc = "read"
      BY <1>9 DEF ListDone, FsTypeOK, Listing
    <2>2. QED
      BY <1>9, <2>1 DEF ListDone, FsInv, PendingOK, IndexNamesLeases, Present,
                        ClaimedIsReplay, ListingOnTrack, Authority, vars
  <1>10. CASE UNCHANGED allVars
    BY <1>10 DEF allVars, fsVars, vars, FsInv, PendingOK, IndexNamesLeases, Present,
                 ClaimedIsReplay, ListingOnTrack, Authority
  <1>11. QED
    BY <1>1, <1>2, <1>3, <1>4, <1>5, <1>6, <1>7, <1>8, <1>9, <1>10 DEF FsNext

\* The initial files satisfy the invariant.
LEMMA FsInitOK == FsInit => Init /\ TypeOK /\ FsTypeOK /\ FsInv
  <1> SUFFICES ASSUME FsInit PROVE Init /\ TypeOK /\ FsTypeOK /\ FsInv
    OBVIOUS
  <1>1. (CHOOSE i \in Invocation : TRUE) \in Invocation
    BY InvocationAssumption
  <1>2. NoLease \in Lease /\ NoLease.status = "Absent" /\ NoLease.inv \in Invocation
    BY <1>1 DEF NoLease, Lease, LeaseStatus
  <1>3. Init /\ TypeOK
    BY <1>2 DEF FsInit, Init, TypeOK
  <1>4. FsTypeOK
    BY <1>2 DEF FsInit, FsTypeOK, Listing, NoListing
  <1>5. FsInv
    BY <1>2 DEF FsInit, Init, FsInv, PendingOK, IndexNamesLeases, ClaimedIsReplay,
                ListingOnTrack, NoListing, Present
  <1>6. QED
    BY <1>3, <1>4, <1>5

\* The invariant holds throughout, for any leases, requests and limits.
LEMMA FsInvariant == FsSpec => [](TypeOK /\ FsTypeOK /\ FsInv)
  <1>1. TypeOK /\ FsTypeOK /\ FsInv /\ [FsNext]_allVars => (TypeOK /\ FsTypeOK /\ FsInv)'
    BY StepRefines, TypeStep, FsTypeStep, FsInvStep
  <1>2. QED
    BY <1>1, FsInitOK, PTL DEF FsSpec

\* The files behave as the leases of the lease store do.
LEMMA FilesAreLeases == FsSpec => Spec
  BY FsInvariant, FsInitOK, StepRefines, PTL DEF FsSpec, Spec

\* So what was proved of the leases holds of the files, whatever issue that stopped
\* half-way and whatever listing is under way: no lease file is overspent,
LEMMA FilesNeverOverspent == FsSpec => []SpentWithinBudget
  BY FilesAreLeases, NeverOverspent, PTL

\* and none that was consumed or revoked is in use again.
LEMMA FilesStaySpent == FsSpec => SpentOrRevokedIsFinal
  BY FilesAreLeases, SpentStaysSpent, PTL

\* No listing misses a lease that authorizes throughout, except one that was
\* written without an index, whatever is issued, claimed or revoked meanwhile.
THEOREM ListingsAreComplete == FsSpec => []ListingIsComplete
  <1>1. FsTypeOK /\ FsInv => ListingIsComplete
    BY DEF FsInv, ListingOnTrack, ListingIsComplete
  <1>2. QED
    BY <1>1, FsInvariant, PTL
=============================================================================
