------------------------ MODULE CapabilityHost_proof ------------------------
(***************************************************************************)
(* Proofs about CapabilityHost: for any number of callers, approvers,      *)
(* leases and requests, with store failures and crashes, a lease pays for  *)
(* at most one side effect, and only for what was approved; the run and    *)
(* approval records agree with what ran; and, while the stores work, no    *)
(* lease survives the approval that lost its race.                         *)
(***************************************************************************)
EXTENDS CapabilityHost, CapabilityLease_proof

\* The store operations are one assignment each and are expanded everywhere.
USE DEF StartRun, SetRun, SaveApproval, ResolveApproval, DiscardApproval

\* A call in progress: past the approval check it replays an approved request,
\* past FindLease its lease is for that request, and between the claim and the
\* side effect the lease is neither active nor used.
CallOK(c) ==
    /\ call[c].pc # "idle" => call[c].fp \in Fingerprint
    /\ call[c].pc \in {"idle", "authorize", "block", "discard", "approval", "lease"}
         => call[c].lease = NoLeaseId
    /\ call[c].pc \in {"claim", "prepare", "consume", "failHeld", "revoke"}
         => call[c].lease \in LeaseId
    /\ call[c].pc = "lease" \/ call[c].lease # NoLeaseId =>
         /\ approval[Inv(c)].status = "Approved"
         /\ approval[Inv(c)].fingerprint = call[c].fp
    /\ call[c].lease # NoLeaseId =>
         /\ leases[call[c].lease].status # "Absent"
         /\ leases[call[c].lease].inv = Inv(c)
         /\ leases[call[c].lease].fingerprint = call[c].fp
    /\ call[c].lease # NoLeaseId /\ call[c].pc \in {"prepare", "dispatch"} =>
         /\ leases[call[c].lease].status # "Active"
         /\ uses[call[c].lease] = 0

\* Caller c is about to run the side effect its lease k pays for.
Holding(c, k) == call[c].lease = k /\ call[c].pc \in {"prepare", "dispatch"}

\* No two callers are about to use one lease.
Exclusive ==
    \A k \in LeaseId, c \in Caller, d \in Caller :
        Holding(c, k) /\ Holding(d, k) => c = d

\* A resolver method in progress.
VoteOK(a) ==
    /\ vote[a].pc # "idle" => vote[a].fp \in Fingerprint
    /\ vote[a].pc \in {"approve", "revoke"} =>
         /\ vote[a].lease \in LeaseId
         /\ leases[vote[a].lease].status # "Absent"

\* Only a lease that was issued has a fingerprint.
FingerprintOK(k) ==
    IF leases[k].status = "Absent" THEN leases[k].fingerprint = NoFingerprint
                                   ELSE leases[k].fingerprint \in Fingerprint

\* A lease: one that was used has left Active for good, and what it was used
\* for stands approved.
LeaseOK(k) ==
    /\ FingerprintOK(k)
    /\ uses[k] <= 1
    /\ uses[k] > 0 =>
         /\ leases[k].status \notin {"Absent", "Active"}
         /\ approval[leases[k].inv].status = "Approved"
         /\ approval[leases[k].inv].fingerprint = leases[k].fingerprint

ApprovalOK(i) ==
    approval[i].status # "Absent" => approval[i].fingerprint \in Fingerprint

\* The inductive invariant.
ReplayInv ==
    /\ \A c \in Caller : CallOK(c)
    /\ Exclusive
    /\ \A a \in Approver : VoteOK(a)
    /\ \A k \in LeaseId : LeaseOK(k)
    /\ \A i \in Invocation : ApprovalOK(i)

\* What Goto and Return do to the calls.
LEMMA GotoEffect ==
    ASSUME TypeOK, NEW c \in Caller, NEW pc \in CallPc, Goto(c, pc)
    PROVE  /\ call' \in [Caller -> CallRecord]
           /\ call'[c].pc = pc
           /\ call'[c].fp = call[c].fp
           /\ call'[c].lease = call[c].lease
           /\ \A d \in Caller : d # c => call'[d] = call[d]
  BY DEF TypeOK, Goto, CallRecord

\* A call that returns leaves its slot empty and the other callers alone.
LEMMA ReturnEffect ==
    ASSUME TypeOK, NEW c \in Caller, Return(c)
    PROVE  /\ call' \in [Caller -> CallRecord]
           /\ call'[c] = NoCall
           /\ \A d \in Caller : d # c => call'[d] = call[d]
  <1>1. NoCall \in CallRecord
    BY DEF NoCall, CallRecord, CallPc
  <1>2. QED
    BY <1>1 DEF TypeOK, Return

\* The same for an approver.
LEMMA VoteReturnEffect ==
    ASSUME TypeOK, NEW a \in Approver, VoteReturn(a)
    PROVE  /\ vote' \in [Approver -> VoteRecord]
           /\ vote'[a] = NoCall
           /\ \A b \in Approver : b # a => vote'[b] = vote[b]
  <1>1. NoCall \in VoteRecord
    BY DEF NoCall, VoteRecord, VotePc
  <1>2. QED
    BY <1>1 DEF TypeOK, VoteReturn

\* What RecordEffect does to the histories.
LEMMA RecordEffectEffect ==
    ASSUME TypeOK, NEW c \in Caller, call[c].fp \in Fingerprint, RecordEffect(c)
    PROVE  /\ uses' \in [LeaseId -> Nat] /\ effects' \in [Invocation -> Nat]
           /\ Held(c) => uses'[call[c].lease] = uses[call[c].lease] + 1
           /\ \A k \in LeaseId : k # call[c].lease => uses'[k] = uses[k]
  <1>1. Inv(c) \in Invocation
    BY FingerprintAssumption DEF Inv
  <1>2. effects' \in [Invocation -> Nat]
    BY <1>1 DEF RecordEffect, TypeOK
  <1>3. CASE Held(c)
    <2>1. call[c].lease \in LeaseId
      BY <1>3 DEF Held, TypeOK, CallRecord
    <2>2. QED
      BY <1>2, <1>3, <2>1 DEF RecordEffect, TypeOK
  <1>4. CASE ~ Held(c)
    BY <1>2, <1>4 DEF RecordEffect, TypeOK
  <1>5. QED
    BY <1>3, <1>4

\* Every step preserves the type invariant, given that calls and votes in
\* progress name real requests.
LEMMA TypeStep == TypeOK /\ ReplayInv /\ [Next]_vars => TypeOK'
  <1> SUFFICES ASSUME TypeOK, ReplayInv, Next PROVE TypeOK'
    BY DEF TypeOK, vars
  <1>t. /\ run \in [Invocation -> RunStatus]
        /\ approval \in [Invocation -> ApprovalRecord]
        /\ leases \in [LeaseId -> Lease]
        /\ call \in [Caller -> CallRecord]
        /\ vote \in [Approver -> VoteRecord]
        /\ uses \in [LeaseId -> Nat]
        /\ effects \in [Invocation -> Nat]
    BY DEF TypeOK
  <1>r. {"Running", "BlockedApproval", "Completed", "Failed"} \subseteq RunStatus
    BY DEF RunStatus
  <1>p. /\ NoApproval \in ApprovalRecord
        /\ \A fp \in Fingerprint : [status |-> "Pending", fingerprint |-> fp] \in ApprovalRecord
    BY DEF NoApproval, ApprovalRecord, ApprovalStatus
  <1>f. \A c \in Caller : call[c].pc # "idle" => call[c].fp \in Fingerprint
    BY DEF ReplayInv, CallOK
  <1>1. ASSUME NEW c \in Caller, NEW fp \in Fingerprint, Start(c, fp) PROVE TypeOK'
    <2>1. [pc |-> "authorize", fp |-> fp, lease |-> NoLeaseId] \in CallRecord
      BY DEF CallRecord, CallPc
    <2>2. QED
      BY <1>1, <1>t, <1>r, <2>1 DEF Start, TypeOK
  <1>2. ASSUME NEW c \in Caller, NEW fp \in Fingerprint, ResumeRead(c, fp) PROVE TypeOK'
    <2>1. \A next \in {"approval", "fail"} :
            [pc |-> next, fp |-> fp, lease |-> NoLeaseId] \in CallRecord
      BY DEF CallRecord, CallPc
    <2>2. QED
      BY <1>2, <1>t, <2>1 DEF ResumeRead, TypeOK
  <1>3. ASSUME NEW c \in Caller, AuthorizeAllow(c) PROVE TypeOK'
    BY <1>3, <1>t, GotoEffect, ReturnEffect DEF AuthorizeAllow, CallPc, TypeOK
  <1>4. ASSUME NEW c \in Caller, AuthorizeReject(c) PROVE TypeOK'
    BY <1>4, <1>t, GotoEffect, ReturnEffect DEF AuthorizeReject, CallPc, TypeOK
  <1>5. ASSUME NEW c \in Caller, ReadApproval(c) PROVE TypeOK'
    BY <1>5, <1>t, GotoEffect, ReturnEffect DEF ReadApproval, CallPc, TypeOK
  <1>6. ASSUME NEW c \in Caller, Prepare(c) PROVE TypeOK'
    BY <1>6, <1>t, GotoEffect, ReturnEffect DEF Prepare, CallPc, TypeOK
  <1>7. ASSUME NEW c \in Caller, CompleteObligations(c) PROVE TypeOK'
    BY <1>7, <1>t, GotoEffect, ReturnEffect DEF CompleteObligations, CallPc, TypeOK
  <1>8. ASSUME NEW c \in Caller, FindLease(c) PROVE TypeOK'
    <2>1. ASSUME NEW k \in MatchingLeases(c),
                 call' = [call EXCEPT ![c].lease = k, ![c].pc = "claim"]
          PROVE  call' \in [Caller -> CallRecord]
      BY <1>t, <2>1 DEF MatchingLeases, CallRecord, CallPc
    <2>2. QED
      BY <1>8, <1>t, <2>1, GotoEffect DEF FindLease, CallPc, TypeOK
  <1>9. ASSUME NEW c \in Caller, SavePending(c) PROVE TypeOK'
    <2>1. call' \in [Caller -> CallRecord]
      BY <1>9, GotoEffect DEF SavePending, CallPc
    <2>2. approval' \in [Invocation -> ApprovalRecord]
      BY <1>9, <1>t, <1>p, <1>f DEF SavePending, At
    <2>3. QED
      BY <1>9, <1>t, <2>1, <2>2 DEF SavePending, TypeOK
  <1>10. ASSUME NEW c \in Caller, BlockApproval(c) PROVE TypeOK'
    <2>1. call' \in [Caller -> CallRecord]
      BY <1>10, GotoEffect, ReturnEffect DEF BlockApproval, CallPc
    <2>2. run' \in [Invocation -> RunStatus]
      BY <1>10, <1>t, <1>r DEF BlockApproval
    <2>3. QED
      BY <1>10, <1>t, <2>1, <2>2 DEF BlockApproval, TypeOK
  <1>11. ASSUME NEW c \in Caller, CompleteRun(c) PROVE TypeOK'
    <2>1. call' \in [Caller -> CallRecord]
      BY <1>11, GotoEffect, ReturnEffect DEF CompleteRun, CallPc
    <2>2. run' \in [Invocation -> RunStatus]
      BY <1>11, <1>t, <1>r DEF CompleteRun
    <2>3. QED
      BY <1>11, <1>t, <2>1, <2>2 DEF CompleteRun, TypeOK
  <1>12. ASSUME NEW c \in Caller, FailRun(c) PROVE TypeOK'
    <2>1. call' \in [Caller -> CallRecord]
      BY <1>12, GotoEffect, ReturnEffect DEF FailRun, CallPc
    <2>2. run' \in [Invocation -> RunStatus]
      BY <1>12, <1>t, <1>r DEF FailRun
    <2>3. QED
      BY <1>12, <1>t, <2>1, <2>2 DEF FailRun, TypeOK
  <1>13. ASSUME NEW c \in Caller, DiscardPending(c) PROVE TypeOK'
    <2>1. call' \in [Caller -> CallRecord]
      BY <1>13, GotoEffect DEF DiscardPending, CallPc
    <2>2. approval' \in [Invocation -> ApprovalRecord]
      BY <1>13, <1>t, <1>p DEF DiscardPending
    <2>3. QED
      BY <1>13, <1>t, <2>1, <2>2 DEF DiscardPending, TypeOK
  <1>14. ASSUME NEW c \in Caller, ClaimLease(c) PROVE TypeOK'
    <2>1. call' \in [Caller -> CallRecord]
      BY <1>14, GotoEffect, ReturnEffect DEF ClaimLease, CallPc
    <2>2. leases' \in [LeaseId -> Lease]
      BY <1>14, <1>t DEF ClaimLease, Lease, LeaseStatus
    <2>3. QED
      BY <1>14, <1>t, <2>1, <2>2 DEF ClaimLease, TypeOK
  <1>15. ASSUME NEW c \in Caller, RevokeClaimed(c) PROVE TypeOK'
    <2>1. call' \in [Caller -> CallRecord]
      BY <1>15, GotoEffect, ReturnEffect DEF RevokeClaimed, CallPc
    <2>2. leases' \in [LeaseId -> Lease]
      BY <1>15, <1>t DEF RevokeClaimed, Lease, LeaseStatus
    <2>3. QED
      BY <1>15, <1>t, <2>1, <2>2 DEF RevokeClaimed, TypeOK
  <1>16. ASSUME NEW c \in Caller, ConsumeLease(c) PROVE TypeOK'
    <2>1. call' \in [Caller -> CallRecord]
      BY <1>16, GotoEffect DEF ConsumeLease, CallPc
    <2>2. call[c].lease \in LeaseId
      BY <1>16 DEF ConsumeLease, At, ReplayInv, CallOK
    <2>3. Consumable(leases[call[c].lease]) => AfterConsume(leases[call[c].lease]) \in Lease
      BY <1>t, <2>2, ConsumeKeepsLease
    <2>4. leases' \in [LeaseId -> Lease]
      BY <1>16, <1>t, <2>2, <2>3 DEF ConsumeLease
    <2>5. QED
      BY <1>16, <1>t, <2>1, <2>4 DEF ConsumeLease, TypeOK
  <1>17. ASSUME NEW c \in Caller, Dispatch(c) PROVE TypeOK'
    <2>1. call' \in [Caller -> CallRecord]
      BY <1>17, GotoEffect DEF Dispatch, CallPc
    <2>2. uses' \in [LeaseId -> Nat] /\ effects' \in [Invocation -> Nat]
      BY <1>17, <1>f, RecordEffectEffect DEF Dispatch, At
    <2>3. QED
      BY <1>17, <1>t, <2>1, <2>2 DEF Dispatch, TypeOK
  <1>18. ASSUME NEW c \in Caller, SpawnProcess(c) PROVE TypeOK'
    <2>1. call' \in [Caller -> CallRecord]
      BY <1>18, GotoEffect DEF SpawnProcess, CallPc
    <2>2. uses' \in [LeaseId -> Nat] /\ effects' \in [Invocation -> Nat]
      BY <1>18, <1>f, RecordEffectEffect DEF SpawnProcess, At
    <2>3. QED
      BY <1>18, <1>t, <2>1, <2>2 DEF SpawnProcess, TypeOK
  <1>19. ASSUME NEW a \in Approver, NEW i \in Invocation, ResolverRead(a, i) PROVE TypeOK'
    <2>1. \A next \in {"issue", "deny"} :
            [pc |-> next, lease |-> NoLeaseId, fp |-> approval[i].fingerprint] \in VoteRecord
      BY <1>t DEF VoteRecord, VotePc, ApprovalRecord
    <2>2. QED
      BY <1>19, <1>t, <2>1 DEF ResolverRead, TypeOK
  <1>20. ASSUME NEW a \in Approver, IssueLease(a) PROVE TypeOK'
    <2>1. vote[a].fp \in Fingerprint /\ VoteInv(a) \in Invocation
      BY <1>20, FingerprintAssumption DEF IssueLease, VoteAt, ReplayInv, VoteOK, VoteInv
    <2>2. \A m \in MaxInvocations : NewLease(VoteInv(a), vote[a].fp, m) \in Lease
      BY <2>1, NewLeaseType
    <2>3. leases' \in [LeaseId -> Lease]
      BY <1>20, <1>t, <2>2 DEF IssueLease
    <2>4. ASSUME NEW k \in LeaseId,
                 vote' = [vote EXCEPT ![a].pc = "approve", ![a].lease = k]
          PROVE  vote' \in [Approver -> VoteRecord]
      BY <1>t, <2>4 DEF VoteRecord, VotePc
    <2>5. vote' \in [Approver -> VoteRecord]
      BY <1>20, <2>4, VoteReturnEffect DEF IssueLease
    <2>6. QED
      BY <1>20, <1>t, <2>3, <2>5 DEF IssueLease, TypeOK
  <1>21. ASSUME NEW a \in Approver, Approve(a) PROVE TypeOK'
    <2>1. vote' = [vote EXCEPT ![a].pc = "revoke"] => vote' \in [Approver -> VoteRecord]
      BY <1>t DEF VoteRecord, VotePc
    <2>2. vote' \in [Approver -> VoteRecord]
      BY <1>21, <2>1, VoteReturnEffect DEF Approve
    <2>3. approval' \in [Invocation -> ApprovalRecord]
      BY <1>21, <1>t DEF Approve, ApprovalRecord, ApprovalStatus
    <2>4. QED
      BY <1>21, <1>t, <2>2, <2>3 DEF Approve, TypeOK
  <1>22. ASSUME NEW a \in Approver, RollBackLease(a) PROVE TypeOK'
    <2>1. vote' \in [Approver -> VoteRecord]
      BY <1>22, VoteReturnEffect DEF RollBackLease
    <2>2. leases' \in [LeaseId -> Lease]
      BY <1>22, <1>t DEF RollBackLease, Lease, LeaseStatus
    <2>3. QED
      BY <1>22, <1>t, <2>1, <2>2 DEF RollBackLease, TypeOK
  <1>23. ASSUME NEW a \in Approver, Deny(a) PROVE TypeOK'
    <2>1. vote' \in [Approver -> VoteRecord]
      BY <1>23, VoteReturnEffect DEF Deny
    <2>2. approval' \in [Invocation -> ApprovalRecord]
      BY <1>23, <1>t DEF Deny, ApprovalRecord, ApprovalStatus
    <2>3. QED
      BY <1>23, <1>t, <2>1, <2>2 DEF Deny, TypeOK
  <1>24. ASSUME NEW k \in LeaseId, Expire(k) PROVE TypeOK'
    <2>1. leases' \in [LeaseId -> Lease]
      BY <1>24, <1>t DEF Expire, Lease
    <2>2. QED
      BY <1>24, <1>t, <2>1 DEF Expire, TypeOK
  <1>25. ASSUME Crash PROVE TypeOK'
    <2>1. NoCall \in CallRecord /\ NoCall \in VoteRecord
      BY DEF NoCall, CallRecord, VoteRecord, CallPc, VotePc
    <2>2. QED
      BY <1>25, <1>t, <2>1 DEF Crash, TypeOK
  <1>26. QED
    BY <1>1, <1>2, <1>3, <1>4, <1>5, <1>6, <1>7, <1>8, <1>9, <1>10, <1>11,
       <1>12, <1>13, <1>14, <1>15, <1>16, <1>17, <1>18, <1>19, <1>20, <1>21,
       <1>22, <1>23, <1>24, <1>25 DEF Next, CallStep,
       VoteStep

\* What every step but the side effect itself does to the stores: a decision
\* that was made stands, a lease that was issued keeps its request and never
\* becomes active again, and no lease is used.
Kept ==
    /\ \A i \in Invocation : approval[i].status = "Approved" => approval'[i] = approval[i]
    /\ \A k \in LeaseId : leases[k].status # "Absent" =>
         /\ leases'[k].inv = leases[k].inv
         /\ leases'[k].fingerprint = leases[k].fingerprint
         /\ leases'[k].status # "Absent"
         /\ leases[k].status # "Active" => leases'[k].status # "Active"
    /\ \A k \in LeaseId : FingerprintOK(k)'
    /\ \A i \in Invocation : ApprovalOK(i)'
    /\ uses' = uses

\* A call that does not move, the votes and the leases survive such a step.
LEMMA KeptCall ==
    ASSUME TypeOK, ReplayInv, Kept, NEW c \in Caller, call'[c] = call[c]
    PROVE  CallOK(c)'
  <1>1. CallOK(c) /\ call[c] \in CallRecord
    BY DEF ReplayInv, TypeOK
  <1>2. call[c].lease # NoLeaseId =>
          call[c].lease \in LeaseId /\ call[c].fp \in Fingerprint
    BY <1>1 DEF CallOK, CallRecord
  <1>3. call[c].fp \in Fingerprint => Inv(c) \in Invocation /\ Inv(c)' = Inv(c)
    BY FingerprintAssumption DEF Inv
  <1>4. QED
    BY <1>1, <1>2, <1>3 DEF CallOK, Kept

\* A step that leaves approvals, leases, votes and uses alone keeps their share of
\* the invariant.
LEMMA KeptRest ==
    ASSUME TypeOK, ReplayInv, Kept,
           \A a \in Approver : vote'[a] = vote[a] \/ VoteOK(a)'
    PROVE  /\ \A a \in Approver : VoteOK(a)'
           /\ \A k \in LeaseId : LeaseOK(k)'
           /\ \A i \in Invocation : ApprovalOK(i)'
  <1>1. ASSUME NEW a \in Approver PROVE VoteOK(a)'
    BY DEF ReplayInv, VoteOK, Kept
  <1>2. ASSUME NEW k \in LeaseId PROVE LeaseOK(k)'
    <2>1. LeaseOK(k) /\ uses[k] \in Nat /\ leases[k].inv \in Invocation
      BY DEF ReplayInv, TypeOK, Lease
    <2>2. QED
      BY <2>1 DEF LeaseOK, FingerprintOK, Kept
  <1>3. QED
    BY <1>1, <1>2 DEF Kept

\* A step that keeps the stores preserves the invariant if it does so for the
\* call or the vote that moves, and lets nobody in on a lease.
LEMMA KeptStep ==
    ASSUME TypeOK, ReplayInv, Kept,
           \A c \in Caller : call'[c] = call[c] \/ CallOK(c)',
           \A c \in Caller, k \in LeaseId : Holding(c, k)' => Holding(c, k),
           \A a \in Approver : vote'[a] = vote[a] \/ VoteOK(a)'
    PROVE  ReplayInv'
  <1>1. \A c \in Caller : CallOK(c)'
    BY KeptCall
  <1>2. Exclusive'
    BY DEF ReplayInv, Exclusive
  <1>3. QED
    BY <1>1, <1>2, KeptRest DEF ReplayInv

\* Revoking an issued lease keeps the stores.
LEMMA RevokeKept ==
    ASSUME TypeOK, ReplayInv, NEW k \in LeaseId, leases[k].status # "Absent",
           leases' = [leases EXCEPT ![k].status = "Revoked"],
           UNCHANGED <<approval, uses>>
    PROVE  Kept
  <1>1. /\ leases'[k].status = "Revoked" /\ leases'[k].inv = leases[k].inv
        /\ leases'[k].fingerprint = leases[k].fingerprint
        /\ \A j \in LeaseId : j # k => leases'[j] = leases[j]
    BY DEF TypeOK, Lease
  <1>2. QED
    BY <1>1 DEF Kept, ReplayInv, LeaseOK, FingerprintOK, ApprovalOK

\* Steps that touch neither approvals, leases nor uses keep the stores.
LEMMA UnchangedKept ==
    ASSUME ReplayInv, UNCHANGED <<approval, leases, uses>>
    PROVE  Kept
  BY DEF ReplayInv, Kept, ApprovalOK, LeaseOK, FingerprintOK

\* A call that returned is in order, and holds nothing.
LEMMA ReturnedOK ==
    ASSUME NEW c \in Caller, call'[c] = NoCall
    PROVE  CallOK(c)' /\ \A k \in LeaseId : ~ Holding(c, k)'
  BY NoLeaseIdAssumption DEF CallOK, Holding, NoCall

\* An approver that returned has nothing left to satisfy.
LEMMA VoteReturnedOK ==
    ASSUME NEW a \in Approver, vote'[a] = NoCall
    PROVE  VoteOK(a)'
  BY DEF VoteOK, NoCall

\* A step of one caller that keeps the stores.
LEMMA CallerStep ==
    ASSUME TypeOK, ReplayInv, Kept, NEW c \in Caller,
           \A d \in Caller : d # c => call'[d] = call[d],
           CallOK(c)',
           \A k \in LeaseId : Holding(c, k)' => Holding(c, k),
           UNCHANGED vote
    PROVE  ReplayInv'
  <1>1. \A d \in Caller : call'[d] = call[d] \/ CallOK(d)'
    OBVIOUS
  <1>2. \A d \in Caller, k \in LeaseId : Holding(d, k)' => Holding(d, k)
    BY DEF Holding
  <1>3. \A a \in Approver : vote'[a] = vote[a] \/ VoteOK(a)'
    OBVIOUS
  <1>4. QED
    BY <1>1, <1>2, <1>3, KeptStep

\* A step of one approver that keeps the stores.
LEMMA ApproverStep ==
    ASSUME TypeOK, ReplayInv, Kept, NEW a \in Approver,
           \A b \in Approver : b # a => vote'[b] = vote[b],
           VoteOK(a)',
           UNCHANGED call
    PROVE  ReplayInv'
  <1>1. \A d \in Caller : call'[d] = call[d] \/ CallOK(d)'
    OBVIOUS
  <1>2. \A d \in Caller, k \in LeaseId : Holding(d, k)' => Holding(d, k)
    BY DEF Holding
  <1>3. \A b \in Approver : vote'[b] = vote[b] \/ VoteOK(b)'
    OBVIOUS
  <1>4. QED
    BY <1>1, <1>2, <1>3, KeptStep

\* The invariant at one caller, for the cases below.
LEMMA CallerFacts ==
    ASSUME TypeOK, ReplayInv, NEW c \in Caller
    PROVE  /\ CallOK(c)
           /\ call[c].pc # "idle" => call[c].fp \in Fingerprint /\ Inv(c) \in Invocation
           /\ call[c].lease \in LeaseId \cup {NoLeaseId}
           /\ call'[c].fp = call[c].fp => Inv(c)' = Inv(c)
  BY FingerprintAssumption DEF ReplayInv, CallOK, TypeOK, CallRecord, Inv

\* Steps of a host method: what the moving call still satisfies when it jumps
\* to pc while approvals, leases and uses stay as they are.
LEMMA QuietGoto ==
    ASSUME TypeOK, ReplayInv, NEW c \in Caller, NEW pc \in CallPc, Goto(c, pc),
           UNCHANGED <<approval, leases, uses, vote>>,
           call[c].pc # "idle",
           pc \notin {"idle", "authorize", "block", "discard", "approval", "claim"},
           pc \in {"prepare", "consume", "failHeld", "revoke"} => call[c].lease \in LeaseId,
           pc = "lease" => /\ call[c].lease = NoLeaseId
                           /\ approval[Inv(c)].status = "Approved"
                           /\ approval[Inv(c)].fingerprint = call[c].fp,
           pc \in {"prepare", "dispatch"} =>
              call[c].pc = "prepare" \/ call[c].lease = NoLeaseId
    PROVE  ReplayInv'
  <1>1. Kept
    BY UnchangedKept
  <1>2. /\ call'[c].pc = pc /\ call'[c].fp = call[c].fp /\ call'[c].lease = call[c].lease
        /\ \A d \in Caller : d # c => call'[d] = call[d]
    BY GotoEffect
  <1>3. CallOK(c)'
    BY <1>2, CallerFacts DEF CallOK
  <1>4. \A k \in LeaseId : Holding(c, k)' => Holding(c, k)
    BY <1>2, NoLeaseIdAssumption DEF Holding
  <1>5. QED
    BY <1>1, <1>2, <1>3, <1>4, CallerStep

\* A call that returns without touching a store keeps the invariant.
LEMMA QuietReturn ==
    ASSUME TypeOK, ReplayInv, NEW c \in Caller, Return(c), Kept, UNCHANGED vote
    PROVE  ReplayInv'
  BY ReturnEffect, ReturnedOK, CallerStep

\* The side effect: its caller alone holds the lease, which was not used yet.
LEMMA EffectStep ==
    ASSUME TypeOK, ReplayInv, NEW c \in Caller, call[c].pc = "dispatch",
           RecordEffect(c), UNCHANGED <<approval, leases, vote>>,
           NEW pc \in {"settle", "fail", "failHeld", "consume", "complete"},
           Goto(c, pc), pc \in {"failHeld", "consume"} => Held(c)
    PROVE  ReplayInv'
  <1>1. /\ call'[c].pc = pc /\ call'[c].fp = call[c].fp /\ call'[c].lease = call[c].lease
        /\ \A d \in Caller : d # c => call'[d] = call[d]
    BY GotoEffect DEF CallPc
  <1>2. /\ CallOK(c) /\ call[c].fp \in Fingerprint /\ Inv(c)' = Inv(c)
        /\ call[c].lease \in LeaseId \cup {NoLeaseId}
    BY <1>1, CallerFacts
  <1>3. /\ Held(c) => uses'[call[c].lease] = uses[call[c].lease] + 1
        /\ \A k \in LeaseId : k # call[c].lease => uses'[k] = uses[k]
    BY <1>2, RecordEffectEffect
  <1>4. ASSUME NEW d \in Caller PROVE CallOK(d)'
    <2>1. CASE d = c
      BY <1>1, <1>2, <2>1 DEF CallOK, Held
    <2>2. CASE d # c
      <3>1. CallOK(d) /\ call'[d] = call[d] /\ Inv(d)' = Inv(d)
            /\ call[d].lease \in LeaseId \cup {NoLeaseId}
        BY <1>1, <2>2, CallerFacts
      <3>2. call[d].lease # NoLeaseId /\ call[d].pc \in {"prepare", "dispatch"}
              => uses'[call[d].lease] = uses[call[d].lease]
        BY <1>2, <1>3, <2>2, <3>1 DEF ReplayInv, Exclusive, Holding
      <3>3. QED
        BY <3>1, <3>2 DEF CallOK
    <2>3. QED
      BY <2>1, <2>2
  <1>5. Exclusive'
    BY <1>1 DEF ReplayInv, Exclusive, Holding
  <1>6. ASSUME NEW a \in Approver PROVE VoteOK(a)'
    BY DEF ReplayInv, VoteOK
  <1>7. ASSUME NEW k \in LeaseId PROVE LeaseOK(k)'
    <2>1. LeaseOK(k) /\ uses[k] \in Nat
      BY DEF ReplayInv, TypeOK
    <2>2. CASE k = call[c].lease
      <3>1. Held(c) /\ uses[k] = 0 /\ leases[k].status \notin {"Absent", "Active"}
        BY <1>2, <2>2, NoLeaseIdAssumption DEF CallOK, Held
      <3>2. uses'[k] = 1
        BY <1>3, <2>2, <3>1
      <3>3. approval[leases[k].inv].status = "Approved"
            /\ approval[leases[k].inv].fingerprint = leases[k].fingerprint
        BY <1>2, <2>2, <3>1 DEF CallOK, Held
      <3>4. QED
        BY <2>1, <3>1, <3>2, <3>3 DEF LeaseOK, FingerprintOK
    <2>3. CASE k # call[c].lease
      BY <1>3, <2>1, <2>3 DEF LeaseOK, FingerprintOK
    <2>4. QED
      BY <2>2, <2>3
  <1>8. QED
    BY <1>4, <1>5, <1>6, <1>7 DEF ReplayInv, ApprovalOK

\* Every step preserves the inductive invariant.
LEMMA ReplayStep == TypeOK /\ ReplayInv /\ [Next]_vars => ReplayInv'
  <1> SUFFICES ASSUME TypeOK, ReplayInv, Next PROVE ReplayInv'
    BY DEF vars, ReplayInv, CallOK, Inv, Exclusive, Holding, VoteOK, LeaseOK, FingerprintOK, ApprovalOK
  <1> USE DEF At, VoteAt
  <1>1. ASSUME NEW c \in Caller, NEW fp \in Fingerprint, Start(c, fp) PROVE ReplayInv'
    <2>1. /\ call'[c] = [pc |-> "authorize", fp |-> fp, lease |-> NoLeaseId]
          /\ \A d \in Caller : d # c => call'[d] = call[d]
      BY <1>1 DEF Start, TypeOK
    <2>2. CallOK(c)' /\ \A k \in LeaseId : ~ Holding(c, k)'
      BY <2>1 DEF CallOK, Holding
    <2>3. Kept /\ UNCHANGED vote
      BY <1>1, UnchangedKept DEF Start
    <2>4. QED
      BY <2>1, <2>2, <2>3, CallerStep
  <1>2. ASSUME NEW c \in Caller, NEW fp \in Fingerprint, ResumeRead(c, fp) PROVE ReplayInv'
    <2>1. PICK next \in {"approval", "fail"} :
            /\ call'[c] = [pc |-> next, fp |-> fp, lease |-> NoLeaseId]
            /\ \A d \in Caller : d # c => call'[d] = call[d]
      BY <1>2 DEF ResumeRead, TypeOK
    <2>2. CallOK(c)' /\ \A k \in LeaseId : ~ Holding(c, k)'
      BY <2>1 DEF CallOK, Holding
    <2>3. Kept /\ UNCHANGED vote
      BY <1>2, UnchangedKept DEF ResumeRead
    <2>4. QED
      BY <2>1, <2>2, <2>3, CallerStep
  <1>3. ASSUME NEW c \in Caller, AuthorizeAllow(c) PROVE ReplayInv'
    BY <1>3, QuietGoto, CallerFacts DEF AuthorizeAllow, CallPc, CallOK
  <1>4. ASSUME NEW c \in Caller, AuthorizeReject(c) PROVE ReplayInv'
    BY <1>4, QuietGoto, CallerFacts DEF AuthorizeReject, CallPc, CallOK
  <1>5. ASSUME NEW c \in Caller, SavePending(c) PROVE ReplayInv'
    <2>1. CASE StoreFaults /\ Goto(c, "fail") /\ UNCHANGED approval
      BY <1>5, <2>1, QuietGoto DEF SavePending, CallPc
    <2>2. CASE /\ approval[Inv(c)].status = "Absent"
               /\ approval' = [approval EXCEPT ![Inv(c)] =
                                 [status |-> "Pending", fingerprint |-> call[c].fp]]
               /\ Goto(c, "block")
      <3>1. CallOK(c) /\ call[c].fp \in Fingerprint
        BY <1>5, CallerFacts DEF SavePending
      <3>2. Kept
        BY <1>5, <2>2, <3>1 DEF SavePending, Kept, ReplayInv, ApprovalOK, LeaseOK, FingerprintOK, TypeOK
      <3>3. /\ call'[c].pc = "block" /\ call'[c].fp = call[c].fp
            /\ call'[c].lease = call[c].lease
            /\ \A d \in Caller : d # c => call'[d] = call[d]
        BY <2>2, GotoEffect DEF CallPc
      <3>4. CallOK(c)' /\ \A k \in LeaseId : ~ Holding(c, k)'
        BY <1>5, <3>1, <3>3 DEF CallOK, Holding, SavePending
      <3>5. QED
        BY <1>5, <3>2, <3>3, <3>4, CallerStep DEF SavePending
    <2>3. QED
      BY <1>5, <2>1, <2>2 DEF SavePending
  <1>6. ASSUME NEW c \in Caller, BlockApproval(c) PROVE ReplayInv'
    <2>1. CASE Return(c)
      BY <1>6, <2>1, QuietReturn, UnchangedKept DEF BlockApproval
    <2>2. CASE Goto(c, "discard")
      <3>1. /\ call'[c].pc = "discard" /\ call'[c].fp = call[c].fp
            /\ call'[c].lease = call[c].lease
            /\ \A d \in Caller : d # c => call'[d] = call[d]
        BY <2>2, GotoEffect DEF CallPc
      <3>2. CallOK(c)' /\ \A k \in LeaseId : ~ Holding(c, k)'
        BY <1>6, <3>1, CallerFacts DEF CallOK, Holding, BlockApproval
      <3>3. Kept /\ UNCHANGED vote
        BY <1>6, UnchangedKept DEF BlockApproval
      <3>4. QED
        BY <3>1, <3>2, <3>3, CallerStep
    <2>3. QED
      BY <1>6, <2>1, <2>2 DEF BlockApproval
  <1>7. ASSUME NEW c \in Caller, DiscardPending(c) PROVE ReplayInv'
    <2>1. CallOK(c)
      BY CallerFacts
    <2>2. Kept
      BY <1>7 DEF DiscardPending, Kept, ReplayInv, ApprovalOK, LeaseOK, FingerprintOK, TypeOK, NoApproval
    <2>3. /\ call'[c].pc = "fail" /\ call'[c].fp = call[c].fp
          /\ call'[c].lease = call[c].lease
          /\ \A d \in Caller : d # c => call'[d] = call[d]
      BY <1>7, GotoEffect DEF DiscardPending, CallPc
    <2>4. CallOK(c)' /\ \A k \in LeaseId : ~ Holding(c, k)'
      BY <1>7, <2>1, <2>3 DEF CallOK, Holding, DiscardPending
    <2>5. QED
      BY <1>7, <2>2, <2>3, <2>4, CallerStep DEF DiscardPending
  <1>8. ASSUME NEW c \in Caller, ReadApproval(c) PROVE ReplayInv'
    <2>1. CASE Return(c)
      BY <1>8, <2>1, QuietReturn, UnchangedKept DEF ReadApproval
    <2>2. CASE Goto(c, "fail")
      BY <1>8, <2>2, QuietGoto DEF ReadApproval, CallPc
    <2>3. CASE /\ approval[Inv(c)].status = "Approved"
               /\ approval[Inv(c)].fingerprint = call[c].fp
               /\ Goto(c, "lease")
      BY <1>8, <2>3, QuietGoto, CallerFacts DEF ReadApproval, CallPc, CallOK
    <2>4. QED
      BY <1>8, <2>1, <2>2, <2>3 DEF ReadApproval
  <1>9. ASSUME NEW c \in Caller, FindLease(c) PROVE ReplayInv'
    <2>1. CASE Goto(c, "fail")
      BY <1>9, <2>1, QuietGoto DEF FindLease, CallPc
    <2>2. ASSUME NEW k \in MatchingLeases(c),
                 call' = [call EXCEPT ![c].lease = k, ![c].pc = "claim"]
          PROVE  ReplayInv'
      <3>1. /\ call'[c].pc = "claim" /\ call'[c].fp = call[c].fp /\ call'[c].lease = k
            /\ \A d \in Caller : d # c => call'[d] = call[d]
        BY <2>2 DEF TypeOK, CallRecord
      <3>2. /\ k \in LeaseId /\ leases[k].status = "Active" /\ leases[k].inv = Inv(c)
            /\ leases[k].fingerprint = call[c].fp
        BY DEF MatchingLeases, Authorizing
      <3>3. CallOK(c)' /\ \A j \in LeaseId : ~ Holding(c, j)'
        BY <1>9, <3>1, <3>2, CallerFacts DEF CallOK, Holding, FindLease
      <3>4. Kept /\ UNCHANGED vote
        BY <1>9, UnchangedKept DEF FindLease
      <3>5. QED
        BY <3>1, <3>3, <3>4, CallerStep
    <2>3. QED
      BY <1>9, <2>1, <2>2 DEF FindLease
  <1>10. ASSUME NEW c \in Caller, ClaimLease(c) PROVE ReplayInv'
    <2> DEFINE k == call[c].lease
    <2>0. /\ CallOK(c) /\ k \in LeaseId /\ UNCHANGED <<approval, vote, uses>>
          /\ call[c].pc = "claim"
      BY <1>10, CallerFacts DEF CallOK, ClaimLease
    <2>1. CASE Return(c) /\ UNCHANGED leases
      BY <2>0, <2>1, QuietReturn, UnchangedKept
    <2>2. CASE Goto(c, "fail") /\ UNCHANGED leases
      BY <2>0, <2>2, QuietGoto DEF CallPc
    <2>3. CASE /\ Claimable(leases[k], call[c].fp)
               /\ leases' = [leases EXCEPT ![k].status = "Claimed"]
               /\ Goto(c, "prepare")
      <3>1. /\ leases[k].status = "Active" /\ leases[k] \in Lease /\ uses[k] = 0
        BY <2>0, <2>3 DEF Claimable, ReplayInv, LeaseOK, FingerprintOK, TypeOK
      <3>2. /\ leases'[k].status = "Claimed" /\ leases'[k].inv = leases[k].inv
            /\ leases'[k].fingerprint = leases[k].fingerprint
            /\ \A j \in LeaseId : j # k => leases'[j] = leases[j]
        BY <2>0, <2>3 DEF TypeOK, Lease
      <3>3. Kept
        BY <2>0, <3>1, <3>2 DEF Kept, ReplayInv, LeaseOK, FingerprintOK, ApprovalOK
      <3>4. /\ call'[c].pc = "prepare" /\ call'[c].fp = call[c].fp
            /\ call'[c].lease = k
            /\ \A d \in Caller : d # c => call'[d] = call[d]
        BY <2>3, GotoEffect DEF CallPc
      <3>5. CallOK(c)'
        BY <2>0, <3>1, <3>2, <3>4, CallerFacts DEF CallOK
      <3>6. \A d \in Caller : ~ Holding(d, k)
        BY <2>0, <3>1, NoLeaseIdAssumption DEF ReplayInv, CallOK, Holding
      <3>7. Exclusive'
        BY <3>4, <3>6 DEF ReplayInv, Exclusive, Holding
      <3>8. \A d \in Caller : d # c => CallOK(d)'
        BY <3>3, <3>4, KeptCall
      <3>9. QED
        BY <2>0, <3>3, <3>5, <3>7, <3>8, KeptRest DEF ReplayInv
    <2>4. QED
      BY <1>10, <2>1, <2>2, <2>3 DEF ClaimLease
  <1>11. ASSUME NEW c \in Caller, Prepare(c) PROVE ReplayInv'
    BY <1>11, QuietGoto, CallerFacts DEF Prepare, CallPc, CallOK
  <1>12. ASSUME NEW c \in Caller, ConsumeLease(c) PROVE ReplayInv'
    <2> DEFINE k == call[c].lease
    <2>0. /\ CallOK(c) /\ k \in LeaseId /\ UNCHANGED <<approval, vote, uses>>
          /\ leases[k] \in Lease /\ call[c].pc = "consume"
      BY <1>12, CallerFacts DEF CallOK, ConsumeLease, TypeOK
    <2>1. CASE UNCHANGED leases
      BY <1>12, <2>0, <2>1, QuietGoto DEF ConsumeLease, CallPc
    <2>2. CASE leases' = [leases EXCEPT ![k] = AfterConsume(leases[k])]
      <3>1. leases[k].fingerprint # NoFingerprint
        BY <2>0, NoFingerprintAssumption, NoLeaseIdAssumption DEF CallOK
      <3>2. /\ leases'[k].status = "Consumed" /\ leases'[k].inv = leases[k].inv
            /\ leases'[k].fingerprint = leases[k].fingerprint
            /\ \A j \in LeaseId : j # k => leases'[j] = leases[j]
        BY <2>0, <2>2, <3>1, ConsumeKeepsRequest DEF TypeOK
      <3>3. Kept
        BY <2>0, <3>2, NoLeaseIdAssumption DEF Kept, ReplayInv, LeaseOK, FingerprintOK, ApprovalOK, CallOK
      <3>4. /\ call'[c].pc = "complete" /\ call'[c].fp = call[c].fp
            /\ call'[c].lease = k
            /\ \A d \in Caller : d # c => call'[d] = call[d]
        BY <1>12, GotoEffect DEF ConsumeLease, CallPc
      <3>5. CallOK(c)' /\ \A j \in LeaseId : ~ Holding(c, j)'
        BY <2>0, <3>2, <3>4, CallerFacts DEF CallOK, Holding
      <3>6. QED
        BY <2>0, <3>3, <3>4, <3>5, CallerStep
    <2>3. QED
      BY <1>12, <2>1, <2>2 DEF ConsumeLease
  <1>13. ASSUME NEW c \in Caller, RevokeClaimed(c) PROVE ReplayInv'
    <2> DEFINE k == call[c].lease
    <2>0. /\ CallOK(c) /\ k \in LeaseId /\ UNCHANGED <<approval, vote, uses>>
      BY <1>13, CallerFacts DEF CallOK, RevokeClaimed
    <2>1. Kept
      BY <1>13, <2>0, RevokeKept, UnchangedKept, NoLeaseIdAssumption DEF RevokeClaimed, CallOK
    <2>2. QED
      BY <1>13, <2>0, <2>1, QuietReturn DEF RevokeClaimed
  <1>14. ASSUME NEW c \in Caller, Dispatch(c) PROVE ReplayInv'
    BY <1>14, EffectStep DEF Dispatch
  <1>15. ASSUME NEW c \in Caller, SpawnProcess(c) PROVE ReplayInv'
    BY <1>15, EffectStep DEF SpawnProcess
  <1>16. ASSUME NEW c \in Caller, CompleteObligations(c) PROVE ReplayInv'
    <2>1. Held(c) => call[c].lease \in LeaseId
      BY CallerFacts DEF Held
    <2>2. QED
      BY <1>16, <2>1, QuietGoto DEF CompleteObligations, CallPc
  <1>17. ASSUME NEW c \in Caller, CompleteRun(c) PROVE ReplayInv'
    BY <1>17, QuietReturn, UnchangedKept DEF CompleteRun
  <1>18. ASSUME NEW c \in Caller, FailRun(c) PROVE ReplayInv'
    <2>1. CASE call[c].pc = "failHeld"
      BY <1>18, <2>1, QuietGoto, CallerFacts DEF FailRun, CallPc, CallOK
    <2>2. CASE call[c].pc # "failHeld"
      BY <1>18, <2>2, QuietReturn, UnchangedKept DEF FailRun
    <2>3. QED
      BY <2>1, <2>2
  <1>19. ASSUME NEW a \in Approver, NEW i \in Invocation, ResolverRead(a, i) PROVE ReplayInv'
    <2>1. approval[i].fingerprint \in Fingerprint
      BY <1>19 DEF ResolverRead, ReplayInv, ApprovalOK
    <2>2. PICK next \in {"issue", "deny"} :
            /\ vote'[a] = [pc |-> next, lease |-> NoLeaseId, fp |-> approval[i].fingerprint]
            /\ \A b \in Approver : b # a => vote'[b] = vote[b]
      BY <1>19 DEF ResolverRead, TypeOK
    <2>3. VoteOK(a)'
      BY <2>1, <2>2 DEF VoteOK
    <2>4. Kept /\ UNCHANGED call
      BY <1>19, UnchangedKept DEF ResolverRead
    <2>5. QED
      BY <2>2, <2>3, <2>4, ApproverStep
  <1>20. ASSUME NEW a \in Approver, IssueLease(a) PROVE ReplayInv'
    <2>0. UNCHANGED <<approval, call, uses>> /\ vote[a].fp \in Fingerprint
      BY <1>20 DEF IssueLease, ReplayInv, VoteOK
    <2>1. CASE VoteReturn(a) /\ UNCHANGED leases
      BY <2>0, <2>1, VoteReturnEffect, VoteReturnedOK, UnchangedKept, ApproverStep
    <2>2. ASSUME NEW k \in LeaseId, NEW m \in MaxInvocations,
                 leases[k].status = "Absent",
                 leases' = [leases EXCEPT ![k] = NewLease(VoteInv(a), vote[a].fp, m)],
                 vote' = [vote EXCEPT ![a].pc = "approve", ![a].lease = k]
          PROVE  ReplayInv'
      <3>1. /\ leases'[k].status = "Active" /\ leases'[k].fingerprint = vote[a].fp
            /\ \A j \in LeaseId : j # k => leases'[j] = leases[j]
        BY <2>2 DEF NewLease, TypeOK
      <3>2. Kept
        BY <2>0, <2>2, <3>1 DEF Kept, ReplayInv, LeaseOK, FingerprintOK, ApprovalOK
      <3>3. /\ vote'[a].pc = "approve" /\ vote'[a].lease = k /\ vote'[a].fp = vote[a].fp
            /\ \A b \in Approver : b # a => vote'[b] = vote[b]
        BY <2>2 DEF TypeOK, VoteRecord
      <3>4. VoteOK(a)'
        BY <2>0, <3>1, <3>3 DEF VoteOK
      <3>5. QED
        BY <2>0, <3>2, <3>3, <3>4, ApproverStep
    <2>3. QED
      BY <1>20, <2>1, <2>2 DEF IssueLease
  <1>21. ASSUME NEW a \in Approver, Approve(a) PROVE ReplayInv'
    <2>0. UNCHANGED <<leases, call, uses>> /\ VoteOK(a)
      BY <1>21 DEF Approve, ReplayInv
    <2>1. Kept
      BY <1>21 DEF Approve, Kept, ReplayInv, ApprovalOK, LeaseOK, FingerprintOK, TypeOK, ApprovalRecord
    <2>2. CASE VoteReturn(a)
      BY <2>0, <2>1, <2>2, VoteReturnEffect, VoteReturnedOK, ApproverStep
    <2>3. CASE vote' = [vote EXCEPT ![a].pc = "revoke"]
      <3>1. /\ vote'[a].pc = "revoke" /\ vote'[a].lease = vote[a].lease
            /\ vote'[a].fp = vote[a].fp
            /\ \A b \in Approver : b # a => vote'[b] = vote[b]
        BY <2>3 DEF TypeOK, VoteRecord
      <3>2. VoteOK(a)'
        BY <1>21, <2>0, <3>1 DEF VoteOK, Approve
      <3>3. QED
        BY <2>0, <2>1, <3>1, <3>2, ApproverStep
    <2>4. QED
      BY <1>21, <2>2, <2>3 DEF Approve
  <1>22. ASSUME NEW a \in Approver, RollBackLease(a) PROVE ReplayInv'
    <2>0. /\ UNCHANGED <<approval, call, uses>> /\ vote[a].lease \in LeaseId
          /\ leases[vote[a].lease].status # "Absent"
      BY <1>22 DEF RollBackLease, ReplayInv, VoteOK
    <2>1. Kept
      BY <1>22, <2>0, RevokeKept, UnchangedKept DEF RollBackLease
    <2>2. QED
      BY <1>22, <2>0, <2>1, VoteReturnEffect, VoteReturnedOK, ApproverStep DEF RollBackLease
  <1>23. ASSUME NEW a \in Approver, Deny(a) PROVE ReplayInv'
    <2>1. Kept
      BY <1>23 DEF Deny, Kept, ReplayInv, ApprovalOK, LeaseOK, FingerprintOK, TypeOK, ApprovalRecord
    <2>2. QED
      BY <1>23, <2>1, VoteReturnEffect, VoteReturnedOK, ApproverStep DEF Deny
  <1>24. ASSUME NEW k \in LeaseId, Expire(k) PROVE ReplayInv'
    <2>1. /\ leases'[k].status = leases[k].status /\ leases'[k].inv = leases[k].inv
          /\ leases'[k].fingerprint = leases[k].fingerprint
          /\ \A j \in LeaseId : j # k => leases'[j] = leases[j]
      BY <1>24 DEF Expire, TypeOK, Lease
    <2>2. Kept /\ UNCHANGED <<call, vote>>
      BY <1>24, <2>1 DEF Expire, Kept, ReplayInv, LeaseOK, FingerprintOK, ApprovalOK
    <2>3. QED
      BY <2>2, KeptStep DEF Holding
  <1>25. ASSUME Crash PROVE ReplayInv'
    <2>1. /\ \A c \in Caller : call'[c] = NoCall
          /\ \A a \in Approver : vote'[a] = NoCall
      BY <1>25 DEF Crash
    <2>2. Kept
      BY <1>25, UnchangedKept DEF Crash
    <2>3. QED
      BY <2>1, <2>2, ReturnedOK, VoteReturnedOK, KeptStep
  <1>26. QED
    BY <1>1, <1>2, <1>3, <1>4, <1>5, <1>6, <1>7, <1>8, <1>9, <1>10, <1>11,
       <1>12, <1>13, <1>14, <1>15, <1>16, <1>17, <1>18, <1>19, <1>20, <1>21,
       <1>22, <1>23, <1>24, <1>25 DEF Next, CallStep,
       VoteStep

\* For any number of callers, approvers, leases and requests, whatever fails
\* and wherever the host stops, the state keeps its shape and the inductive
\* invariant holds.
THEOREM ReplayInvariant == Spec => [](TypeOK /\ ReplayInv)
  <1>1. Init => TypeOK /\ ReplayInv
    <2> SUFFICES ASSUME Init PROVE TypeOK /\ ReplayInv
      OBVIOUS
    <2>1. (CHOOSE i \in Invocation : TRUE) \in Invocation
      BY InvocationAssumption
    <2>2. NoLease \in Lease
      BY <2>1 DEF NoLease, Lease, LeaseStatus
    <2>3. NoCall \in CallRecord /\ NoCall \in VoteRecord
      BY DEF NoCall, CallRecord, VoteRecord, CallPc, VotePc
    <2>4. NoApproval \in ApprovalRecord
      BY DEF NoApproval, ApprovalRecord, ApprovalStatus
    <2>5. TypeOK
      BY <2>2, <2>3, <2>4 DEF Init, TypeOK, RunStatus
    <2>6. \A c \in Caller : CallOK(c)
      BY DEF Init, CallOK, NoCall
    <2>7. Exclusive
      BY DEF Init, Exclusive, Holding, NoCall
    <2>8. \A a \in Approver : VoteOK(a)
      BY DEF Init, VoteOK, NoCall
    <2>9. \A k \in LeaseId : LeaseOK(k)
      BY DEF Init, LeaseOK, FingerprintOK, NoLease
    <2>10. \A i \in Invocation : ApprovalOK(i)
      BY DEF Init, ApprovalOK, NoApproval
    <2>11. QED
      BY <2>5, <2>6, <2>7, <2>8, <2>9, <2>10 DEF ReplayInv
  <1>2. QED
    BY <1>1, TypeStep, ReplayStep, PTL DEF Spec

\* The type invariant, for every value of the constants.
THEOREM TypeCorrect == Spec => []TypeOK
  BY ReplayInvariant, PTL

\* A lease pays for at most one dispatch or spawn, however many resumes race
\* for it: the claim is exclusive, and a used lease never becomes active again.
THEOREM LeaseUsedOnce == Spec => []OneEffectPerLease
  <1>1. ReplayInv => OneEffectPerLease
    BY DEF ReplayInv, LeaseOK, FingerprintOK, OneEffectPerLease
  <1>2. QED
    BY <1>1, ReplayInvariant, PTL

\* What a used lease paid for is the very request that stands approved.
THEOREM ReplayNeedsApproval == Spec => []ReplayWasApproved
  <1>1. ReplayInv => ReplayWasApproved
    BY DEF ReplayInv, LeaseOK, FingerprintOK, ReplayWasApproved
  <1>2. QED
    BY <1>1, ReplayInvariant, PTL

-----------------------------------------------------------------------------
(* Runs, requests and side effects. *)

Busy(c) == call[c].pc # "idle"

\* A first invocation between its start and the write that ends it: it has not
\* been blocked, and it holds no lease.
Direct(c) ==
    \/ call[c].pc \in {"authorize", "block", "discard"}
    \/ call[c].pc \in {"dispatch", "settle", "complete"} /\ call[c].lease = NoLeaseId

\* Nobody else works on the invocation of c.
Alone(c) == \A d \in Caller : Busy(d) /\ Inv(d) = Inv(c) => d = c

\* A call in progress: its run exists, and is still Running while the call is
\* direct; no approval is asked for before the step that may block; nothing ran
\* before its dispatch, and something did after any dispatch.
CallRuns(c) ==
    /\ Busy(c) => run[Inv(c)] # "Absent"
    /\ Direct(c) => run[Inv(c)] = "Running"
    /\ Direct(c) /\ call[c].pc \notin {"block", "discard"} =>
         approval[Inv(c)].status = "Absent"
    /\ call[c].pc = "block" => approval[Inv(c)].status # "Absent"
    /\ Direct(c) /\ call[c].pc \in {"authorize", "dispatch"} => effects[Inv(c)] = 0
    /\ call[c].pc \in {"settle", "consume", "complete"} => effects[Inv(c)] > 0

\* What the stores say about an invocation agrees with what it did.
RunOK(i) ==
    /\ run[i] = "Absent" => effects[i] = 0 /\ approval[i].status = "Absent"
    /\ approval[i].status \in {"Pending", "Denied"} => effects[i] = 0
    /\ run[i] = "Completed" => effects[i] > 0
    /\ run[i] = "BlockedApproval" => approval[i].status # "Absent"

\* The inductive invariant, on top of ReplayInv: a direct call has its
\* invocation for itself, because only a blocked run is resumed.
RunInv ==
    /\ \A c \in Caller : CallRuns(c) /\ (Direct(c) => Alone(c))
    /\ \A i \in Invocation : RunOK(i)

\* A step of a busy caller that changes no other invocation keeps the
\* invariant, if it does so for the caller and its invocation.
LEMMA CallerMoves ==
    ASSUME TypeOK, ReplayInv, RunInv, NEW c \in Caller, Busy(c),
           NEW i \in Invocation, i = Inv(c),
           \A d \in Caller : d # c => call'[d] = call[d],
           Busy(c)' => call'[c].fp = call[c].fp,
           Direct(c)' => Direct(c),
           \A j \in Invocation : j # i =>
              run'[j] = run[j] /\ approval'[j] = approval[j] /\ effects'[j] = effects[j],
           run'[i] # "Absent",
           effects[i] > 0 => effects'[i] > 0,
           CallRuns(c)', RunOK(i)'
    PROVE  RunInv'
  <1>1. \A d \in Caller : Busy(d) => Inv(d) \in Invocation
    BY CallerFacts DEF Busy
  <1>2. \A d \in Caller : Busy(d)' => Busy(d) /\ Inv(d)' = Inv(d)
    BY DEF Busy, Inv
  <1>3. \A d \in Caller : Direct(d)' => Direct(d) /\ Busy(d)'
    BY DEF Direct, Busy
  <1>4. ASSUME NEW d \in Caller PROVE CallRuns(d)'
    <2>1. CASE d = c
      BY <2>1
    <2>2. CASE d # c /\ ~ Busy(d)
      <3>1. ~ Busy(d)' /\ ~ Direct(d)' /\ call'[d].pc = "idle"
        BY <2>2 DEF Busy, Direct
      <3>2. QED
        BY <3>1 DEF CallRuns
    <2>3. CASE d # c /\ Busy(d) /\ Inv(d) # Inv(c)
      <3>1. /\ Inv(d) \in Invocation /\ Inv(d)' = Inv(d) /\ call'[d] = call[d]
            /\ (Direct(d)' <=> Direct(d)) /\ (Busy(d)' <=> Busy(d))
        BY <1>1, <2>3 DEF Busy, Direct, Inv
      <3>2. /\ run'[Inv(d)] = run[Inv(d)] /\ approval'[Inv(d)] = approval[Inv(d)]
            /\ effects'[Inv(d)] = effects[Inv(d)]
        BY <2>3, <3>1
      <3>3. CallRuns(d)
        BY DEF RunInv
      <3>4. QED
        BY <3>1, <3>2, <3>3 DEF CallRuns
    <2>4. CASE d # c /\ Busy(d) /\ Inv(d) = Inv(c)
      <3>1. ~ Direct(d) /\ CallRuns(d)
        BY <2>4 DEF RunInv, Alone
      <3>2. /\ Inv(d)' = Inv(c) /\ call'[d] = call[d] /\ ~ Direct(d)'
        BY <2>4, <3>1 DEF Direct, Inv
      <3>3. call[d].pc \notin {"block", "authorize"}
        BY <3>1 DEF Direct
      <3>4. QED
        BY <2>4, <3>1, <3>2, <3>3 DEF CallRuns
    <2>5. QED
      BY <2>1, <2>2, <2>3, <2>4
  <1>5. ASSUME NEW d \in Caller, Direct(d)' PROVE Alone(d)'
    <2>1. Alone(d) /\ Inv(d)' = Inv(d)
      BY <1>2, <1>3, <1>5 DEF RunInv
    <2>2. QED
      BY <1>2, <2>1 DEF Alone
  <1>6. ASSUME NEW j \in Invocation PROVE RunOK(j)'
    BY DEF RunInv, RunOK
  <1>7. QED
    BY <1>4, <1>5, <1>6 DEF RunInv

\* A move that touches no run, approval or effect.
LEMMA QuietMove ==
    ASSUME TypeOK, ReplayInv, RunInv, NEW c \in Caller, Busy(c),
           \A d \in Caller : d # c => call'[d] = call[d],
           call'[c].pc # "idle" => call'[c].fp = call[c].fp,
           call'[c].pc \notin {"authorize", "block", "discard"},
           Direct(c)' => Direct(c) /\ call[c].pc \notin {"block", "discard"},
           Direct(c)' /\ call'[c].pc = "dispatch" => call[c].pc = "authorize",
           call'[c].pc \in {"settle", "consume", "complete"}
             => call[c].pc \in {"settle", "consume", "complete"},
           UNCHANGED <<run, approval, effects>>
    PROVE  RunInv'
  <1>1. CallRuns(c) /\ RunOK(Inv(c)) /\ Inv(c) \in Invocation
    BY CallerFacts DEF RunInv, Busy
  <1>2. Busy(c)' => call'[c].fp = call[c].fp /\ Inv(c)' = Inv(c)
    BY DEF Busy, Inv
  <1>3. PICK i \in Invocation : i = Inv(c) /\ run'[i] # "Absent" /\ RunOK(i)'
    <2>1. run[Inv(c)] # "Absent"
      BY <1>1 DEF CallRuns
    <2>2. \A i \in Invocation : RunOK(i) => RunOK(i)'
      BY DEF RunOK
    <2>3. QED
      BY <1>1, <2>1, <2>2
  <1>4. CallRuns(c)'
    <2>1. CASE ~ Busy(c)'
      BY <2>1 DEF CallRuns, Direct, Busy
    <2>2. CASE Busy(c)'
      BY <1>1, <1>2, <2>2 DEF CallRuns
    <2>3. QED
      BY <2>1, <2>2
  <1>5. QED
    BY <1>2, <1>3, <1>4, CallerMoves

\* A step that leaves the calls alone, and at most decides pending requests.
LEMMA DecideStep ==
    ASSUME TypeOK, ReplayInv, RunInv, UNCHANGED <<run, call, effects>>,
           \A i \in Invocation :
              \/ approval'[i] = approval[i]
              \/ /\ approval[i].status = "Pending"
                 /\ approval'[i].status \in {"Approved", "Denied"}
    PROVE  RunInv'
  <1>1. ASSUME NEW c \in Caller PROVE CallRuns(c)'
    <2>1. CallRuns(c) /\ (Busy(c) => Inv(c) \in Invocation)
      BY CallerFacts DEF RunInv, Busy
    <2>2. Inv(c)' = Inv(c) /\ (Direct(c)' <=> Direct(c)) /\ (Busy(c)' <=> Busy(c))
      BY DEF Inv, Direct, Busy
    <2>3. CASE ~ Busy(c)
      BY <2>2, <2>3 DEF CallRuns, Direct, Busy
    <2>4. CASE Busy(c)
      BY <2>1, <2>2, <2>4 DEF CallRuns
    <2>5. QED
      BY <2>3, <2>4
  <1>2. ASSUME NEW c \in Caller, Direct(c)' PROVE Alone(c)'
    BY <1>2 DEF RunInv, Direct, Alone, Busy, Inv
  <1>3. ASSUME NEW i \in Invocation PROVE RunOK(i)'
    BY DEF RunInv, RunOK
  <1>4. QED
    BY <1>1, <1>2, <1>3 DEF RunInv

\* A call that starts: for a first invocation there was no run, so nobody works
\* on it; a resume finds a blocked run, which no direct call has.
LEMMA CallerStarts ==
    ASSUME TypeOK, ReplayInv, RunInv, NEW c \in Caller, ~ Busy(c), NEW fp \in Fingerprint,
           \A d \in Caller : d # c => call'[d] = call[d],
           call'[c].fp = fp, call'[c].lease = NoLeaseId,
           \/ /\ call'[c].pc = "authorize"
              /\ run[InvocationOf[fp]] = "Absent"
              /\ run' = [run EXCEPT ![InvocationOf[fp]] = "Running"]
           \/ /\ call'[c].pc \in {"approval", "fail"}
              /\ run[InvocationOf[fp]] = "BlockedApproval" /\ UNCHANGED run,
           UNCHANGED <<approval, effects>>
    PROVE  RunInv'
  <1> DEFINE i == InvocationOf[fp]
  <1>1. /\ i \in Invocation /\ Inv(c)' = i /\ RunOK(i)
        /\ \/ call'[c].pc = "authorize" /\ run[i] = "Absent" /\ run'[i] = "Running"
           \/ /\ call'[c].pc \in {"approval", "fail"}
              /\ run[i] = "BlockedApproval" /\ run'[i] = run[i]
        /\ \A j \in Invocation : j # i => run'[j] = run[j]
    BY FingerprintAssumption DEF Inv, RunInv, TypeOK
  <1>2. \A d \in Caller : Busy(d) => Inv(d) \in Invocation /\ CallRuns(d)
    BY CallerFacts DEF RunInv, Busy
  <1>3. \A d \in Caller : d # c => /\ Inv(d)' = Inv(d) /\ (Busy(d)' <=> Busy(d))
                                   /\ (Direct(d)' <=> Direct(d)) /\ (Direct(d) => Busy(d))
    BY DEF Inv, Busy, Direct
  <1>4. \A d \in Caller : Busy(d) /\ run[i] = "Absent" => Inv(d) # i
    BY <1>2 DEF CallRuns
  <1>5. \A d \in Caller : Direct(d) /\ Busy(d) /\ run[i] = "BlockedApproval" => Inv(d) # i
    BY <1>2 DEF CallRuns
  <1>6. ASSUME NEW d \in Caller PROVE CallRuns(d)'
    <2>1. CASE d = c
      <3>1. UNCHANGED <<approval, effects>>
        OBVIOUS
      <3> HIDE DEF i
      <3>2. QED
        BY <1>1, <2>1, <3>1 DEF CallRuns, RunOK, Direct
    <2>2. CASE d # c /\ ~ Busy(d)
      <3>1. ~ Busy(d)' /\ ~ Direct(d)' /\ call'[d].pc = "idle"
        BY <1>3, <2>2 DEF Busy
      <3>2. QED
        BY <3>1 DEF CallRuns
    <2>3. CASE d # c /\ Busy(d)
      <3>1. /\ run'[Inv(d)] = run[Inv(d)] \/ (run[i] = "Absent" /\ Inv(d) = i)
            /\ Inv(d) \in Invocation /\ CallRuns(d)
        BY <1>1, <1>2, <2>3
      <3>2. run'[Inv(d)] = run[Inv(d)]
        BY <1>4, <2>3, <3>1
      <3>3. call'[d] = call[d]
        BY <2>3
      <3>4. QED
        BY <1>3, <2>3, <3>1, <3>2, <3>3 DEF CallRuns
    <2>4. QED
      BY <2>1, <2>2, <2>3
  <1>7. ASSUME NEW d \in Caller, Direct(d)' PROVE Alone(d)'
    <2>1. CASE d = c
      <3>1. run[i] = "Absent"
        BY <1>7, <2>1 DEF Direct
      <3>2. QED
        BY <1>1, <1>3, <1>4, <2>1, <3>1 DEF Alone
    <2>2. CASE d # c
      <3>1. Direct(d) /\ Busy(d) /\ Alone(d) /\ Inv(d) # i
        BY <1>3, <1>4, <1>5, <1>7, <2>2 DEF RunInv
      <3>2. QED
        BY <1>1, <1>3, <2>2, <3>1 DEF Alone
    <2>3. QED
      BY <2>1, <2>2
  <1>8. ASSUME NEW j \in Invocation PROVE RunOK(j)'
    <2>1. RunOK(j) /\ RunOK(i)
      BY <1>1 DEF RunInv
    <2>2. UNCHANGED <<approval, effects>>
      OBVIOUS
    <2> HIDE DEF i
    <2>3. QED
      BY <1>1, <2>1, <2>2 DEF RunOK
  <1>9. QED
    BY <1>6, <1>7, <1>8 DEF RunInv

\* The caller's share of the side effect: a direct call has asked for nothing
\* yet, and a replay runs on an approval that stands.
LEMMA EffectRuns ==
    ASSUME TypeOK, ReplayInv, RunInv, NEW c \in Caller, call[c].pc = "dispatch",
           RecordEffect(c), NEW pc \in CallPc, Goto(c, pc),
           IF Held(c) THEN pc \in {"settle", "consume", "failHeld"}
                      ELSE pc \in {"settle", "complete", "fail"},
           UNCHANGED <<run, approval>>
    PROVE  RunInv'
  <1>1. PICK i \in Invocation : i = Inv(c)
    BY CallerFacts
  <1>2. /\ Busy(c) /\ CallRuns(c) /\ CallOK(c) /\ RunOK(i) /\ effects[i] \in Nat
        /\ run[i] # "Absent"
    BY <1>1, CallerFacts DEF RunInv, Busy, CallRuns, TypeOK
  <1>3. /\ effects'[i] = effects[i] + 1
        /\ \A j \in Invocation : j # i => effects'[j] = effects[j]
    BY <1>1 DEF RecordEffect, TypeOK
  <1>4. /\ call'[c].pc = pc /\ call'[c].fp = call[c].fp /\ call'[c].lease = call[c].lease
        /\ \A d \in Caller : d # c => call'[d] = call[d]
    BY GotoEffect
  <1>5. approval[i].status \in {"Absent", "Approved"}
    <2>1. CASE Held(c)
      BY <1>1, <1>2, <2>1 DEF CallOK, Held
    <2>2. CASE ~ Held(c)
      BY <1>1, <1>2, <2>2 DEF CallRuns, Direct, Held
    <2>3. QED
      BY <2>1, <2>2
  <1>6. RunOK(i)'
    BY <1>2, <1>3, <1>5 DEF RunOK
  <1>7. Inv(c)' = i /\ Busy(c)'
    BY <1>1, <1>4 DEF Inv, Busy
  <1>8. Direct(c)' => Direct(c)
    BY <1>4 DEF Direct, Held
  <1>9. CallRuns(c)'
    <2>1. effects'[i] > 0
      BY <1>2, <1>3
    <2>2. /\ call[c].pc = "dispatch"
          /\ call'[c].pc \notin {"authorize", "dispatch", "block", "discard"}
      BY <1>4
    <2>3. QED
      BY <1>1, <1>2, <1>7, <1>8, <2>1, <2>2 DEF CallRuns
  <1>10. effects[i] > 0 => effects'[i] > 0
    BY <1>2, <1>3
  <1>11. QED
    BY <1>1, <1>2, <1>3, <1>4, <1>6, <1>8, <1>9, <1>10, CallerMoves

\* A step of a busy caller that writes the run of its invocation and returns or
\* moves on to a pc that promises nothing.
LEMMA RunWritten ==
    ASSUME TypeOK, ReplayInv, RunInv, NEW c \in Caller, Busy(c),
           \A d \in Caller : d # c => call'[d] = call[d],
           call'[c].pc \in {"idle", "revoke"},
           call'[c].pc # "idle" => call'[c].fp = call[c].fp,
           NEW st \in {"BlockedApproval", "Completed", "Failed"},
           run' = [run EXCEPT ![Inv(c)] = st],
           st = "BlockedApproval" => approval[Inv(c)].status # "Absent",
           st = "Completed" => effects[Inv(c)] > 0,
           UNCHANGED <<approval, effects>>
    PROVE  RunInv'
  <1>1. PICK i \in Invocation : i = Inv(c)
    BY CallerFacts DEF Busy
  <1>2. RunOK(i) /\ run'[i] = st /\ \A j \in Invocation : j # i => run'[j] = run[j]
    BY <1>1 DEF RunInv, TypeOK
  <1>3. RunOK(i)'
    BY <1>1, <1>2 DEF RunOK
  <1>4. Busy(c)' => Inv(c)' = i
    BY <1>1 DEF Busy, Inv
  <1>5. ~ Direct(c)' /\ call'[c].pc \notin {"authorize", "block", "settle", "consume", "complete"}
    BY DEF Direct
  <1>6. CallRuns(c)'
    BY <1>2, <1>4, <1>5 DEF CallRuns
  <1>7. QED
    <2>1. run'[i] # "Absent" /\ (Busy(c)' => call'[c].fp = call[c].fp)
      BY <1>2 DEF Busy
    <2>2. QED
      BY <1>1, <1>2, <1>3, <1>5, <1>6, <2>1, CallerMoves

\* Every step preserves the invariant.
LEMMA RunStep == TypeOK /\ ReplayInv /\ RunInv /\ [Next]_vars => RunInv'
  <1> SUFFICES ASSUME TypeOK, ReplayInv, RunInv, [Next]_vars PROVE RunInv'
    OBVIOUS
  <1>f. \A c \in Caller : CallRuns(c) /\ CallOK(c)
    BY DEF RunInv, ReplayInv
  <1>1. ASSUME NEW c \in Caller, NEW fp \in Fingerprint, Start(c, fp) PROVE RunInv'
    <2>1. /\ call'[c] = [pc |-> "authorize", fp |-> fp, lease |-> NoLeaseId]
          /\ \A d \in Caller : d # c => call'[d] = call[d]
          /\ ~ Busy(c)
      BY <1>1 DEF Start, At, TypeOK, Busy
    <2>2. /\ run[InvocationOf[fp]] = "Absent"
          /\ run' = [run EXCEPT ![InvocationOf[fp]] = "Running"]
          /\ UNCHANGED <<approval, effects>>
      BY <1>1 DEF Start
    <2>3. /\ call'[c].pc = "authorize" /\ call'[c].fp = fp /\ call'[c].lease = NoLeaseId
      BY <2>1
    <2>4. QED
      BY <2>1, <2>2, <2>3, CallerStarts
  <1>2. ASSUME NEW c \in Caller, NEW fp \in Fingerprint, ResumeRead(c, fp) PROVE RunInv'
    <2>1. PICK next \in {"approval", "fail"} :
            /\ call'[c] = [pc |-> next, fp |-> fp, lease |-> NoLeaseId]
            /\ \A d \in Caller : d # c => call'[d] = call[d]
      BY <1>2 DEF ResumeRead, TypeOK
    <2>2. ~ Busy(c)
      BY <1>2 DEF ResumeRead, At, Busy
    <2>3. QED
      BY <1>2, <2>1, <2>2, CallerStarts DEF ResumeRead
  <1>3. ASSUME NEW c \in Caller, AuthorizeAllow(c) \/ AuthorizeReject(c) PROVE RunInv'
    <2>1. PICK pc \in {"dispatch", "fail"} : Goto(c, pc)
      BY <1>3 DEF AuthorizeAllow, AuthorizeReject
    <2>2. /\ call'[c].pc = pc /\ call'[c].fp = call[c].fp
          /\ \A d \in Caller : d # c => call'[d] = call[d]
      BY <2>1, GotoEffect DEF CallPc
    <2>3. call[c].pc = "authorize" /\ UNCHANGED <<run, approval, effects>>
      BY <1>3 DEF AuthorizeAllow, AuthorizeReject, At
    <2>4. QED
      BY <2>2, <2>3, QuietMove DEF Busy, Direct
  <1>4. ASSUME NEW c \in Caller, SavePending(c) PROVE RunInv'
    <2>0. call[c].pc = "authorize" /\ UNCHANGED <<run, effects>>
      BY <1>4 DEF SavePending, At
    <2>1. CASE Goto(c, "fail") /\ UNCHANGED approval
      <3>1. /\ call'[c].pc = "fail" /\ call'[c].fp = call[c].fp
            /\ \A d \in Caller : d # c => call'[d] = call[d]
        BY <2>1, GotoEffect DEF CallPc
      <3>2. QED
        BY <2>0, <2>1, <3>1, QuietMove DEF Busy, Direct
    <2>2. CASE SaveApproval(Inv(c), call[c].fp) /\ Goto(c, "block")
      <3>1. PICK i \in Invocation : i = Inv(c)
        BY <2>0, CallerFacts
      <3>2. /\ approval'[i].status = "Pending"
            /\ \A j \in Invocation : j # i => approval'[j] = approval[j]
        BY <2>2, <3>1 DEF TypeOK
      <3>3. /\ call'[c].pc = "block" /\ call'[c].fp = call[c].fp
            /\ \A d \in Caller : d # c => call'[d] = call[d]
        BY <2>2, GotoEffect DEF CallPc
      <3>4. run[i] = "Running" /\ effects[i] = 0
        BY <1>f, <2>0, <3>1 DEF CallRuns, Direct
      <3>5. RunOK(i)'
        BY <2>0, <3>2, <3>4 DEF RunOK
      <3>6. Inv(c)' = i /\ Busy(c) /\ Direct(c)
        BY <2>0, <3>1, <3>3 DEF Inv, Busy, Direct
      <3>7. CallRuns(c)'
        BY <2>0, <3>2, <3>3, <3>4, <3>6 DEF CallRuns
      <3>8. QED
        BY <2>0, <3>1, <3>2, <3>3, <3>4, <3>5, <3>6, <3>7, CallerMoves
    <2>3. QED
      BY <1>4, <2>1, <2>2 DEF SavePending
  <1>5. ASSUME NEW c \in Caller, BlockApproval(c) PROVE RunInv'
    <2>0. call[c].pc = "block" /\ UNCHANGED <<approval, effects>> /\ Busy(c)
      BY <1>5 DEF BlockApproval, At, Busy
    <2>1. CASE SetRun(Inv(c), "BlockedApproval") /\ Return(c)
      <3>1. call'[c].pc = "idle" /\ \A d \in Caller : d # c => call'[d] = call[d]
        BY <2>1, ReturnEffect DEF NoCall
      <3>2. approval[Inv(c)].status # "Absent"
        BY <1>f, <2>0 DEF CallRuns
      <3>3. QED
        BY <2>0, <2>1, <3>1, <3>2, RunWritten
    <2>2. CASE Goto(c, "discard") /\ UNCHANGED run
      <3>1. PICK i \in Invocation : i = Inv(c)
        BY <2>0, CallerFacts
      <3>2. /\ call'[c].pc = "discard" /\ call'[c].fp = call[c].fp
            /\ \A d \in Caller : d # c => call'[d] = call[d]
        BY <2>2, GotoEffect DEF CallPc
      <3>3. run[i] = "Running" /\ RunOK(i)
        BY <1>f, <2>0, <3>1 DEF CallRuns, Direct, RunInv
      <3>4. RunOK(i)'
        BY <2>0, <2>2, <3>3 DEF RunOK
      <3>5. Inv(c)' = i /\ Direct(c)
        BY <2>0, <3>1, <3>2 DEF Inv, Direct
      <3>6. CallRuns(c)'
        BY <2>2, <3>2, <3>3, <3>5 DEF CallRuns
      <3>7. QED
        BY <2>0, <2>2, <3>1, <3>2, <3>3, <3>4, <3>5, <3>6, CallerMoves
    <2>3. QED
      BY <1>5, <2>1, <2>2 DEF BlockApproval
  <1>6. ASSUME NEW c \in Caller, DiscardPending(c) PROVE RunInv'
    <2>0. call[c].pc = "discard" /\ UNCHANGED <<run, effects>> /\ Busy(c)
      BY <1>6 DEF DiscardPending, At, Busy
    <2>1. PICK i \in Invocation : i = Inv(c)
      BY <2>0, CallerFacts
    <2>2. \A j \in Invocation : j # i => approval'[j] = approval[j]
      BY <1>6, <2>1 DEF DiscardPending, TypeOK
    <2>3. approval'[i] = approval[i] \/ (approval'[i] = NoApproval /\ approval[i].status = "Pending")
      BY <1>6, <2>1 DEF DiscardPending, TypeOK
    <2>4. /\ call'[c].pc = "fail" /\ call'[c].fp = call[c].fp
          /\ \A d \in Caller : d # c => call'[d] = call[d]
      BY <1>6, GotoEffect DEF DiscardPending, CallPc
    <2>5. run[i] = "Running" /\ RunOK(i)
      BY <1>f, <2>0, <2>1 DEF CallRuns, Direct, RunInv
    <2>6. RunOK(i)'
      BY <2>0, <2>3, <2>5 DEF RunOK, NoApproval
    <2>7. Inv(c)' = i /\ ~ Direct(c)'
      BY <2>1, <2>4 DEF Inv, Direct
    <2>8. CallRuns(c)'
      BY <2>0, <2>4, <2>5, <2>7 DEF CallRuns
    <2>9. QED
      BY <2>0, <2>1, <2>2, <2>4, <2>5, <2>6, <2>7, <2>8, CallerMoves
  <1>7. ASSUME NEW c \in Caller,
               ReadApproval(c) \/ FindLease(c) \/ ClaimLease(c) \/ Prepare(c)
                  \/ ConsumeLease(c) \/ RevokeClaimed(c)
        PROVE  RunInv'
    <2>0. /\ call[c].pc \in {"approval", "lease", "claim", "prepare", "consume", "revoke"}
          /\ UNCHANGED <<run, approval, effects>>
      BY <1>7 DEF At, ReadApproval, FindLease, ClaimLease, Prepare, ConsumeLease, RevokeClaimed
    <2>1. Busy(c) /\ (call[c].pc \in {"prepare", "consume"} => call[c].lease # NoLeaseId)
      BY <1>f, <2>0, NoLeaseIdAssumption DEF Busy, CallOK
    <2>2. CASE Return(c)
      <3>1. call'[c].pc = "idle" /\ \A d \in Caller : d # c => call'[d] = call[d]
        BY <2>2, ReturnEffect DEF NoCall
      <3>2. QED
        BY <2>0, <2>1, <3>1, QuietMove DEF Direct
    <2>3. ASSUME NEW pc \in {"fail", "lease", "prepare", "dispatch", "failHeld", "complete"},
                 Goto(c, pc),
                 pc = "complete" => call[c].pc = "consume",
                 pc = "dispatch" => call[c].pc = "prepare"
          PROVE  RunInv'
      <3>1. /\ call'[c].pc = pc /\ call'[c].fp = call[c].fp
            /\ call'[c].lease = call[c].lease
            /\ \A d \in Caller : d # c => call'[d] = call[d]
        BY <2>3, GotoEffect DEF CallPc
      <3>2. ~ Direct(c)'
        BY <2>1, <2>3, <3>1 DEF Direct
      <3>3. QED
        BY <2>0, <2>1, <2>3, <3>1, <3>2, QuietMove
    <2>4. ASSUME NEW k \in LeaseId,
                 call' = [call EXCEPT ![c].lease = k, ![c].pc = "claim"]
          PROVE  RunInv'
      <3>1. /\ call'[c].pc = "claim" /\ call'[c].fp = call[c].fp
            /\ \A d \in Caller : d # c => call'[d] = call[d]
        BY <2>4 DEF TypeOK, CallRecord
      <3>2. QED
        BY <2>0, <2>1, <3>1, QuietMove DEF Direct
    <2>5. CASE ReadApproval(c)
      BY <2>2, <2>3, <2>5 DEF ReadApproval, At
    <2>6. CASE FindLease(c)
      BY <2>3, <2>4, <2>6 DEF FindLease, At, MatchingLeases
    <2>7. CASE ClaimLease(c)
      BY <2>2, <2>3, <2>7 DEF ClaimLease, At
    <2>8. CASE Prepare(c)
      BY <2>3, <2>8 DEF Prepare, At
    <2>9. CASE ConsumeLease(c)
      BY <2>3, <2>9 DEF ConsumeLease, At
    <2>10. CASE RevokeClaimed(c)
      BY <2>2, <2>10 DEF RevokeClaimed
    <2>11. QED
      BY <1>7, <2>5, <2>6, <2>7, <2>8, <2>9, <2>10
  <1>8. ASSUME NEW c \in Caller, Dispatch(c) PROVE RunInv'
    <2>1. PICK pc \in {"settle", IF Held(c) THEN "failHeld" ELSE "fail"} : Goto(c, pc)
      BY <1>8 DEF Dispatch
    <2>2. QED
      BY <1>8, <2>1, EffectRuns DEF Dispatch, At, CallPc
  <1>9. ASSUME NEW c \in Caller, SpawnProcess(c) PROVE RunInv'
    <2>1. PICK pc \in {IF Held(c) THEN "consume" ELSE "complete",
                       IF Held(c) THEN "failHeld" ELSE "fail"} : Goto(c, pc)
      BY <1>9 DEF SpawnProcess
    <2>2. QED
      BY <1>9, <2>1, EffectRuns DEF SpawnProcess, At, CallPc
  <1>10. ASSUME NEW c \in Caller, CompleteObligations(c) PROVE RunInv'
    <2>0. call[c].pc = "settle" /\ UNCHANGED <<run, approval, effects>>
      BY <1>10 DEF CompleteObligations, At
    <2>1. PICK pc \in {IF Held(c) THEN "consume" ELSE "complete",
                       IF Held(c) THEN "failHeld" ELSE "fail"} : Goto(c, pc)
      BY <1>10 DEF CompleteObligations
    <2>2. /\ call'[c].pc = pc /\ call'[c].fp = call[c].fp
          /\ call'[c].lease = call[c].lease
          /\ \A d \in Caller : d # c => call'[d] = call[d]
      BY <2>1, GotoEffect DEF CallPc
    <2>3. QED
      BY <2>0, <2>1, <2>2, QuietMove DEF Busy, Direct, Held
  <1>11. ASSUME NEW c \in Caller, CompleteRun(c) PROVE RunInv'
    <2>0. /\ call[c].pc = "complete" /\ Busy(c) /\ UNCHANGED <<approval, effects>>
          /\ effects[Inv(c)] > 0
      BY <1>11, <1>f DEF CompleteRun, At, Busy, CallRuns
    <2>1. call'[c].pc = "idle" /\ \A d \in Caller : d # c => call'[d] = call[d]
      BY <1>11, ReturnEffect DEF CompleteRun, NoCall
    <2>2. CASE SetRun(Inv(c), "Completed")
      BY <2>0, <2>1, <2>2, RunWritten
    <2>3. CASE UNCHANGED run
      BY <2>0, <2>1, <2>3, QuietMove DEF Direct
    <2>4. QED
      BY <1>11, <2>2, <2>3 DEF CompleteRun
  <1>12. ASSUME NEW c \in Caller, FailRun(c) PROVE RunInv'
    <2>0. Busy(c) /\ UNCHANGED <<approval, effects>>
      BY <1>12 DEF FailRun, At, Busy
    <2>1. /\ call'[c].pc \in {"idle", "revoke"}
          /\ call'[c].pc # "idle" => call'[c].fp = call[c].fp
          /\ \A d \in Caller : d # c => call'[d] = call[d]
      BY <1>12, GotoEffect, ReturnEffect DEF FailRun, NoCall, CallPc
    <2>2. CASE SetRun(Inv(c), "Failed")
      BY <2>0, <2>1, <2>2, RunWritten
    <2>3. CASE UNCHANGED run
      BY <2>0, <2>1, <2>3, QuietMove DEF Direct
    <2>4. QED
      BY <1>12, <2>2, <2>3 DEF FailRun
  <1>13. ASSUME NEW a \in Approver, NEW i \in Invocation, ResolverRead(a, i) PROVE RunInv'
    BY <1>13, DecideStep DEF ResolverRead
  <1>14. ASSUME NEW a \in Approver, VoteStep(a) PROVE RunInv'
    <2>1. UNCHANGED <<run, call, effects>>
      BY <1>14 DEF VoteStep, IssueLease, Approve, RollBackLease, Deny
    <2>2. ASSUME NEW i \in Invocation
          PROVE  \/ approval'[i] = approval[i]
                 \/ /\ approval[i].status = "Pending"
                    /\ approval'[i].status \in {"Approved", "Denied"}
      <3>1. approval \in [Invocation -> ApprovalRecord]
        BY DEF TypeOK
      <3>2. QED
        BY <1>14, <3>1 DEF VoteStep, IssueLease, Approve, RollBackLease, Deny, ApprovalRecord
    <2>3. QED
      BY <2>1, <2>2, DecideStep
  <1>15. ASSUME NEW k \in LeaseId, Expire(k) PROVE RunInv'
    BY <1>15, DecideStep DEF Expire
  <1>16. CASE Crash
    <2>1. /\ UNCHANGED <<run, approval, effects>>
          /\ \A c \in Caller : call'[c].pc = "idle"
      BY <1>16 DEF Crash, NoCall
    <2>2. \A c \in Caller : CallRuns(c)' /\ ~ Direct(c)'
      BY <2>1 DEF CallRuns, Direct, Busy
    <2>3. \A i \in Invocation : RunOK(i)'
      BY <2>1 DEF RunInv, RunOK
    <2>4. QED
      BY <2>2, <2>3 DEF RunInv
  <1>17. CASE UNCHANGED vars
    BY <1>17, DecideStep DEF vars
  <1>18. QED
    BY <1>1, <1>2, <1>3, <1>4, <1>5, <1>6, <1>7, <1>8, <1>9, <1>10, <1>11, <1>12, <1>13,
       <1>14, <1>15, <1>16, <1>17 DEF Next, CallStep

\* The stores agree with what ran, at every moment.
LEMMA RunInvariant == Spec => []RunInv
  <1>1. Init => RunInv
    <2> SUFFICES ASSUME Init PROVE RunInv
      OBVIOUS
    <2>1. \A c \in Caller : CallRuns(c) /\ ~ Direct(c)
      BY DEF Init, NoCall, CallRuns, Direct, Busy
    <2>2. \A i \in Invocation : RunOK(i)
      BY DEF Init, NoApproval, RunOK
    <2>3. QED
      BY <2>1, <2>2 DEF RunInv
  <1>2. QED
    BY <1>1, RunStep, ReplayInvariant, PTL DEF Spec

\* Nothing ever runs for an invocation whose approval was denied: only what was
\* allowed outright, before any approval was asked for, or what stands approved
\* reaches the dispatcher, and neither can be denied any more.
THEOREM DenialIsFinal == Spec => []DeniedNeverRuns
  <1>1. RunInv => DeniedNeverRuns
    BY DEF RunInv, RunOK, DeniedNeverRuns
  <1>2. QED
    BY <1>1, RunInvariant, PTL

\* A run is recorded as completed only after its side effect.
THEOREM CompletionIsEarned == Spec => []CompletedDidRun
  <1>1. RunInv => CompletedDidRun
    BY DEF RunInv, RunOK, CompletedDidRun
  <1>2. QED
    BY <1>1, RunInvariant, PTL

\* A blocked run always has its approval request in the store, although the
\* request is saved in one step and the run blocked in another, and a failure
\* between the two discards the request again.
THEOREM BlockedRunIsBacked == Spec => []BlockedRunHasRequest
  <1>1. RunInv => BlockedRunHasRequest
    BY DEF RunInv, RunOK, BlockedRunHasRequest
  <1>2. QED
    BY <1>1, RunInvariant, PTL

-----------------------------------------------------------------------------
(* Rollback. *)

\* An approver holds the lease it issued for the request it read.
VoteBacks(a) ==
    vote[a].pc \in {"approve", "revoke"} => leases[vote[a].lease].inv = VoteInv(a)

\* The inductive invariant, on top of ReplayInv.
BackedInv == ActiveLeaseIsBacked /\ \A a \in Approver : VoteBacks(a)

\* A step of the stores' other users: no lease becomes active, none changes its
\* invocation, and the approvers stand still.
LEMMA BackedKept ==
    ASSUME TypeOK, ReplayInv, BackedInv, Kept, UNCHANGED vote,
           \A k \in LeaseId : leases'[k].status = "Active" => leases[k].status = "Active"
    PROVE  BackedInv'
  <1>1. ASSUME NEW k \in LeaseId, leases'[k].status = "Active"
        PROVE  \/ approval'[leases'[k].inv].status = "Approved"
               \/ \E a \in Approver : vote'[a].pc \in {"approve", "revoke"} /\ vote'[a].lease = k
    <2>1. leases[k].status = "Active" /\ leases[k].inv \in Invocation
      BY <1>1 DEF TypeOK, Lease
    <2>2. leases'[k].inv = leases[k].inv
      BY <2>1 DEF Kept
    <2>3. QED
      BY <2>1, <2>2 DEF BackedInv, ActiveLeaseIsBacked, Kept
  <1>2. ASSUME NEW a \in Approver PROVE VoteBacks(a)'
    <2>1. VoteOK(a) /\ VoteBacks(a)
      BY DEF ReplayInv, BackedInv
    <2>2. vote'[a] = vote[a] /\ VoteInv(a)' = VoteInv(a)
      BY DEF VoteInv
    <2>3. QED
      BY <2>1, <2>2 DEF VoteOK, VoteBacks, Kept
  <1>3. QED
    BY <1>1, <1>2 DEF BackedInv, ActiveLeaseIsBacked

\* A step of one approver: the leases it leaves active are backed, and no other
\* lease changes.
LEMMA BackedVote ==
    ASSUME TypeOK, ReplayInv, BackedInv, NEW a \in Approver,
           \A b \in Approver : b # a => vote'[b] = vote[b],
           \A i \in Invocation : approval[i].status = "Approved" => approval'[i].status = "Approved",
           \A k \in LeaseId :
              \/ leases'[k] = leases[k]
              \/ leases[k].status = "Absent"
              \/ leases'[k].status # "Active" /\ leases'[k].inv = leases[k].inv,
           \A k \in LeaseId :
              leases'[k].status = "Active" /\ (vote[a].lease = k \/ leases[k].status = "Absent") =>
                 \/ approval'[leases'[k].inv].status = "Approved"
                 \/ vote'[a].pc \in {"approve", "revoke"} /\ vote'[a].lease = k,
           VoteBacks(a)'
    PROVE  BackedInv'
  <1>1. ASSUME NEW k \in LeaseId, leases'[k].status = "Active"
        PROVE  \/ approval'[leases'[k].inv].status = "Approved"
               \/ \E b \in Approver : vote'[b].pc \in {"approve", "revoke"} /\ vote'[b].lease = k
    <2>1. CASE vote[a].lease = k \/ leases[k].status = "Absent"
      BY <1>1, <2>1
    <2>2. CASE vote[a].lease # k /\ leases[k].status # "Absent"
      <3>1. leases'[k] = leases[k] /\ leases[k].inv \in Invocation
        BY <1>1, <2>2 DEF TypeOK, Lease
      <3>2. \/ approval[leases[k].inv].status = "Approved"
            \/ \E b \in Approver : vote[b].pc \in {"approve", "revoke"} /\ vote[b].lease = k
        BY <1>1, <3>1 DEF BackedInv, ActiveLeaseIsBacked
      <3>3. QED
        BY <2>2, <3>1, <3>2
    <2>3. QED
      BY <2>1, <2>2
  <1>2. ASSUME NEW b \in Approver PROVE VoteBacks(b)'
    <2>1. CASE b = a
      BY <2>1
    <2>2. CASE b # a
      <3>1. VoteOK(b) /\ VoteBacks(b) /\ vote'[b] = vote[b] /\ VoteInv(b)' = VoteInv(b)
        BY <2>2 DEF ReplayInv, BackedInv, VoteInv
      <3>2. QED
        BY <3>1 DEF VoteOK, VoteBacks
    <2>3. QED
      BY <2>1, <2>2
  <1>3. QED
    BY <1>1, <1>2 DEF BackedInv, ActiveLeaseIsBacked

\* While no store call fails and the host does not stop, every step preserves
\* the invariant: an approver that comes too late takes its lease back.
LEMMA BackedStep ==
    ASSUME ~ StoreFaults, ~ Crashes
    PROVE  TypeOK /\ ReplayInv /\ BackedInv /\ [Next]_vars => BackedInv'
  <1> SUFFICES ASSUME TypeOK, ReplayInv, BackedInv, [Next]_vars PROVE BackedInv'
    OBVIOUS
  <1>a. approval \in [Invocation -> ApprovalRecord] /\ leases \in [LeaseId -> Lease]
    BY DEF TypeOK
  <1>u. ASSUME UNCHANGED <<approval, leases, uses, vote>> PROVE BackedInv'
    BY <1>u, UnchangedKept, BackedKept
  <1>1. ASSUME NEW c \in Caller, NEW fp \in Fingerprint, Start(c, fp) \/ ResumeRead(c, fp)
        PROVE  BackedInv'
    BY <1>1, <1>u DEF Start, ResumeRead
  <1>2. ASSUME NEW c \in Caller,
               AuthorizeAllow(c) \/ AuthorizeReject(c) \/ BlockApproval(c) \/ ReadApproval(c)
                  \/ FindLease(c) \/ Prepare(c) \/ CompleteObligations(c) \/ CompleteRun(c)
                  \/ FailRun(c)
        PROVE  BackedInv'
    BY <1>2, <1>u DEF AuthorizeAllow, AuthorizeReject, BlockApproval, ReadApproval, FindLease,
       Prepare, CompleteObligations, CompleteRun, FailRun
  <1>3. ASSUME NEW c \in Caller, SavePending(c) \/ DiscardPending(c) PROVE BackedInv'
    <2>1. UNCHANGED <<leases, uses, vote>>
      BY <1>3 DEF SavePending, DiscardPending
    <2>2. \A i \in Invocation : approval[i].status = "Approved" => approval'[i] = approval[i]
      BY <1>3, <1>a DEF SavePending, DiscardPending, ApprovalRecord
    <2>3. \A i \in Invocation : ApprovalOK(i)'
      <3>1. call[c].fp \in Fingerprint
        BY <1>3, CallerFacts DEF SavePending, DiscardPending, At
      <3>2. QED
        BY <1>3, <1>a, <3>1 DEF SavePending, DiscardPending, ReplayInv, ApprovalOK, NoApproval
    <2>4. Kept
      BY <2>1, <2>2, <2>3 DEF Kept, ReplayInv, LeaseOK, FingerprintOK
    <2>5. QED
      BY <2>1, <2>4, BackedKept
  <1>4. ASSUME NEW c \in Caller, ClaimLease(c) \/ ConsumeLease(c) \/ RevokeClaimed(c)
        PROVE  BackedInv'
    <2> DEFINE k == call[c].lease
    <2>0. /\ CallOK(c) /\ k \in LeaseId /\ leases[k] \in Lease
          /\ leases[k].status # "Absent" /\ leases[k].fingerprint \in Fingerprint
          /\ UNCHANGED <<approval, uses, vote>>
      <3>1. CallOK(c) /\ k \in LeaseId
        BY <1>4, CallerFacts DEF ClaimLease, ConsumeLease, RevokeClaimed, At, CallOK
      <3>2. leases[k].status # "Absent" /\ leases[k] \in Lease
        BY <1>a, <3>1, NoLeaseIdAssumption DEF CallOK
      <3>3. QED
        BY <1>4, <3>1, <3>2 DEF ClaimLease, ConsumeLease, RevokeClaimed, ReplayInv, LeaseOK, FingerprintOK
    <2>1. CASE UNCHANGED leases
      BY <1>u, <2>0, <2>1
    <2>2. ASSUME NEW l \in Lease, leases' = [leases EXCEPT ![k] = l],
                 l.status \in {"Claimed", "Consumed", "Revoked"},
                 l.inv = leases[k].inv, l.fingerprint = leases[k].fingerprint
          PROVE  BackedInv'
      <3>1. leases'[k] = l /\ \A j \in LeaseId : j # k => leases'[j] = leases[j]
        BY <1>a, <2>0, <2>2
      <3>2. Kept
        BY <2>0, <2>2, <3>1 DEF Kept, ReplayInv, LeaseOK, FingerprintOK, ApprovalOK
      <3>3. \A j \in LeaseId : leases'[j].status = "Active" => leases[j].status = "Active"
        BY <2>0, <2>2, <3>1
      <3>4. QED
        BY <2>0, <3>2, <3>3, BackedKept
    <2>3. CASE leases' = [leases EXCEPT ![k].status = "Claimed"]
      <3>1. leases' = [leases EXCEPT ![k] = [leases[k] EXCEPT !.status = "Claimed"]]
        BY <2>3
      <3>2. QED
        BY <2>0, <2>2, <3>1 DEF Lease, LeaseStatus
    <2>4. CASE leases' = [leases EXCEPT ![k].status = "Revoked"]
      <3>1. leases' = [leases EXCEPT ![k] = [leases[k] EXCEPT !.status = "Revoked"]]
        BY <2>4
      <3>2. QED
        BY <2>0, <2>2, <3>1 DEF Lease, LeaseStatus
    <2>5. CASE Consumable(leases[k]) /\ leases' = [leases EXCEPT ![k] = AfterConsume(leases[k])]
      <3>1. /\ AfterConsume(leases[k]) \in Lease
            /\ AfterConsume(leases[k]).inv = leases[k].inv
            /\ AfterConsume(leases[k]).fingerprint = leases[k].fingerprint
            /\ AfterConsume(leases[k]).status = "Consumed"
        BY <2>0, <2>5, ConsumeKeepsLease, ConsumeKeepsRequest, NoFingerprintAssumption
      <3>2. QED
        BY <2>2, <2>5, <3>1
    <2>6. QED
      BY <1>4, <2>1, <2>3, <2>4, <2>5 DEF ClaimLease, ConsumeLease, RevokeClaimed
  <1>5. ASSUME NEW c \in Caller, Dispatch(c) \/ SpawnProcess(c) PROVE BackedInv'
    <2>1. UNCHANGED <<approval, leases, vote>>
      BY <1>5 DEF Dispatch, SpawnProcess
    <2>2. QED
      BY <2>1 DEF BackedInv, ActiveLeaseIsBacked, VoteBacks, VoteInv
  <1>6. ASSUME NEW a \in Approver, NEW i \in Invocation, ResolverRead(a, i) PROVE BackedInv'
    <2>1. /\ vote'[a].pc \in {"issue", "deny"} /\ vote[a].pc = "idle"
          /\ \A b \in Approver : b # a => vote'[b] = vote[b]
          /\ UNCHANGED <<approval, leases>>
      BY <1>6 DEF ResolverRead, VoteAt, TypeOK
    <2>2. ASSUME NEW k \in LeaseId, leases'[k].status = "Active"
          PROVE  \/ approval'[leases'[k].inv].status = "Approved"
                 \/ \E b \in Approver : vote'[b].pc \in {"approve", "revoke"} /\ vote'[b].lease = k
      <3>1. \/ approval[leases[k].inv].status = "Approved"
            \/ \E b \in Approver : vote[b].pc \in {"approve", "revoke"} /\ vote[b].lease = k
        BY <2>1, <2>2 DEF BackedInv, ActiveLeaseIsBacked
      <3>2. QED
        BY <2>1, <3>1
    <2>3. \A b \in Approver : VoteBacks(b)'
      BY <2>1 DEF BackedInv, VoteBacks, VoteInv
    <2>4. QED
      BY <2>2, <2>3 DEF BackedInv, ActiveLeaseIsBacked
  <1>7. ASSUME NEW a \in Approver, IssueLease(a) PROVE BackedInv'
    <2>1. PICK k \in LeaseId, n \in MaxInvocations :
            /\ leases[k].status = "Absent"
            /\ leases' = [leases EXCEPT ![k] = NewLease(VoteInv(a), vote[a].fp, n)]
            /\ vote' = [vote EXCEPT ![a].pc = "approve", ![a].lease = k]
      BY <1>7 DEF IssueLease
    <2>2. /\ leases'[k].inv = VoteInv(a)
          /\ \A j \in LeaseId : j # k => leases'[j] = leases[j]
      BY <1>a, <2>1 DEF NewLease
    <2>3. /\ vote'[a].pc = "approve" /\ vote'[a].lease = k /\ vote'[a].fp = vote[a].fp
          /\ \A b \in Approver : b # a => vote'[b] = vote[b]
      BY <2>1 DEF TypeOK, VoteRecord
    <2>4. approval' = approval /\ vote[a].pc = "issue"
      BY <1>7 DEF IssueLease, VoteAt
    <2>5. ASSUME NEW j \in LeaseId, leases'[j].status = "Active"
          PROVE  \/ approval'[leases'[j].inv].status = "Approved"
                 \/ \E b \in Approver : vote'[b].pc \in {"approve", "revoke"} /\ vote'[b].lease = j
      <3>1. CASE j = k
        BY <2>3, <3>1
      <3>2. CASE j # k
        <4>1. \/ approval[leases[j].inv].status = "Approved"
              \/ \E b \in Approver : vote[b].pc \in {"approve", "revoke"} /\ vote[b].lease = j
          BY <2>2, <2>5, <3>2 DEF BackedInv, ActiveLeaseIsBacked
        <4>2. QED
          BY <2>2, <2>3, <2>4, <3>2, <4>1
      <3>3. QED
        BY <3>1, <3>2
    <2>6. ASSUME NEW b \in Approver PROVE VoteBacks(b)'
      <3>1. CASE b = a
        BY <2>2, <2>3, <3>1 DEF VoteBacks, VoteInv
      <3>2. CASE b # a
        <4>1. VoteOK(b) /\ VoteBacks(b) /\ vote'[b] = vote[b]
          BY <2>3, <3>2 DEF ReplayInv, BackedInv
        <4>2. QED
          BY <2>1, <2>2, <4>1 DEF VoteOK, VoteBacks, VoteInv
      <3>3. QED
        BY <3>1, <3>2
    <2>7. QED
      BY <2>5, <2>6 DEF BackedInv, ActiveLeaseIsBacked
  <1>8. ASSUME NEW a \in Approver, Approve(a) PROVE BackedInv'
    <2>0. /\ vote[a].pc = "approve" /\ vote[a].fp \in Fingerprint /\ vote[a].lease \in LeaseId
          /\ leases' = leases /\ leases[vote[a].lease].inv = VoteInv(a)
          /\ VoteInv(a) \in Invocation
      BY <1>8, FingerprintAssumption
         DEF Approve, VoteAt, ReplayInv, VoteOK, BackedInv, VoteBacks, VoteInv
    <2>1. \A i \in Invocation : approval[i].status = "Approved" => approval'[i].status = "Approved"
      BY <1>8, <1>a DEF Approve, ApprovalRecord
    <2>2. \/ vote'[a] = NoCall /\ approval'[VoteInv(a)].status = "Approved"
          \/ vote'[a].pc = "revoke" /\ vote'[a].lease = vote[a].lease /\ vote'[a].fp = vote[a].fp
      <3>1. CASE ResolveApproval(VoteInv(a), "Approved") /\ VoteReturn(a)
        BY <1>a, <2>0, <3>1, VoteReturnEffect DEF ApprovalRecord
      <3>2. CASE vote' = [vote EXCEPT ![a].pc = "revoke"]
        BY <3>2 DEF TypeOK, VoteRecord
      <3>3. QED
        BY <1>8, <3>1, <3>2 DEF Approve
    <2>3. \A b \in Approver : b # a => vote'[b] = vote[b]
      BY <1>8, VoteReturnEffect DEF Approve, TypeOK
    <2>4. VoteBacks(a)'
      BY <2>0, <2>2 DEF VoteBacks, VoteInv, NoCall
    <2>5. QED
      BY <2>0, <2>1, <2>2, <2>3, <2>4, BackedVote DEF ReplayInv
  <1>9. ASSUME NEW a \in Approver, RollBackLease(a) PROVE BackedInv'
    <2>0. vote[a].lease \in LeaseId /\ approval' = approval
      BY <1>9 DEF RollBackLease, VoteAt, ReplayInv, VoteOK
    <2>1. /\ leases'[vote[a].lease].status = "Revoked"
          /\ leases'[vote[a].lease].inv = leases[vote[a].lease].inv
          /\ \A j \in LeaseId : j # vote[a].lease => leases'[j] = leases[j]
      BY <1>9, <1>a, <2>0 DEF RollBackLease, Lease
    <2>2. vote'[a] = NoCall /\ \A b \in Approver : b # a => vote'[b] = vote[b]
      BY <1>9, VoteReturnEffect DEF RollBackLease
    <2>3. VoteBacks(a)'
      BY <2>2 DEF VoteBacks, NoCall
    <2>4. QED
      BY <2>0, <2>1, <2>2, <2>3, BackedVote
  <1>10. ASSUME NEW a \in Approver, Deny(a) PROVE BackedInv'
    <2>1. vote[a].pc = "deny" /\ leases' = leases
      BY <1>10 DEF Deny, VoteAt
    <2>2. \A i \in Invocation : approval[i].status = "Approved" => approval'[i].status = "Approved"
      BY <1>10, <1>a DEF Deny, ApprovalRecord
    <2>3. vote'[a] = NoCall /\ \A b \in Approver : b # a => vote'[b] = vote[b]
      BY <1>10, VoteReturnEffect DEF Deny
    <2>4. ASSUME NEW k \in LeaseId, leases'[k].status = "Active"
          PROVE  \/ approval'[leases'[k].inv].status = "Approved"
                 \/ \E b \in Approver : vote'[b].pc \in {"approve", "revoke"} /\ vote'[b].lease = k
      <3>1. /\ leases[k].inv \in Invocation
            /\ \/ approval[leases[k].inv].status = "Approved"
               \/ \E b \in Approver : vote[b].pc \in {"approve", "revoke"} /\ vote[b].lease = k
        BY <1>a, <2>1, <2>4 DEF BackedInv, ActiveLeaseIsBacked, Lease
      <3>2. QED
        BY <2>1, <2>2, <2>3, <3>1
    <2>5. \A b \in Approver : VoteBacks(b)'
      BY <2>1, <2>3 DEF BackedInv, VoteBacks, VoteInv, NoCall
    <2>6. QED
      BY <2>4, <2>5 DEF BackedInv, ActiveLeaseIsBacked
  <1>11. ASSUME NEW k \in LeaseId, Expire(k) PROVE BackedInv'
    <2>1. /\ leases'[k].status = leases[k].status /\ leases'[k].inv = leases[k].inv
          /\ leases'[k].fingerprint = leases[k].fingerprint
          /\ \A j \in LeaseId : j # k => leases'[j] = leases[j]
      BY <1>11, <1>a DEF Expire, Lease
    <2>2. Kept /\ UNCHANGED vote
      BY <1>11, <2>1 DEF Expire, Kept, ReplayInv, LeaseOK, FingerprintOK, ApprovalOK
    <2>3. QED
      BY <2>1, <2>2, BackedKept
  <1>12. CASE UNCHANGED vars
    BY <1>12, <1>u DEF vars
  <1>13. QED
    BY <1>1, <1>2, <1>3, <1>4, <1>5, <1>6, <1>7, <1>8, <1>9, <1>10, <1>11, <1>12
       DEF Next, CallStep, VoteStep, Crash

\* No authority outlives its rollback: as long as no store call fails and the
\* host does not stop, an active lease belongs to a request that stands
\* approved, or the approver that issued it is still to decide or revoke it.
\* With a failing revoke, or a stop between issue and approve, the code
\* leaves such a lease behind.
THEOREM RollbackLeavesNoLease ==
    ASSUME ~ StoreFaults, ~ Crashes
    PROVE  Spec => []ActiveLeaseIsBacked
  <1>1. Init => BackedInv
    <2> SUFFICES ASSUME Init PROVE BackedInv
      OBVIOUS
    <2>1. \A k \in LeaseId : leases[k].status = "Absent"
      BY DEF Init, NoLease
    <2>2. \A a \in Approver : vote[a].pc = "idle"
      BY DEF Init, NoCall
    <2>3. QED
      BY <2>1, <2>2 DEF BackedInv, ActiveLeaseIsBacked, VoteBacks
  <1>2. BackedInv => ActiveLeaseIsBacked
    BY DEF BackedInv
  <1>3. QED
    BY <1>1, <1>2, BackedStep, ReplayInvariant, PTL DEF Spec

-----------------------------------------------------------------------------
(* The host implements ApprovedReplay. *)

\* The grants of a state.
Grants == [k \in LeaseId |-> leases[k].fingerprint]

\* Claim, consume, revoke and the clock leave a lease the request it is for.
LEMMA SameGrant ==
    ASSUME TypeOK, NEW k \in LeaseId, NEW l \in Lease,
           l.fingerprint = leases[k].fingerprint,
           leases' = [leases EXCEPT ![k] = l]
    PROVE  Grants' = Grants
  <1>1. ASSUME NEW j \in LeaseId PROVE leases'[j].fingerprint = leases[j].fingerprint
    BY DEF TypeOK
  <1>2. QED
    BY <1>1 DEF Grants

\* A side effect is the outright run of an invocation that never asked, or the
\* one replay that an approved request and an unused grant permit.
LEMMA EffectIsPermitted ==
    ASSUME TypeOK, ReplayInv, RunInv, NEW c \in Caller, call[c].pc = "dispatch",
           RecordEffect(c), UNCHANGED <<approval, leases>>
    PROVE  Replay!Next
  <1>1. /\ call[c].fp \in Fingerprint /\ Inv(c) \in Invocation
        /\ CallOK(c) /\ CallRuns(c) /\ Inv(c) = InvocationOf[call[c].fp]
    BY CallerFacts DEF ReplayInv, RunInv, CallOK, Inv
  <1>2. Grants' = Grants
    BY DEF Grants
  <1>3. CASE ~ Held(c)
    <2>1. Direct(c)
      BY <1>3 DEF Direct, Held
    <2>2. approval[Inv(c)].status = "Absent" /\ effects[Inv(c)] = 0
      BY <1>1, <2>1 DEF CallRuns
    <2>3. effects' = [effects EXCEPT ![Inv(c)] = 1] /\ uses' = uses
      BY <1>3, <2>2 DEF RecordEffect
    <2>4. Replay!RunOutright(Inv(c))
      BY <1>2, <2>2, <2>3 DEF Replay!RunOutright, Grants
    <2>5. QED
      BY <1>1, <2>4 DEF Replay!Next
  <1>4. CASE Held(c)
    <2>1. PICK k \in LeaseId : k = call[c].lease /\ k # NoLeaseId
      BY <1>4 DEF Held, TypeOK, CallRecord
    <2>2. /\ approval[Inv(c)].status = "Approved"
          /\ approval[Inv(c)].fingerprint = call[c].fp
          /\ leases[k].fingerprint = call[c].fp
          /\ uses[k] = 0
      BY <1>1, <2>1 DEF CallOK
    <2>3. approval[Inv(c)] = [status |-> "Approved", fingerprint |-> call[c].fp]
      BY <1>1, <2>2 DEF TypeOK, ApprovalRecord
    <2>4. Grants[k] = call[c].fp /\ Grants[k] # NoFingerprint
      BY <1>1, <2>2, NoFingerprintAssumption DEF Grants
    <2>5. /\ uses' = [uses EXCEPT ![k] = 1]
          /\ effects' = [effects EXCEPT ![Inv(c)] = @ + 1]
      BY <1>4, <2>1, <2>2 DEF RecordEffect, TypeOK
    <2>6. Replay!Replay(k)
      BY <1>1, <1>2, <2>3, <2>2, <2>4, <2>5 DEF Replay!Replay, Grants
    <2>7. QED
      BY <2>6 DEF Replay!Next
  <1>5. QED
    BY <1>3, <1>4

\* Every step of the host is a step of the promise, or none.
LEMMA PromiseStep ==
    TypeOK /\ ReplayInv /\ RunInv /\ [Next]_vars => [Replay!Next]_(Replay!vars)
  <1> SUFFICES ASSUME TypeOK, ReplayInv, RunInv, [Next]_vars
               PROVE  [Replay!Next]_(Replay!vars)
    OBVIOUS
  <1> DEFINE Still == UNCHANGED <<approval, uses, effects>>
  <1>t. leases \in [LeaseId -> Lease] /\ approval \in [Invocation -> ApprovalRecord]
    BY DEF TypeOK
  <1>s. Still /\ Grants' = Grants => UNCHANGED Replay!vars
    BY DEF Replay!vars, Grants
  <1>l. UNCHANGED leases => Grants' = Grants
    BY DEF Grants
  <1>r. ASSUME NEW k \in LeaseId, NEW l \in Lease, l.fingerprint = leases[k].fingerprint,
               leases' = [leases EXCEPT ![k] = l]
        PROVE  Grants' = Grants
    BY <1>r, SameGrant
  <1>1. ASSUME NEW c \in Caller, NEW fp \in Fingerprint, Start(c, fp) \/ ResumeRead(c, fp)
        PROVE  UNCHANGED Replay!vars
    BY <1>1, <1>s, <1>l DEF Start, ResumeRead
  <1>2. ASSUME NEW c \in Caller,
               \/ AuthorizeAllow(c) \/ AuthorizeReject(c) \/ BlockApproval(c)
               \/ ReadApproval(c) \/ FindLease(c) \/ Prepare(c)
               \/ CompleteObligations(c) \/ CompleteRun(c) \/ FailRun(c)
        PROVE  UNCHANGED Replay!vars
    BY <1>2, <1>s, <1>l DEF AuthorizeAllow, AuthorizeReject, BlockApproval, ReadApproval,
       FindLease, Prepare, CompleteObligations, CompleteRun, FailRun
  <1>3. ASSUME NEW c \in Caller, SavePending(c) PROVE [Replay!Next]_(Replay!vars)
    <2>1. call[c].pc = "authorize" /\ UNCHANGED <<leases, uses, effects>>
      BY <1>3 DEF SavePending, At
    <2>2. /\ call[c].fp \in Fingerprint /\ Inv(c) = InvocationOf[call[c].fp]
          /\ effects[Inv(c)] = 0
      BY <2>1 DEF ReplayInv, CallOK, RunInv, CallRuns, Direct, Inv
    <2>3. CASE UNCHANGED approval
      BY <2>1, <2>3, <1>s, <1>l
    <2>4. CASE SaveApproval(Inv(c), call[c].fp)
      <3>1. Replay!Ask(call[c].fp)
        BY <2>1, <2>2, <2>4, <1>l DEF Replay!Ask, Grants
      <3>2. QED
        BY <2>2, <3>1 DEF Replay!Next
    <2>5. QED
      BY <1>3, <2>3, <2>4 DEF SavePending
  <1>4. ASSUME NEW c \in Caller, DiscardPending(c) PROVE [Replay!Next]_(Replay!vars)
    <2>1. /\ call[c].pc = "discard" /\ UNCHANGED <<leases, uses, effects>>
          /\ Inv(c) \in Invocation
      BY <1>4, CallerFacts DEF DiscardPending, At
    <2>2. CASE UNCHANGED approval
      BY <2>1, <2>2, <1>s, <1>l
    <2>3. CASE DiscardApproval(Inv(c))
      <3>1. Replay!Withdraw(Inv(c))
        BY <2>1, <2>3, <1>l DEF Replay!Withdraw, Replay!NoRequest, NoApproval, Grants
      <3>2. QED
        BY <2>1, <3>1 DEF Replay!Next
    <2>4. QED
      BY <1>4, <2>2, <2>3 DEF DiscardPending
  <1>5. ASSUME NEW c \in Caller, ClaimLease(c) \/ ConsumeLease(c) \/ RevokeClaimed(c)
        PROVE  UNCHANGED Replay!vars
    <2>1. PICK k \in LeaseId : k = call[c].lease
      BY <1>5 DEF ReplayInv, CallOK, ClaimLease, ConsumeLease, RevokeClaimed, At
    <2>2. Still
      BY <1>5 DEF ClaimLease, ConsumeLease, RevokeClaimed
    <2>3. CASE UNCHANGED leases
      BY <2>2, <2>3, <1>s, <1>l
    <2>4. ASSUME NEW st \in {"Claimed", "Revoked"}, leases' = [leases EXCEPT ![k].status = st]
          PROVE  UNCHANGED Replay!vars
      <3>1. /\ [leases[k] EXCEPT !.status = st] \in Lease
            /\ [leases[k] EXCEPT !.status = st].fingerprint = leases[k].fingerprint
            /\ leases' = [leases EXCEPT ![k] = [leases[k] EXCEPT !.status = st]]
        BY <1>t, <2>4 DEF Lease, LeaseStatus
      <3>2. QED
        BY <1>r, <1>s, <2>2, <3>1
    <2>5. CASE leases' = [leases EXCEPT ![k] = AfterConsume(leases[k])]
      <3>1. \A j \in LeaseId : leases'[j].fingerprint = leases[j].fingerprint
        BY <1>t, <2>5 DEF AfterConsume, Lease
      <3>2. QED
        BY <1>s, <2>2, <3>1 DEF Grants
    <2>6. QED
      BY <1>5, <2>1, <2>3, <2>4, <2>5 DEF ClaimLease, ConsumeLease, RevokeClaimed
  <1>6. ASSUME NEW c \in Caller, Dispatch(c) \/ SpawnProcess(c)
        PROVE  [Replay!Next]_(Replay!vars)
    BY <1>6, EffectIsPermitted DEF Dispatch, SpawnProcess, At
  <1>7. ASSUME NEW a \in Approver, NEW i \in Invocation, ResolverRead(a, i)
        PROVE  UNCHANGED Replay!vars
    BY <1>7, <1>s, <1>l DEF ResolverRead
  <1>8. ASSUME NEW a \in Approver, IssueLease(a) PROVE [Replay!Next]_(Replay!vars)
    <2>1. Still /\ vote[a].fp \in Fingerprint /\ VoteInv(a) \in Invocation
      BY <1>8, FingerprintAssumption DEF IssueLease, ReplayInv, VoteOK, VoteAt, VoteInv
    <2>2. CASE UNCHANGED leases
      BY <2>1, <2>2, <1>s, <1>l
    <2>3. ASSUME NEW k \in LeaseId, NEW n \in MaxInvocations, leases[k].status = "Absent",
                 leases' = [leases EXCEPT ![k] = NewLease(VoteInv(a), vote[a].fp, n)]
          PROVE  Replay!Next
      <3>1. Grants[k] = NoFingerprint
        BY <2>3 DEF Grants, ReplayInv, LeaseOK, FingerprintOK
      <3>2. Grants' = [Grants EXCEPT ![k] = vote[a].fp]
        BY <1>t, <2>3 DEF Grants, NewLease
      <3>3. PICK fp \in Fingerprint : fp = vote[a].fp
        BY <2>1
      <3>4. Replay!Grant(k, fp)
        BY <2>1, <3>1, <3>2, <3>3 DEF Replay!Grant, Grants
      <3>5. QED
        BY <3>4 DEF Replay!Next
    <2>4. QED
      BY <1>8, <2>2, <2>3 DEF IssueLease
  <1>9. ASSUME NEW a \in Approver, Approve(a) \/ Deny(a) PROVE [Replay!Next]_(Replay!vars)
    <2>1. UNCHANGED <<leases, uses, effects>> /\ VoteInv(a) \in Invocation
      BY <1>9, FingerprintAssumption DEF Approve, Deny, ReplayInv, VoteOK, VoteAt, VoteInv
    <2>2. CASE UNCHANGED approval
      BY <2>1, <2>2, <1>s, <1>l
    <2>3. ASSUME NEW verdict \in {"Approved", "Denied"}, ResolveApproval(VoteInv(a), verdict)
          PROVE  Replay!Next
      <3>1. Replay!Decide(VoteInv(a), verdict)
        BY <2>1, <2>3, <1>l DEF Replay!Decide, Grants
      <3>2. QED
        BY <2>1, <3>1 DEF Replay!Next
    <2>4. QED
      BY <1>9, <2>2, <2>3 DEF Approve, Deny
  <1>10. ASSUME NEW a \in Approver, RollBackLease(a) PROVE UNCHANGED Replay!vars
    <2>1. PICK k \in LeaseId : k = vote[a].lease
      BY <1>10 DEF RollBackLease, ReplayInv, VoteOK, VoteAt
    <2>2. CASE leases' = [leases EXCEPT ![k].status = "Revoked"]
      <3>1. \A j \in LeaseId : leases'[j].fingerprint = leases[j].fingerprint
        BY <1>t, <2>2 DEF Lease
      <3>2. QED
        BY <1>10, <1>s, <3>1 DEF Grants, RollBackLease
    <2>3. QED
      BY <1>10, <1>s, <1>l, <2>1, <2>2 DEF RollBackLease
  <1>11. ASSUME NEW k \in LeaseId, Expire(k) PROVE UNCHANGED Replay!vars
    <2>1. \A j \in LeaseId : leases'[j].fingerprint = leases[j].fingerprint
      BY <1>t, <1>11 DEF Expire, Lease
    <2>2. QED
      BY <1>11, <1>s, <2>1 DEF Grants, Expire
  <1>12. CASE Crash \/ UNCHANGED vars
    BY <1>12, <1>s, <1>l DEF Crash, vars
  <1>13. QED
    BY <1>1, <1>2, <1>3, <1>4, <1>5, <1>6, <1>7, <1>8, <1>9, <1>10, <1>11, <1>12
       DEF Next, CallStep, VoteStep

\* The host keeps the promise of an approval, for any number of callers,
\* approvers, invocations and leases, whatever fails and wherever it stops: a
\* request is decided once, and a side effect is either the one outright run of
\* an invocation that never asked, or the one replay of a grant for the very
\* request that stands approved.
THEOREM HostKeepsPromise == Spec => ImplementsReplay
  <1>1. Init => Replay!Init
    BY DEF Init, Replay!Init, Replay!NoRequest, NoApproval, NoLease
  <1>2. QED
    BY <1>1, PromiseStep, ReplayInvariant, RunInvariant, PTL
       DEF Spec, ImplementsReplay, Replay!Spec
=============================================================================
