--------------------------- MODULE CapabilityHost ---------------------------
(***************************************************************************)
(* Invocation of a capability with approval and replay: CapabilityHost of  *)
(* crates/ironclaw_capabilities over the run-state and approval stores of  *)
(* crates/ironclaw_run_state, the lease store of                           *)
(* crates/ironclaw_authorization and the ApprovalResolver of               *)
(* crates/ironclaw_approvals.                                              *)
(*                                                                         *)
(* The stores serialise single calls and nothing else, so every store call *)
(* of a host method or of the resolver is one action, and any other task   *)
(* may run between two of them.  A method in progress is the program       *)
(* counter of its caller.  Whatever the code takes from the outside (the   *)
(* authorizer's decision, the registry, obligations, the result of a       *)
(* dispatch, mistakes in a caller's request) is a free choice of branch.   *)
(*                                                                         *)
(* A fingerprint identifies a request: invocation, dispatch or spawn,      *)
(* capability, estimate and input.  An invocation asks for at most one     *)
(* approval, so an approval request is known by its invocation.            *)
(***************************************************************************)
EXTENDS CapabilityLease

CONSTANTS
    LeaseId,
    Caller,        \* tasks that call invoke/resume (dispatch and spawn forms)
    Approver,      \* tasks that call ApprovalResolver::approve_* or deny
    InvocationOf,  \* [Fingerprint -> Invocation]
    KindOf,        \* [Fingerprint -> {"Dispatch", "Spawn"}]
    NoLeaseId,
    Rejects,       \* may the registry, the authorizer or a check of a request
                   \* against its context turn a request down?
    StoreFaults,   \* may a store call fail (filesystem-backed stores)?
    Crashes        \* may the host stop and lose every call in progress?

ASSUME FingerprintAssumption ==
    /\ InvocationOf \in [Fingerprint -> Invocation]
    /\ KindOf \in [Fingerprint -> {"Dispatch", "Spawn"}]
ASSUME NoLeaseIdAssumption == NoLeaseId \notin LeaseId
ASSUME FaultAssumption == Rejects \in BOOLEAN /\ StoreFaults \in BOOLEAN /\ Crashes \in BOOLEAN

VARIABLES
    run,        \* [Invocation -> RunStatus], the run-state store
    approval,   \* [Invocation -> ApprovalRecord], the approval request store
    leases,     \* [LeaseId -> Lease], the lease store
    call,       \* [Caller -> the host method in progress]
    vote,       \* [Approver -> the resolver method in progress]
    uses,       \* history: side effects run under each lease
    effects     \* history: side effects run for each invocation

vars == <<run, approval, leases, call, vote, uses, effects>>

RunStatus == {"Absent", "Running", "BlockedApproval", "Completed", "Failed"}
ApprovalStatus == {"Absent", "Pending", "Approved", "Denied"}

NoCall == [pc |-> "idle", fp |-> NoFingerprint, lease |-> NoLeaseId]

NoLease == [status |-> "Absent", inv |-> CHOOSE i \in Invocation : TRUE,
            fingerprint |-> NoFingerprint, remaining |-> 0, expired |-> FALSE]

NoApproval == [status |-> "Absent", fingerprint |-> NoFingerprint]

Init ==
    /\ run = [i \in Invocation |-> "Absent"]
    /\ approval = [i \in Invocation |-> NoApproval]
    /\ leases = [k \in LeaseId |-> NoLease]
    /\ call = [c \in Caller |-> NoCall]
    /\ vote = [a \in Approver |-> NoCall]
    /\ uses = [k \in LeaseId |-> 0]
    /\ effects = [i \in Invocation |-> 0]

Inv(c) == InvocationOf[call[c].fp]
At(c, pc) == call[c].pc = pc
Goto(c, pc) == call' = [call EXCEPT ![c].pc = pc]
Return(c) == call' = [call EXCEPT ![c] = NoCall]

-----------------------------------------------------------------------------
(* The run-state and approval stores. *)

\* RunStateStore::start: an invocation gets one record.
StartRun(i) ==
    /\ run[i] = "Absent"
    /\ run' = [run EXCEPT ![i] = "Running"]

\* block_approval, complete and fail overwrite whatever the status was.
SetRun(i, st) == run' = [run EXCEPT ![i] = st]

\* save_pending.
SaveApproval(i, fp) ==
    /\ approval[i].status = "Absent"
    /\ approval' = [approval EXCEPT ![i] = [status |-> "Pending", fingerprint |-> fp]]

\* Mutant: a decision replaces an earlier one.
ResolveAgain(i, st) ==
    /\ approval[i].status # "Absent"
    /\ approval' = [approval EXCEPT ![i].status = st]

\* approve and deny: only a pending request is decided.
ResolveApproval(i, st) ==
    /\ approval[i].status = "Pending"
    /\ approval' = [approval EXCEPT ![i].status = st]

\* discard_pending.
DiscardApproval(i) ==
    /\ approval[i].status = "Pending"
    /\ approval' = [approval EXCEPT ![i] = NoApproval]

-----------------------------------------------------------------------------
(* invoke_json and spawn_json. *)

\* The run record is created once per invocation; a second start is an error.
Start(c, fp) ==
    /\ At(c, "idle")
    /\ StartRun(InvocationOf[fp])
    /\ call' = [call EXCEPT ![c] = [pc |-> "authorize", fp |-> fp, lease |-> NoLeaseId]]
    /\ UNCHANGED <<approval, leases, vote, uses, effects>>

\* Decision::Allow with its obligations prepared.
AuthorizeAllow(c) ==
    /\ At(c, "authorize")
    /\ Goto(c, "dispatch")
    /\ UNCHANGED <<run, approval, leases, vote, uses, effects>>

\* Mutant: a rejected request returns its error and forgets the run.
AuthorizeRejectSilently(c) ==
    /\ At(c, "authorize")
    /\ Rejects
    /\ Return(c)
    /\ UNCHANGED <<run, approval, leases, vote, uses, effects>>

\* Unknown capability, Decision::Deny, obligations that cannot be prepared, or
\* an approval request that does not match the invocation or its fingerprint.
AuthorizeReject(c) ==
    /\ At(c, "authorize")
    /\ Rejects
    /\ Goto(c, "fail")
    /\ UNCHANGED <<run, approval, leases, vote, uses, effects>>

\* Mutant: the run is blocked although the request was not saved.
SavePendingIgnoringError(c) ==
    /\ At(c, "authorize")
    /\ \/ /\ SaveApproval(Inv(c), call[c].fp)
       \/ /\ StoreFaults
          /\ UNCHANGED approval
    /\ Goto(c, "block")
    /\ UNCHANGED <<run, leases, vote, uses, effects>>

\* Decision::RequireApproval: save_pending, with the request's fingerprint.
SavePending(c) ==
    /\ At(c, "authorize")
    /\ \/ /\ SaveApproval(Inv(c), call[c].fp)
          /\ Goto(c, "block")
       \/ /\ StoreFaults
          /\ Goto(c, "fail")
          /\ UNCHANGED approval
    /\ UNCHANGED <<run, leases, vote, uses, effects>>

\* block_approval.
BlockApproval(c) ==
    /\ At(c, "block")
    /\ \/ /\ SetRun(Inv(c), "BlockedApproval")
          /\ Return(c)
       \/ /\ StoreFaults
          /\ Goto(c, "discard")
          /\ UNCHANGED run
    /\ UNCHANGED <<approval, leases, vote, uses, effects>>

\* discard_pending after a failed block: only a request that is still pending
\* goes away, and an error is only logged.
DiscardPending(c) ==
    /\ At(c, "discard")
    /\ \/ DiscardApproval(Inv(c))
       \/ /\ approval[Inv(c)].status # "Pending" \/ StoreFaults
          /\ UNCHANGED approval
    /\ Goto(c, "fail")
    /\ UNCHANGED <<run, leases, vote, uses, effects>>

-----------------------------------------------------------------------------
(* resume_json and resume_spawn_json. *)

\* The run record is read: only a blocked run is resumed, and a request that
\* names another capability or approval fails it.
ResumeRead(c, fp) ==
    /\ At(c, "idle")
    /\ run[InvocationOf[fp]] = "BlockedApproval"
    /\ \E next \in {"approval"} \cup {pc \in {"fail"} : Rejects} :
         call' = [call EXCEPT ![c] = [pc |-> next, fp |-> fp, lease |-> NoLeaseId]]
    /\ UNCHANGED <<run, approval, leases, vote, uses, effects>>

\* Mutant: a request that is still pending counts as approved.
ReadApprovalPendingToo(c) ==
    /\ At(c, "approval")
    /\ \/ /\ approval[Inv(c)].status = "Absent" \/ StoreFaults
          /\ Return(c)
       \/ /\ approval[Inv(c)].status \in {"Denied", "Approved"}
          /\ Goto(c, "fail")
       \/ /\ approval[Inv(c)].status \in {"Pending", "Approved"}
          /\ approval[Inv(c)].fingerprint = call[c].fp
          /\ Goto(c, "lease")
    /\ UNCHANGED <<run, approval, leases, vote, uses, effects>>

\* The approval record is read.  A pending (or missing) one ends the call and
\* leaves the run blocked; a denied one fails the run; an approved one must be
\* for exactly this request, of a capability that is still registered.
ReadApproval(c) ==
    /\ At(c, "approval")
    /\ \/ /\ approval[Inv(c)].status \in {"Absent", "Pending"} \/ StoreFaults
          /\ Return(c)
       \/ /\ \/ approval[Inv(c)].status = "Denied"
             \/ /\ approval[Inv(c)].status = "Approved"
                /\ approval[Inv(c)].fingerprint # call[c].fp \/ Rejects
          /\ Goto(c, "fail")
       \/ /\ approval[Inv(c)].status = "Approved"
          /\ approval[Inv(c)].fingerprint = call[c].fp
          /\ Goto(c, "lease")
    /\ UNCHANGED <<run, approval, leases, vote, uses, effects>>

\* matching_approval_lease: the first lease, in the order of the random grant
\* ids, that authorizes this request; then the authorizer decides again.
MatchingLeases(c) ==
    {k \in LeaseId : /\ Authorizing(leases[k], Inv(c))
                     /\ leases[k].fingerprint = call[c].fp}

FindLease(c) ==
    /\ At(c, "lease")
    /\ \/ \E k \in MatchingLeases(c) :
            call' = [call EXCEPT ![c].lease = k, ![c].pc = "claim"]
       \/ /\ MatchingLeases(c) = {} \/ Rejects
          /\ Goto(c, "fail")
    /\ UNCHANGED <<run, approval, leases, vote, uses, effects>>

\* claim: a lease another resume holds or has used ends the call and leaves the
\* run alone (claim_error_may_be_concurrent_resume); any other error fails it.
ClaimLease(c) ==
    LET k == call[c].lease
    IN  /\ At(c, "claim")
        /\ \/ /\ Claimable(leases[k], call[c].fp)
              /\ leases' = [leases EXCEPT ![k].status = "Claimed"]
              /\ Goto(c, "prepare")
           \/ /\ leases[k].status \in {"Claimed", "Consumed"}
              /\ Return(c)
              /\ UNCHANGED leases
           \/ /\ \/ leases[k].status = "Revoked"
                 \/ leases[k].status = "Active" /\ ~ Claimable(leases[k], call[c].fp)
                 \/ StoreFaults
              /\ Goto(c, "fail")
              /\ UNCHANGED leases
        /\ UNCHANGED <<run, approval, vote, uses, effects>>

\* Mutant: a prepared replay is settled without having been dispatched.
PrepareSkippingDispatch(c) ==
    /\ At(c, "prepare")
    /\ Goto(c, "consume") \/ Goto(c, "failHeld")
    /\ UNCHANGED <<run, approval, leases, vote, uses, effects>>

\* prepare_obligations in the resume and spawn phases.
Prepare(c) ==
    /\ At(c, "prepare")
    /\ Goto(c, "dispatch") \/ Goto(c, "failHeld")
    /\ UNCHANGED <<run, approval, leases, vote, uses, effects>>

\* consume after the side effect; an error is only logged.
ConsumeLease(c) ==
    LET k == call[c].lease
    IN  /\ At(c, "consume")
        /\ \/ /\ Consumable(leases[k])
              /\ leases' = [leases EXCEPT ![k] = AfterConsume(leases[k])]
           \/ /\ ~ Consumable(leases[k]) \/ StoreFaults
              /\ UNCHANGED leases
        /\ Goto(c, "complete")
        /\ UNCHANGED <<run, approval, vote, uses, effects>>

\* revoke after a replay that failed; an error is only logged.
RevokeClaimed(c) ==
    /\ At(c, "revoke")
    /\ \/ leases' = [leases EXCEPT ![call[c].lease].status = "Revoked"]
       \/ StoreFaults /\ UNCHANGED leases
    /\ Return(c)
    /\ UNCHANGED <<run, approval, vote, uses, effects>>

-----------------------------------------------------------------------------
(* The side effect, and how both methods end. *)

Held(c) == call[c].lease # NoLeaseId

\* The history of a side effect run by caller c.
RecordEffect(c) ==
    /\ uses' = IF Held(c) THEN [uses EXCEPT ![call[c].lease] = @ + 1] ELSE uses
    /\ effects' = [effects EXCEPT ![Inv(c)] = @ + 1]

\* dispatch_json; on an error obligations are aborted and the run fails.
Dispatch(c) ==
    /\ At(c, "dispatch")
    /\ KindOf[call[c].fp] = "Dispatch"
    /\ RecordEffect(c)
    /\ Goto(c, "settle") \/ Goto(c, IF Held(c) THEN "failHeld" ELSE "fail")
    /\ UNCHANGED <<run, approval, leases, vote>>

\* process_manager.spawn, the side effect of the spawn forms; a spawned process
\* has no completion obligations.
SpawnProcess(c) ==
    /\ At(c, "dispatch")
    /\ KindOf[call[c].fp] = "Spawn"
    /\ RecordEffect(c)
    /\ Goto(c, IF Held(c) THEN "consume" ELSE "complete")
         \/ Goto(c, IF Held(c) THEN "failHeld" ELSE "fail")
    /\ UNCHANGED <<run, approval, leases, vote>>

\* complete_dispatch_obligations.
CompleteObligations(c) ==
    /\ At(c, "settle")
    /\ Goto(c, IF Held(c) THEN "consume" ELSE "complete")
         \/ Goto(c, IF Held(c) THEN "failHeld" ELSE "fail")
    /\ UNCHANGED <<run, approval, leases, vote, uses, effects>>

\* complete_run_after_side_effect: from any status; an error is only logged.
CompleteRun(c) ==
    /\ At(c, "complete")
    /\ \/ SetRun(Inv(c), "Completed")
       \/ StoreFaults /\ UNCHANGED run
    /\ Return(c)
    /\ UNCHANGED <<approval, leases, vote, uses, effects>>

\* Mutant: a replay that failed keeps its claimed lease.
FailRunKeepingLease(c) ==
    /\ At(c, "fail") \/ At(c, "failHeld")
    /\ \/ SetRun(Inv(c), "Failed")
       \/ StoreFaults /\ UNCHANGED run
    /\ Return(c)
    /\ UNCHANGED <<approval, leases, vote, uses, effects>>

\* fail_run_if_configured: from any status; an error is only logged.  A call
\* that holds a claimed lease revokes it next.
FailRun(c) ==
    /\ At(c, "fail") \/ At(c, "failHeld")
    /\ \/ SetRun(Inv(c), "Failed")
       \/ StoreFaults /\ UNCHANGED run
    /\ IF At(c, "failHeld") THEN Goto(c, "revoke") ELSE Return(c)
    /\ UNCHANGED <<approval, leases, vote, uses, effects>>

-----------------------------------------------------------------------------
(* ApprovalResolver: approve_dispatch, approve_spawn and deny. *)

VoteAt(a, pc) == vote[a].pc = pc
VoteReturn(a) == vote' = [vote EXCEPT ![a] = NoCall]
VoteInv(a) == InvocationOf[vote[a].fp]

\* The record is read: it must be pending and carry a fingerprint.
ResolverRead(a, i) ==
    /\ VoteAt(a, "idle")
    /\ approval[i].status = "Pending"
    /\ \E next \in {"issue", "deny"} :
         vote' = [vote EXCEPT ![a] = [pc |-> next, lease |-> NoLeaseId,
                                        fp |-> approval[i].fingerprint]]
    /\ UNCHANGED <<run, approval, leases, call, uses, effects>>

\* A fresh lease for the fingerprint of the record that was read.
IssueLease(a) ==
    /\ VoteAt(a, "issue")
    /\ \/ \E k \in LeaseId, n \in MaxInvocations :
            /\ leases[k].status = "Absent"
            /\ leases' = [leases EXCEPT ![k] = NewLease(VoteInv(a), vote[a].fp, n)]
            /\ vote' = [vote EXCEPT ![a].pc = "approve", ![a].lease = k]
       \/ /\ StoreFaults
          /\ VoteReturn(a)
          /\ UNCHANGED leases
    /\ UNCHANGED <<run, approval, call, uses, effects>>

\* Mutant: an approver that comes too late keeps its lease.
ApproveWithoutRollback(a) ==
    /\ VoteAt(a, "approve")
    /\ \/ ResolveApproval(VoteInv(a), "Approved")
       \/ /\ approval[VoteInv(a)].status # "Pending" \/ StoreFaults
          /\ UNCHANGED approval
    /\ VoteReturn(a)
    /\ UNCHANGED <<run, leases, call, uses, effects>>

\* approve: only from Pending; an approver that comes too late takes its lease back.
Approve(a) ==
    /\ VoteAt(a, "approve")
    /\ \/ /\ ResolveApproval(VoteInv(a), "Approved")
          /\ VoteReturn(a)
       \/ /\ approval[VoteInv(a)].status # "Pending" \/ StoreFaults
          /\ vote' = [vote EXCEPT ![a].pc = "revoke"]
          /\ UNCHANGED approval
    /\ UNCHANGED <<run, leases, call, uses, effects>>

\* The rollback of approve; an error is ignored.
RollBackLease(a) ==
    /\ VoteAt(a, "revoke")
    /\ \/ leases' = [leases EXCEPT ![vote[a].lease].status = "Revoked"]
       \/ StoreFaults /\ UNCHANGED leases
    /\ VoteReturn(a)
    /\ UNCHANGED <<run, approval, call, uses, effects>>

\* Mutant: deny overwrites a decision that was made in the meantime.
DenyAnyway(a) ==
    /\ VoteAt(a, "deny")
    /\ approval' = [approval EXCEPT ![VoteInv(a)].status = "Denied"]
    /\ VoteReturn(a)
    /\ UNCHANGED <<run, leases, call, uses, effects>>

\* deny: only from Pending.
Deny(a) ==
    /\ VoteAt(a, "deny")
    /\ \/ ResolveApproval(VoteInv(a), "Denied")
       \/ /\ approval[VoteInv(a)].status # "Pending" \/ StoreFaults
          /\ UNCHANGED approval
    /\ VoteReturn(a)
    /\ UNCHANGED <<run, leases, call, uses, effects>>

-----------------------------------------------------------------------------
(* The environment. *)

\* The clock passes a lease's expires_at.
Expire(k) ==
    /\ leases[k].status # "Absent"
    /\ leases' = [leases EXCEPT ![k].expired = TRUE]
    /\ UNCHANGED <<run, approval, call, vote, uses, effects>>

\* The host stops: the stores keep what was written, every call is gone.
Crash ==
    /\ Crashes
    /\ call' = [c \in Caller |-> NoCall]
    /\ vote' = [a \in Approver |-> NoCall]
    /\ UNCHANGED <<run, approval, leases, uses, effects>>

\* The steps of a method once it was called.
CallStep(c) ==
    \/ AuthorizeAllow(c) \/ AuthorizeReject(c) \/ SavePending(c)
    \/ BlockApproval(c) \/ DiscardPending(c)
    \/ ReadApproval(c) \/ FindLease(c) \/ ClaimLease(c) \/ Prepare(c)
    \/ ConsumeLease(c) \/ RevokeClaimed(c)
    \/ Dispatch(c) \/ SpawnProcess(c) \/ CompleteObligations(c)
    \/ CompleteRun(c) \/ FailRun(c)

VoteStep(a) == IssueLease(a) \/ Approve(a) \/ RollBackLease(a) \/ Deny(a)

Next ==
    \/ \E c \in Caller, fp \in Fingerprint : Start(c, fp) \/ ResumeRead(c, fp)
    \/ \E c \in Caller : CallStep(c)
    \/ \E a \in Approver, i \in Invocation : ResolverRead(a, i)
    \/ \E a \in Approver : VoteStep(a)
    \/ \E k \in LeaseId : Expire(k)
    \/ Crash

Spec == Init /\ [][Next]_vars

\* A method that was called runs to its end: the executor polls every task.
FairSpec ==
    /\ Spec
    /\ \A c \in Caller : WF_vars(CallStep(c))
    /\ \A a \in Approver : WF_vars(VoteStep(a))

-----------------------------------------------------------------------------
(* Properties. *)

CallPc == {"idle", "authorize", "block", "discard", "approval", "lease", "claim",
           "prepare", "dispatch", "settle", "consume", "complete", "fail",
           "failHeld", "revoke"}
VotePc == {"idle", "issue", "approve", "revoke", "deny"}

CallRecord == [pc : CallPc, fp : Fingerprint \cup {NoFingerprint},
               lease : LeaseId \cup {NoLeaseId}]
VoteRecord == [pc : VotePc, fp : Fingerprint \cup {NoFingerprint},
               lease : LeaseId \cup {NoLeaseId}]
ApprovalRecord == [status : ApprovalStatus,
                   fingerprint : Fingerprint \cup {NoFingerprint}]

\* The shape of the state.
TypeOK ==
    /\ run \in [Invocation -> RunStatus]
    /\ approval \in [Invocation -> ApprovalRecord]
    /\ leases \in [LeaseId -> Lease]
    /\ call \in [Caller -> CallRecord]
    /\ vote \in [Approver -> VoteRecord]
    /\ uses \in [LeaseId -> Nat]
    /\ effects \in [Invocation -> Nat]

\* "It authorizes one replay of the exact blocked invocation" for one lease:
\* however many resumes race for it, whatever fails in between and wherever the
\* host stops, a lease pays for at most one dispatch or spawn.
OneEffectPerLease == \A k \in LeaseId : uses[k] <= 1

\* A replay runs only what was approved: the side effect of every used lease
\* was for a request whose approval stands and has that very fingerprint.
ReplayWasApproved ==
    \A k \in LeaseId :
        uses[k] > 0 =>
            /\ approval[leases[k].inv].status = "Approved"
            /\ approval[leases[k].inv].fingerprint = leases[k].fingerprint

\* Nothing ever runs for an invocation whose approval was denied, however the
\* denial races with approvers, resumes and crashes.
DeniedNeverRuns ==
    \A i \in Invocation : approval[i].status = "Denied" => effects[i] = 0

\* A run recorded as completed did run.
CompletedDidRun ==
    \A i \in Invocation : run[i] = "Completed" => effects[i] > 0

\* A blocked run can be unblocked: its approval request is in the store.
BlockedRunHasRequest ==
    \A i \in Invocation :
        run[i] = "BlockedApproval" => approval[i].status # "Absent"

\* One approval, one run: an invocation's side effect happens at most once.
OneEffectPerInvocation == \A i \in Invocation : effects[i] <= 1

\* No authority outlives its rollback: while the stores work, an active lease
\* belongs to a request that was approved, or an approver still holds it.
ActiveLeaseIsBacked ==
    \A k \in LeaseId :
        leases[k].status = "Active" =>
            \/ approval[leases[k].inv].status = "Approved"
            \/ \E a \in Approver : /\ vote[a].pc \in {"approve", "revoke"}
                                   /\ vote[a].lease = k

\* A completed run is never overwritten.
CompletedIsFinal ==
    [][\A i \in Invocation : run[i] = "Completed" => run'[i] = "Completed"]_vars

\* The host, the resolver and the stores together keep what ApprovedReplay
\* promises of an approval, although the request, the lease and the run are
\* records of three stores that no step writes together.
Replay == INSTANCE ApprovedReplay
          WITH request <- approval,
               grant <- [k \in LeaseId |-> leases[k].fingerprint],
               paid <- uses, ran <- effects

ImplementsReplay == Replay!Spec

\* No invocation stays Running: it completes, fails or waits for approval.
RunningSettles ==
    \A i \in Invocation : run[i] = "Running" ~> run[i] # "Running"

\* A claimed lease is consumed or revoked, unless it expires during the replay.
ClaimSettles ==
    \A k \in LeaseId :
        leases[k].status = "Claimed" ~>
            (leases[k].status # "Claimed" \/ leases[k].expired)
=============================================================================
