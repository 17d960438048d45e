-------------------------- MODULE ProcessLifecycle --------------------------
(***************************************************************************)
(* Background processes of crates/ironclaw_processes: the spawn method and *)
(* the detached task of BackgroundProcessManager, ProcessHost::kill and    *)
(* await_result, the process and result stores, the cancellation registry, *)
(* and ResourceManagedProcessStore, which ties a governor reservation to   *)
(* every process.                                                          *)
(*                                                                         *)
(* The spawn method and the task it detaches follow one another, so one    *)
(* program counter per process serves both.  Each store, registry or       *)
(* governor call is one action; killers and waiters run in between.        *)
(***************************************************************************)
EXTENDS Integers

CONSTANTS
    Process,
    Killer,       \* tasks that call ProcessHost::kill
    Waiter,       \* tasks that call ProcessHost::await_result
    Managed,      \* is the process store a ResourceManagedProcessStore?
    StoreFaults,  \* may a process-store or result-store call fail?
    Drops,        \* may the caller of spawn go away while it waits?
    Crashes       \* may the runtime be shut down and started again?

ASSUME ProcessAssumption == Process # {}
ASSUME ModeAssumption ==
    /\ Managed \in BOOLEAN /\ StoreFaults \in BOOLEAN
    /\ Drops \in BOOLEAN /\ Crashes \in BOOLEAN

Terminal == {"Completed", "Failed", "Killed"}
ProcessStatus == {"Absent", "Running"} \cup Terminal

VARIABLES
    status,     \* [Process -> ProcessStatus], the process store
    result,     \* [Process -> status of the result record, or "None"]
    owned,      \* [Process -> BOOLEAN], owned_reservations has an entry
    hold,       \* [Process -> status of its reservation at the governor]
    token,      \* [Process -> BOOLEAN], the registry has the token
    cancelled,  \* [Process -> BOOLEAN], the token given to the executor is set
    job,        \* [Process -> [pc, outcome]], spawn method, then its task
    killer,     \* [Killer -> [pc, proc]]
    waiter,     \* [Waiter -> [pc, proc, seen]]
    closes      \* history: how often the reservation's close was called

stores == <<status, result>>
holds == <<owned, hold, closes>>
registry == <<token, cancelled>>
vars == <<status, result, owned, hold, token, cancelled, job, killer, waiter, closes>>

NoJob == [pc |-> "unborn", outcome |-> "Failed"]
NoKill == [pc |-> "idle", proc |-> CHOOSE p \in Process : TRUE]
NoWait == [pc |-> "idle", proc |-> CHOOSE p \in Process : TRUE, seen |-> FALSE]

Init ==
    /\ status = [p \in Process |-> "Absent"]
    /\ result = [p \in Process |-> "None"]
    /\ owned = [p \in Process |-> FALSE]
    /\ hold = [p \in Process |-> "None"]
    /\ token = [p \in Process |-> FALSE]
    /\ cancelled = [p \in Process |-> FALSE]
    /\ job = [p \in Process |-> NoJob]
    /\ killer = [k \in Killer |-> NoKill]
    /\ waiter = [w \in Waiter |-> NoWait]
    /\ closes = [p \in Process |-> 0]

JobAt(p, pc) == job[p].pc = pc
JobGoto(p, pc) == job' = [job EXCEPT ![p].pc = pc]

\* ResourceGovernor::reconcile or release of the process's reservation.
CloseHold(p, how) ==
    /\ hold' = [hold EXCEPT ![p] = IF @ = "Active" THEN how ELSE @]
    /\ closes' = [closes EXCEPT ![p] = @ + 1]

\* start, and complete, fail and kill of the process store: one record per
\* process, and only a running process changes its status.
CreateRecord(p) ==
    /\ status[p] = "Absent"
    /\ status' = [status EXCEPT ![p] = "Running"]
UpdateStatus(p, to) ==
    /\ status[p] = "Running"
    /\ status' = [status EXCEPT ![p] = to]

\* complete, fail and kill of the result store overwrite what is there.
StoreResult(p, st) == result' = [result EXCEPT ![p] = st]

\* take_owned_reservation: whoever removes the entry may close the reservation.
MayTake(p) == Managed => owned[p]

-----------------------------------------------------------------------------
(* BackgroundProcessManager::spawn over ResourceManagedProcessStore::start. *)

\* The governor grants a reservation; a denial leaves no record behind.
Reserve(p) ==
    /\ JobAt(p, "unborn")
    /\ hold' = [hold EXCEPT ![p] = IF Managed THEN "Active" ELSE "None"]
    /\ JobGoto(p, "start")
    /\ UNCHANGED <<stores, registry, owned, closes, killer, waiter>>

\* inner.start: the record is Running, or the reservation is released again.
StartRecord(p) ==
    /\ JobAt(p, "start")
    /\ \/ /\ CreateRecord(p)
          /\ JobGoto(p, IF Managed THEN "own" ELSE "register")
          /\ UNCHANGED <<hold, closes>>
       \/ /\ status[p] # "Absent" \/ StoreFaults
          /\ IF Managed THEN CloseHold(p, "Released") ELSE UNCHANGED <<hold, closes>>
          /\ JobGoto(p, "done")
          /\ UNCHANGED status
    /\ UNCHANGED <<result, registry, owned, killer, waiter>>

\* spawn is dropped at its one await: the drop guard gives the reservation back,
\* whether or not the inner store had written the record by then.
StartDropped(p) ==
    /\ Drops
    /\ JobAt(p, "start")
    /\ CreateRecord(p) \/ UNCHANGED status
    /\ IF Managed THEN CloseHold(p, "Released") ELSE UNCHANGED <<hold, closes>>
    /\ JobGoto(p, "lost")
    /\ UNCHANGED <<result, registry, owned, killer, waiter>>

\* record_owned_reservation.
RecordOwned(p) ==
    /\ JobAt(p, "own")
    /\ owned' = [owned EXCEPT ![p] = TRUE]
    /\ JobGoto(p, "register")
    /\ UNCHANGED <<stores, registry, hold, closes, killer, waiter>>

\* The token is registered and the task detached.
Register(p) ==
    /\ JobAt(p, "register")
    /\ token' = [token EXCEPT ![p] = TRUE]
    /\ JobGoto(p, "exec")
    /\ UNCHANGED <<stores, cancelled, holds, killer, waiter>>

-----------------------------------------------------------------------------
(* The detached task. *)

\* Mutant: a panic of the executor takes the task down with it.
ExecuteUncaught(p) ==
    /\ JobAt(p, "exec")
    /\ \/ \E o \in {"Completed", "Failed"} :
            job' = [job EXCEPT ![p] = [pc |-> "check", outcome |-> o]]
       \/ JobGoto(p, "done")
    /\ UNCHANGED <<stores, registry, holds, killer, waiter>>

\* The executor returns a result, an error, or panics (an error here).
Execute(p) ==
    /\ JobAt(p, "exec")
    /\ \E o \in {"Completed", "Failed"} :
         job' = [job EXCEPT ![p] = [pc |-> "check", outcome |-> o]]
    /\ UNCHANGED <<stores, registry, holds, killer, waiter>>

\* still_running: a process that was ended meanwhile gets no result.
CheckRunning(p) ==
    /\ JobAt(p, "check")
    /\ \/ /\ status[p] = "Running"
          /\ JobGoto(p, "result")
       \/ /\ status[p] # "Running" \/ StoreFaults
          /\ JobGoto(p, "unregister")
    /\ UNCHANGED <<stores, registry, holds, killer, waiter>>

\* Mutant: the status is written although the result was not.
WriteResultIgnoringError(p) ==
    /\ JobAt(p, "result")
    /\ \/ StoreResult(p, job[p].outcome)
       \/ StoreFaults /\ UNCHANGED result
    /\ JobGoto(p, "take")
    /\ UNCHANGED <<status, registry, holds, killer, waiter>>

\* Mutant: the result carries the status of the record, not the outcome.
WriteResultFromRecord(p) ==
    /\ JobAt(p, "result")
    /\ StoreResult(p, status[p])
    /\ JobGoto(p, "take")
    /\ UNCHANGED <<status, registry, holds, killer, waiter>>

\* The result record comes first; if it cannot be written the status is not.
WriteResult(p) ==
    /\ JobAt(p, "result")
    /\ \/ /\ StoreResult(p, job[p].outcome)
          /\ JobGoto(p, "take")
       \/ /\ StoreFaults
          /\ JobGoto(p, "unregister")
          /\ UNCHANGED result
    /\ UNCHANGED <<status, registry, holds, killer, waiter>>

\* complete/fail of the managed store: the record is read and its reservation
\* taken; without it the transition is refused.
TakeReservation(p) ==
    /\ JobAt(p, "take")
    /\ \/ /\ MayTake(p)
          /\ owned' = [owned EXCEPT ![p] = FALSE]
          /\ JobGoto(p, "transition")
       \/ /\ ~ MayTake(p) \/ StoreFaults
          /\ JobGoto(p, "unregister")
          /\ UNCHANGED owned
    /\ UNCHANGED <<stores, registry, hold, closes, killer, waiter>>

\* Mutant: the inner store no longer protects a terminal status.
TransitionFromAny(p) ==
    /\ JobAt(p, "transition")
    /\ status' = [status EXCEPT ![p] = job[p].outcome]
    /\ JobGoto(p, IF Managed THEN "close" ELSE "unregister")
    /\ UNCHANGED <<result, registry, holds, killer, waiter>>

\* inner.complete or inner.fail: only from Running; otherwise the reservation
\* is recorded as owned again.
Transition(p) ==
    /\ JobAt(p, "transition")
    /\ \/ /\ UpdateStatus(p, job[p].outcome)
          /\ JobGoto(p, IF Managed THEN "close" ELSE "unregister")
          /\ UNCHANGED owned
       \/ /\ status[p] # "Running" \/ StoreFaults
          /\ owned' = [owned EXCEPT ![p] = Managed]
          /\ JobGoto(p, "unregister")
          /\ UNCHANGED status
    /\ UNCHANGED <<result, registry, hold, closes, killer, waiter>>

\* Mutant: a failed process is charged like a completed one.
CloseReservationCharging(p) ==
    /\ JobAt(p, "close")
    /\ CloseHold(p, "Reconciled")
    /\ JobGoto(p, "unregister")
    /\ UNCHANGED <<stores, registry, owned, killer, waiter>>

\* A completed process is reconciled, a failed one released.
CloseReservation(p) ==
    /\ JobAt(p, "close")
    /\ CloseHold(p, IF job[p].outcome = "Completed" THEN "Reconciled" ELSE "Released")
    /\ JobGoto(p, "unregister")
    /\ UNCHANGED <<stores, registry, owned, killer, waiter>>

Unregister(p) ==
    /\ JobAt(p, "unregister")
    /\ token' = [token EXCEPT ![p] = FALSE]
    /\ JobGoto(p, "done")
    /\ UNCHANGED <<stores, cancelled, holds, killer, waiter>>

-----------------------------------------------------------------------------
(* ProcessHost::kill. *)

KillAt(k, pc) == killer[k].pc = pc
KillGoto(k, pc) == killer' = [killer EXCEPT ![k].pc = pc]
KillReturn(k) == killer' = [killer EXCEPT ![k] = NoKill]

\* kill of the managed store: an unknown process is an error, and so is a
\* reservation that is not there to be taken.
KillTake(k, p) ==
    /\ KillAt(k, "idle")
    /\ status[p] # "Absent"
    /\ \/ /\ MayTake(p)
          /\ owned' = [owned EXCEPT ![p] = FALSE]
          /\ killer' = [killer EXCEPT ![k] = [pc |-> "transition", proc |-> p]]
       \/ /\ ~ MayTake(p) \/ StoreFaults
          /\ killer' = [killer EXCEPT ![k] = [pc |-> "check", proc |-> p]]
          /\ UNCHANGED owned
    /\ UNCHANGED <<stores, registry, hold, closes, job, waiter>>

\* Mutant: a refused kill hands the reservation back and releases it too.
KillTransitionReleasing(k) ==
    LET p == killer[k].proc
    IN  /\ KillAt(k, "transition")
        /\ \/ /\ UpdateStatus(p, "Killed")
              /\ UNCHANGED owned
           \/ /\ status[p] # "Running" \/ StoreFaults
              /\ owned' = [owned EXCEPT ![p] = Managed]
              /\ UNCHANGED status
        /\ KillGoto(k, IF Managed THEN "close" ELSE "cancel")
        /\ UNCHANGED <<result, registry, hold, closes, job, waiter>>

\* Mutant: only what this runtime has registered can be killed.
KillTransitionRegistered(k) ==
    LET p == killer[k].proc
    IN  /\ KillAt(k, "transition")
        /\ \/ /\ token[p] /\ UpdateStatus(p, "Killed")
              /\ KillGoto(k, IF Managed THEN "close" ELSE "cancel")
              /\ UNCHANGED owned
           \/ /\ status[p] # "Running" \/ ~ token[p]
              /\ owned' = [owned EXCEPT ![p] = Managed]
              /\ KillGoto(k, "check")
              /\ UNCHANGED status
        /\ UNCHANGED <<result, registry, hold, closes, job, waiter>>

\* inner.kill: only from Running.
KillTransition(k) ==
    LET p == killer[k].proc
    IN  /\ KillAt(k, "transition")
        /\ \/ /\ UpdateStatus(p, "Killed")
              /\ KillGoto(k, IF Managed THEN "close" ELSE "cancel")
              /\ UNCHANGED owned
           \/ /\ status[p] # "Running" \/ StoreFaults
              /\ owned' = [owned EXCEPT ![p] = Managed]
              /\ KillGoto(k, "check")
              /\ UNCHANGED status
        /\ UNCHANGED <<result, registry, hold, closes, job, waiter>>

KillClose(k) ==
    /\ KillAt(k, "close")
    /\ CloseHold(killer[k].proc, "Released")
    /\ KillGoto(k, "cancel")
    /\ UNCHANGED <<stores, registry, owned, job, waiter>>

\* After a refused kill the side effects are repeated if the process turns out
\* to be killed already.
KillCheck(k) ==
    /\ KillAt(k, "check")
    /\ \/ /\ status[killer[k].proc] = "Killed"
          /\ KillGoto(k, "cancel")
       \/ /\ status[killer[k].proc] # "Killed" \/ StoreFaults
          /\ KillReturn(k)
    /\ UNCHANGED <<stores, registry, holds, job, waiter>>

\* ProcessCancellationRegistry::cancel: the token leaves the registry and is set.
KillCancel(k) ==
    LET p == killer[k].proc
    IN  /\ KillAt(k, "cancel")
        /\ token' = [token EXCEPT ![p] = FALSE]
        /\ cancelled' = [cancelled EXCEPT ![p] = @ \/ token[p]]
        /\ KillGoto(k, "result")
        /\ UNCHANGED <<stores, holds, job, waiter>>

KillResult(k) ==
    /\ KillAt(k, "result")
    /\ \/ StoreResult(killer[k].proc, "Killed")
       \/ StoreFaults /\ UNCHANGED result
    /\ KillReturn(k)
    /\ UNCHANGED <<status, registry, holds, job, waiter>>

-----------------------------------------------------------------------------
(* ProcessHost::await_result. *)

WaitStart(w, p) ==
    /\ waiter[w].pc = "idle"
    /\ status[p] # "Absent"
    /\ waiter' = [waiter EXCEPT ![w] = [pc |-> "result", proc |-> p, seen |-> FALSE]]
    /\ UNCHANGED <<stores, registry, holds, job, killer>>

\* A read that fails ends the call with its error.
WaitResult(w) ==
    /\ waiter[w].pc = "result"
    /\ \/ waiter' = [waiter EXCEPT ![w].pc =
                       IF result[waiter[w].proc] # "None" THEN "found" ELSE "status"]
       \/ /\ StoreFaults
          /\ waiter' = [waiter EXCEPT ![w] = NoWait]
    /\ UNCHANGED <<stores, registry, holds, job, killer>>

\* Mutant: the poll never gives up on a process that has no result.
WaitStatusForEver(w) ==
    /\ waiter[w].pc = "status"
    /\ waiter' = [waiter EXCEPT ![w].pc = "result"]
    /\ UNCHANGED <<stores, registry, holds, job, killer>>

\* The status is read second: a terminal process without a result gets one more
\* look, and after that the result is reported as unavailable.
WaitStatus(w) ==
    LET ended == status[waiter[w].proc] \in Terminal
    IN  /\ waiter[w].pc = "status"
        /\ \/ waiter' = [waiter EXCEPT
                ![w].pc = IF ended /\ waiter[w].seen THEN "unavailable" ELSE "result",
                ![w].seen = ended]
           \/ /\ StoreFaults
              /\ waiter' = [waiter EXCEPT ![w] = NoWait]
        /\ UNCHANGED <<stores, registry, holds, job, killer>>

-----------------------------------------------------------------------------

\* The runtime stops and starts again: tasks and in-memory state (registry,
\* owned_reservations, the governor) are gone, the records stay.
Crash ==
    /\ Crashes
    /\ job' = [p \in Process |-> IF JobAt(p, "unborn") THEN NoJob
                                 ELSE [job[p] EXCEPT !.pc = "lost"]]
    /\ killer' = [k \in Killer |-> NoKill]
    /\ waiter' = [w \in Waiter |-> NoWait]
    /\ owned' = [p \in Process |-> FALSE]
    /\ hold' = [p \in Process |-> "None"]
    /\ token' = [p \in Process |-> FALSE]
    /\ UNCHANGED <<status, result, cancelled, closes>>

JobStep(p) ==
    \/ StartRecord(p) \/ RecordOwned(p) \/ Register(p) \/ Execute(p)
    \/ CheckRunning(p) \/ WriteResult(p) \/ TakeReservation(p) \/ Transition(p)
    \/ CloseReservation(p) \/ Unregister(p)

KillStep(k) ==
    \/ KillTransition(k) \/ KillClose(k) \/ KillCheck(k) \/ KillCancel(k)
    \/ KillResult(k)

WaitStep(w) == WaitResult(w) \/ WaitStatus(w)

Next ==
    \/ \E p \in Process : Reserve(p) \/ StartDropped(p) \/ JobStep(p)
    \/ \E k \in Killer, p \in Process : KillTake(k, p)
    \/ \E k \in Killer : KillStep(k)
    \/ \E w \in Waiter, p \in Process : WaitStart(w, p)
    \/ \E w \in Waiter : WaitStep(w)
    \/ Crash

Spec == Init /\ [][Next]_vars

\* What has begun is polled to its end, and executors return (assumed of them).
\* Nobody has to kill or to wait, and the runtime may be restarted for ever.
FairSpec ==
    /\ Spec
    /\ \A p \in Process : WF_vars(JobStep(p))
    /\ \A k \in Killer : WF_vars(KillStep(k))
    /\ \A w \in Waiter : WF_vars(WaitStep(w))

-----------------------------------------------------------------------------
(* Properties. *)

JobPc == {"unborn", "start", "own", "register", "exec", "check", "result", "take",
          "transition", "close", "unregister", "done", "lost"}
KillPc == {"idle", "transition", "close", "check", "cancel", "result"}
WaitPc == {"idle", "result", "status", "found", "unavailable"}

JobRecord == [pc : JobPc, outcome : {"Completed", "Failed"}]
KillRecord == [pc : KillPc, proc : Process]
WaitRecord == [pc : WaitPc, proc : Process, seen : BOOLEAN]
HoldStatus == {"None", "Active", "Reconciled", "Released"}

\* The shape of the state.
TypeOK ==
    /\ status \in [Process -> ProcessStatus]
    /\ result \in [Process -> {"None"} \cup Terminal]
    /\ owned \in [Process -> BOOLEAN]
    /\ hold \in [Process -> HoldStatus]
    /\ token \in [Process -> BOOLEAN]
    /\ cancelled \in [Process -> BOOLEAN]
    /\ job \in [Process -> JobRecord]
    /\ killer \in [Killer -> KillRecord]
    /\ waiter \in [Waiter -> WaitRecord]
    /\ closes \in [Process -> Nat]

\* A reservation is closed at most once, whatever the task and any number of
\* killers do to the process and whichever store calls fail.
ClosedAtMostOnce == \A p \in Process : closes[p] <= 1

\* The record was written, but the caller of spawn was gone: nobody runs it.
Abandoned(p) == Drops /\ JobAt(p, "lost") /\ hold[p] = "Released" /\ ~ owned[p]

\* A reservation follows its process: a start that was refused gives it back, it
\* is active while the process runs (but for an abandoned start), it is closed by
\* the time the call that ended the process is over, and only a completed process
\* is charged.
HoldFollowsStatus ==
    \A p \in Process :
        /\ status[p] = "Absent" /\ hold[p] = "Active" => JobAt(p, "start")
        /\ status[p] = "Running" => hold[p] = "Active" \/ Abandoned(p)
        /\ hold[p] = "Reconciled" => status[p] = "Completed"
        /\ hold[p] = "Released" => status[p] # "Completed"
        /\ status[p] \in Terminal /\ hold[p] = "Active" =>
             \/ JobAt(p, "close")
             \/ \E k \in Killer : KillAt(k, "close") /\ killer[k].proc = p

\* "Terminal states are protected: Completed, Failed, and Killed cannot be
\* overwritten by a late background completion."
TerminalIsFinal ==
    [][\A p \in Process : status[p] \in Terminal => status'[p] = status[p]]_vars

\* await_result gives up only on a process that was killed: what its task ends
\* has a result before it has a terminal status, and both reads of a poll may
\* fall anywhere in between.
GivesUpOnlyOnKilled ==
    \A w \in Waiter :
        waiter[w].pc = "unavailable" => status[waiter[w].proc] = "Killed"

\* The record is Running and nothing is left to end it: a restart took the task and
\* any kill that was under way, or the caller of spawn was gone before the task began.
Orphaned(p) == status[p] = "Running" /\ JobAt(p, "lost")

\* A running process ends without an operator's help: by its task, or, where the
\* task finds the record or its reservation taken, by the kill that took it.  Only
\* an orphan "will remain stuck at Running", as the comment on spawn warns.
RunningEnds ==
    \A p \in Process : status[p] = "Running" ~> status[p] \in Terminal \/ Orphaned(p)

\* await_result returns, with a result or without, however kills and the writes of
\* the task fall between the reads of its poll; it waits on only while its process
\* is an orphan, and returns when that is killed.  A restart takes the caller away.
WaiterReturns ==
    \A w \in Waiter :
        waiter[w].pc = "result" ~> \/ waiter[w].pc \in {"idle", "found", "unavailable"}
                                  \/ Orphaned(waiter[w].proc)

\* On the inner store a kill that returns leaves an ended process behind, also when
\* the process is an orphan of an earlier life of the runtime and its token is gone.
KillIsEffective ==
    [][\A k \in Killer :
         killer[k].pc # "idle" /\ killer'[k].pc = "idle" /\ ~ Crash
           => status[killer[k].proc] \in Terminal]_vars
=============================================================================
