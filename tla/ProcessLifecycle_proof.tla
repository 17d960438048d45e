----------------------- MODULE ProcessLifecycle_proof -----------------------
(***************************************************************************)
(* Proofs about background processes, for any number of processes, killers *)
(* and waiters, with or without resource management, store failures and    *)
(* restarts; a theorem that needs more says so in its hypotheses.          *)
(***************************************************************************)
EXTENDS ProcessLifecycle, TLAPS

\* The store operations are one assignment each and are expanded everywhere.
USE DEF CreateRecord, UpdateStatus, StoreResult

\* What the program-counter moves do to the tasks.
LEMMA JobGotoEffect ==
    ASSUME TypeOK, NEW p \in Process, NEW pc \in JobPc, JobGoto(p, pc)
    PROVE  /\ job' \in [Process -> JobRecord]
           /\ job'[p].pc = pc
           /\ job'[p].outcome = job[p].outcome
           /\ \A q \in Process : q # p => job'[q] = job[q]
  BY DEF TypeOK, JobGoto, JobRecord

\* A killer that moves on keeps its process; the other killers stay where they are.
LEMMA KillGotoEffect ==
    ASSUME TypeOK, NEW k \in Killer, NEW pc \in KillPc, KillGoto(k, pc)
    PROVE  /\ killer' \in [Killer -> KillRecord]
           /\ killer'[k].pc = pc
           /\ killer'[k].proc = killer[k].proc
           /\ \A l \in Killer : l # k => killer'[l] = killer[l]
  BY DEF TypeOK, KillGoto, KillRecord

\* The idle records have their types.
LEMMA NoTask == NoJob \in JobRecord /\ NoKill \in KillRecord /\ NoWait \in WaitRecord
  <1>1. (CHOOSE p \in Process : TRUE) \in Process
    BY ProcessAssumption
  <1>2. QED
    BY <1>1 DEF NoJob, NoKill, NoWait, JobRecord, KillRecord, WaitRecord, JobPc, KillPc, WaitPc

\* A killer that returns is idle; the other killers stay where they are.
LEMMA KillReturnEffect ==
    ASSUME TypeOK, NEW k \in Killer, KillReturn(k)
    PROVE  /\ killer' \in [Killer -> KillRecord]
           /\ killer'[k] = NoKill
           /\ \A l \in Killer : l # k => killer'[l] = killer[l]
  BY NoTask DEF TypeOK, KillReturn

\* A close is counted, and leaves the other reservations alone.
LEMMA CloseHoldEffect ==
    ASSUME TypeOK, NEW p \in Process, NEW how \in {"Reconciled", "Released"}, CloseHold(p, how)
    PROVE  /\ hold' \in [Process -> HoldStatus] /\ closes' \in [Process -> Nat]
           /\ closes'[p] = closes[p] + 1
           /\ \A q \in Process : q # p => closes'[q] = closes[q]
  <1>1. (IF hold[p] = "Active" THEN how ELSE hold[p]) \in HoldStatus
    BY DEF TypeOK, HoldStatus
  <1>2. QED
    BY <1>1 DEF TypeOK, CloseHold

\* Every step preserves the type invariant.
LEMMA TypeStep == TypeOK /\ [Next]_vars => TypeOK'
  <1> SUFFICES ASSUME TypeOK, Next PROVE TypeOK'
    BY DEF TypeOK, vars
  <1> USE DEF stores, holds, registry
  <1>t. /\ status \in [Process -> ProcessStatus]
        /\ result \in [Process -> {"None"} \cup Terminal]
        /\ owned \in [Process -> BOOLEAN]
        /\ hold \in [Process -> HoldStatus]
        /\ token \in [Process -> BOOLEAN]
        /\ cancelled \in [Process -> BOOLEAN]
        /\ job \in [Process -> JobRecord]
        /\ killer \in [Killer -> KillRecord]
        /\ waiter \in [Waiter -> WaitRecord]
        /\ closes \in [Process -> Nat]
    BY DEF TypeOK
  <1>j. \A p \in Process : job[p].outcome \in {"Completed", "Failed"}
    BY <1>t DEF JobRecord
  <1>1. ASSUME NEW p \in Process, Reserve(p) PROVE TypeOK'
    <2>1. hold' \in [Process -> HoldStatus]
      BY <1>1, <1>t DEF Reserve, HoldStatus
    <2>2. QED
      BY <1>1, <1>t, <2>1, JobGotoEffect DEF Reserve, TypeOK, JobPc
  <1>2. ASSUME NEW p \in Process, StartRecord(p) PROVE TypeOK'
    <2>1. hold' \in [Process -> HoldStatus] /\ closes' \in [Process -> Nat]
      BY <1>2, <1>t, CloseHoldEffect DEF StartRecord
    <2>2. status' \in [Process -> ProcessStatus]
      BY <1>2, <1>t DEF StartRecord, ProcessStatus
    <2>3. job' \in [Process -> JobRecord]
      BY <1>2, JobGotoEffect DEF StartRecord, JobPc
    <2>4. QED
      BY <1>2, <1>t, <2>1, <2>2, <2>3 DEF StartRecord, TypeOK
  <1>3. ASSUME NEW p \in Process, RecordOwned(p) PROVE TypeOK'
    BY <1>3, <1>t, JobGotoEffect DEF RecordOwned, TypeOK, JobPc
  <1>4. ASSUME NEW p \in Process, Register(p) PROVE TypeOK'
    BY <1>4, <1>t, JobGotoEffect DEF Register, TypeOK, JobPc
  <1>5. ASSUME NEW p \in Process, Execute(p) PROVE TypeOK'
    <2>1. \A o \in {"Completed", "Failed"} : [pc |-> "check", outcome |-> o] \in JobRecord
      BY DEF JobRecord, JobPc
    <2>2. QED
      BY <1>5, <1>t, <2>1 DEF Execute, TypeOK
  <1>6. ASSUME NEW p \in Process, CheckRunning(p) PROVE TypeOK'
    BY <1>6, <1>t, JobGotoEffect DEF CheckRunning, TypeOK, JobPc
  <1>7. ASSUME NEW p \in Process, WriteResult(p) PROVE TypeOK'
    <2>1. result' \in [Process -> {"None"} \cup Terminal]
      BY <1>7, <1>t, <1>j DEF WriteResult, Terminal
    <2>2. QED
      BY <1>7, <1>t, <2>1, JobGotoEffect DEF WriteResult, TypeOK, JobPc
  <1>8. ASSUME NEW p \in Process, TakeReservation(p) PROVE TypeOK'
    BY <1>8, <1>t, JobGotoEffect DEF TakeReservation, TypeOK, JobPc
  <1>9. ASSUME NEW p \in Process, Transition(p) PROVE TypeOK'
    <2>1. status' \in [Process -> ProcessStatus]
      BY <1>9, <1>t, <1>j DEF Transition, ProcessStatus, Terminal
    <2>2. owned' \in [Process -> BOOLEAN]
      BY <1>9, <1>t, ModeAssumption DEF Transition
    <2>3. job' \in [Process -> JobRecord]
      BY <1>9, JobGotoEffect DEF Transition, JobPc
    <2>4. QED
      BY <1>9, <1>t, <2>1, <2>2, <2>3 DEF Transition, TypeOK
  <1>10. ASSUME NEW p \in Process, CloseReservation(p) PROVE TypeOK'
    <2>1. hold' \in [Process -> HoldStatus] /\ closes' \in [Process -> Nat]
      BY <1>10, <1>t, CloseHoldEffect DEF CloseReservation
    <2>2. QED
      BY <1>10, <1>t, <2>1, JobGotoEffect DEF CloseReservation, TypeOK, JobPc
  <1>11. ASSUME NEW p \in Process, Unregister(p) PROVE TypeOK'
    BY <1>11, <1>t, JobGotoEffect DEF Unregister, TypeOK, JobPc
  <1>12. ASSUME NEW k \in Killer, NEW p \in Process, KillTake(k, p) PROVE TypeOK'
    <2>1. \A pc \in {"transition", "check"} : [pc |-> pc, proc |-> p] \in KillRecord
      BY DEF KillRecord, KillPc
    <2>2. QED
      BY <1>12, <1>t, <2>1 DEF KillTake, TypeOK
  <1>k. \A k \in Killer : killer[k].proc \in Process
    BY <1>t DEF KillRecord
  <1>13. ASSUME NEW k \in Killer, KillTransition(k) PROVE TypeOK'
    <2>1. status' \in [Process -> ProcessStatus]
      BY <1>13, <1>t DEF KillTransition, ProcessStatus, Terminal
    <2>2. owned' \in [Process -> BOOLEAN]
      BY <1>13, <1>t, ModeAssumption DEF KillTransition
    <2>3. killer' \in [Killer -> KillRecord]
      BY <1>13, KillGotoEffect DEF KillTransition, KillPc
    <2>4. QED
      BY <1>13, <1>t, <2>1, <2>2, <2>3 DEF KillTransition, TypeOK
  <1>14. ASSUME NEW k \in Killer, KillClose(k) PROVE TypeOK'
    <2>1. hold' \in [Process -> HoldStatus] /\ closes' \in [Process -> Nat]
      BY <1>14, <1>k, CloseHoldEffect DEF KillClose
    <2>2. QED
      BY <1>14, <1>t, <2>1, KillGotoEffect DEF KillClose, TypeOK, KillPc
  <1>15. ASSUME NEW k \in Killer, KillCheck(k) PROVE TypeOK'
    BY <1>15, <1>t, KillGotoEffect, KillReturnEffect DEF KillCheck, TypeOK, KillPc
  <1>16. ASSUME NEW k \in Killer, KillCancel(k) PROVE TypeOK'
    <2>1. token' \in [Process -> BOOLEAN] /\ cancelled' \in [Process -> BOOLEAN]
      BY <1>16, <1>t, <1>k DEF KillCancel
    <2>2. QED
      BY <1>16, <1>t, <2>1, KillGotoEffect DEF KillCancel, TypeOK, KillPc
  <1>17. ASSUME NEW k \in Killer, KillResult(k) PROVE TypeOK'
    <2>1. result' \in [Process -> {"None"} \cup Terminal]
      BY <1>17, <1>t DEF KillResult, Terminal
    <2>2. QED
      BY <1>17, <1>t, <2>1, KillReturnEffect DEF KillResult, TypeOK
  <1>18. ASSUME NEW w \in Waiter, NEW p \in Process, WaitStart(w, p) PROVE TypeOK'
    <2>1. [pc |-> "result", proc |-> p, seen |-> FALSE] \in WaitRecord
      BY DEF WaitRecord, WaitPc
    <2>2. QED
      BY <1>18, <1>t, <2>1 DEF WaitStart, TypeOK
  <1>19. ASSUME NEW w \in Waiter, WaitResult(w) PROVE TypeOK'
    <2>1. waiter' \in [Waiter -> WaitRecord]
      <3>1. CASE waiter' = [waiter EXCEPT ![w] = NoWait]
        BY <1>t, <3>1, NoTask
      <3>2. CASE waiter' = [waiter EXCEPT ![w].pc =
                   IF result[waiter[w].proc] # "None" THEN "found" ELSE "status"]
        BY <1>t, <3>2 DEF WaitRecord, WaitPc
      <3>3. QED
        BY <1>19, <3>1, <3>2 DEF WaitResult
    <2>2. QED
      BY <1>19, <1>t, <2>1 DEF WaitResult, TypeOK
  <1>20. ASSUME NEW w \in Waiter, WaitStatus(w) PROVE TypeOK'
    <2>1. waiter' \in [Waiter -> WaitRecord]
      <3> DEFINE ended == status[waiter[w].proc] \in Terminal
                 next == IF ended /\ waiter[w].seen THEN "unavailable" ELSE "result"
      <3>1. next \in WaitPc /\ ended \in BOOLEAN
        BY DEF WaitPc
      <3>2. \/ waiter' = [waiter EXCEPT ![w].pc = next, ![w].seen = ended]
            \/ waiter' = [waiter EXCEPT ![w] = NoWait]
        BY <1>20 DEF WaitStatus
      <3> HIDE DEF ended, next
      <3>3. CASE waiter' = [waiter EXCEPT ![w].pc = next, ![w].seen = ended]
        BY <1>t, <3>1, <3>3 DEF WaitRecord
      <3>4. CASE waiter' = [waiter EXCEPT ![w] = NoWait]
        BY <1>t, <3>4, NoTask
      <3>5. QED
        BY <3>2, <3>3, <3>4
    <2>2. QED
      BY <1>20, <1>t, <2>1 DEF WaitStatus, TypeOK
  <1>21. ASSUME Crash PROVE TypeOK'
    <2>1. job' \in [Process -> JobRecord]
      BY <1>21, <1>t, NoTask DEF Crash, JobRecord, JobPc
    <2>2. hold' \in [Process -> HoldStatus]
      BY <1>21 DEF Crash, HoldStatus
    <2>3. QED
      BY <1>21, <1>t, <2>1, <2>2, NoTask DEF Crash, TypeOK
  <1>22. ASSUME NEW p \in Process, StartDropped(p) PROVE TypeOK'
    <2>1. hold' \in [Process -> HoldStatus] /\ closes' \in [Process -> Nat]
      BY <1>22, <1>t, CloseHoldEffect DEF StartDropped
    <2>2. status' \in [Process -> ProcessStatus]
      BY <1>22, <1>t DEF StartDropped, ProcessStatus
    <2>3. job' \in [Process -> JobRecord]
      BY <1>22, JobGotoEffect DEF StartDropped, JobPc
    <2>4. QED
      BY <1>22, <1>t, <2>1, <2>2, <2>3 DEF StartDropped, TypeOK
  <1>23. QED
    BY <1>22, <1>1, <1>2, <1>3, <1>4, <1>5, <1>6, <1>7, <1>8, <1>9, <1>10, <1>11, <1>12,
       <1>13, <1>14, <1>15, <1>16, <1>17, <1>18, <1>19, <1>20, <1>21
       DEF Next, JobStep, KillStep, WaitStep

\* The type invariant, for every value of the constants.
THEOREM TypeCorrect == Spec => []TypeOK
  <1>1. Init => TypeOK
    BY NoTask DEF Init, TypeOK, ProcessStatus, HoldStatus
  <1>2. QED
    BY <1>1, TypeStep, PTL DEF Spec

-----------------------------------------------------------------------------
(* Who may close a reservation. *)

\* The task, or a killer, has the reservation in its hands.
JobOwns(p) == job[p].pc \in {"start", "own", "transition", "close"}
KillOwns(k, p) == killer[k].proc = p /\ killer[k].pc \in {"transition", "close"}

\* One owner at a time: the map of owned reservations, the task or one killer;
\* and while there is an owner nobody has closed.
OneOwner(p) ==
    /\ closes[p] <= 1
    /\ Managed =>
         /\ JobAt(p, "unborn") \/ JobOwns(p) =>
              closes[p] = 0 /\ ~ owned[p] /\ \A k \in Killer : ~ KillOwns(k, p)
         /\ owned[p] => closes[p] = 0 /\ \A k \in Killer : ~ KillOwns(k, p)
         /\ \A k \in Killer : KillOwns(k, p) => closes[p] = 0
         /\ \A k \in Killer, l \in Killer : KillOwns(k, p) /\ KillOwns(l, p) => k = l
    /\ ~ Managed =>
         /\ closes[p] = 0
         /\ job[p].pc \notin {"own", "close"}
         /\ \A k \in Killer : killer[k].proc = p => killer[k].pc # "close"

OwnerInv == \A p \in Process : OneOwner(p)

\* A process is not disturbed by a step that leaves its reservation where it is.
LEMMA OwnerFrame ==
    ASSUME NEW q \in Process, OneOwner(q),
           closes'[q] = closes[q], owned'[q] = owned[q],
           \/ job'[q].pc = job[q].pc
           \/ job'[q].pc \notin {"unborn", "start", "own", "transition", "close"},
           \A k \in Killer : killer'[k] = killer[k]
                             \/ killer'[k].pc \notin {"transition", "close"}
                             \/ killer'[k].proc # q
    PROVE  OneOwner(q)'
  BY DEF OneOwner, JobAt, JobOwns, KillOwns

\* Every step preserves the single ownership of reservations.
LEMMA OwnerStep == TypeOK /\ OwnerInv /\ [Next]_vars => OwnerInv'
  <1> SUFFICES ASSUME TypeOK, OwnerInv, Next, NEW q \in Process PROVE OneOwner(q)'
    BY DEF OwnerInv, OneOwner, JobAt, JobOwns, KillOwns, vars
  <1> USE DEF stores, holds, registry, JobAt, KillAt
  <1>o. /\ OneOwner(q) /\ closes[q] \in Nat
        /\ closes \in [Process -> Nat] /\ owned \in [Process -> BOOLEAN]
        /\ \A k \in Killer : killer[k].proc \in Process
    BY DEF OwnerInv, TypeOK, KillRecord
  <1>1. ASSUME NEW p \in Process, Reserve(p) PROVE OneOwner(q)'
    <2>1. /\ job'[p].pc = "start" /\ \A r \in Process : r # p => job'[r] = job[r]
          /\ UNCHANGED <<owned, closes, killer>> /\ job[p].pc = "unborn"
      BY <1>1, JobGotoEffect DEF Reserve, JobPc
    <2>2. QED
      BY <1>o, <2>1 DEF OneOwner, JobOwns, KillOwns
  <1>2. ASSUME NEW p \in Process, StartRecord(p) PROVE OneOwner(q)'
    <2>1. /\ \A r \in Process : r # p => job'[r] = job[r]
          /\ UNCHANGED <<owned, killer>> /\ job[p].pc = "start"
      BY <1>2, JobGotoEffect DEF StartRecord, JobPc
    <2>2. \/ /\ UNCHANGED closes
             /\ job'[p].pc = IF Managed THEN "own" ELSE "register"
          \/ /\ Managed => closes'[p] = closes[p] + 1
             /\ ~ Managed => UNCHANGED closes
             /\ \A r \in Process : r # p => closes'[r] = closes[r]
             /\ job'[p].pc = "done"
      BY <1>2, JobGotoEffect, CloseHoldEffect DEF StartRecord, JobPc
    <2>3. CASE q # p
      BY <1>o, <2>1, <2>2, <2>3, OwnerFrame
    <2>4. CASE q = p
      BY <1>o, <2>1, <2>2, <2>4 DEF OneOwner, JobOwns, KillOwns
    <2>5. QED
      BY <2>3, <2>4
  <1>3. ASSUME NEW p \in Process, RecordOwned(p) PROVE OneOwner(q)'
    <2>1. /\ \A r \in Process : r # p => job'[r] = job[r] /\ owned'[r] = owned[r]
          /\ UNCHANGED <<closes, killer>>
          /\ job[p].pc = "own" /\ job'[p].pc = "register" /\ owned'[p]
      BY <1>3, <1>o, JobGotoEffect DEF RecordOwned, JobPc
    <2>2. QED
      BY <1>o, <2>1 DEF OneOwner, JobOwns, KillOwns
  <1>4. ASSUME NEW p \in Process,
               \/ Register(p) \/ Execute(p) \/ CheckRunning(p) \/ WriteResult(p)
               \/ Unregister(p)
        PROVE  OneOwner(q)'
    <2>1. Execute(p) => /\ job'[p].pc = "check"
                        /\ \A r \in Process : r # p => job'[r] = job[r]
      BY DEF Execute, TypeOK
    <2>2. /\ job'[p].pc \in {"exec", "check", "result", "unregister", "take", "done"}
          /\ \A r \in Process : r # p => job'[r] = job[r]
          /\ UNCHANGED <<owned, closes, killer>>
      BY <1>4, <2>1, JobGotoEffect
         DEF Register, Execute, CheckRunning, WriteResult, Unregister, JobPc
    <2>3. QED
      BY <1>o, <2>2, OwnerFrame
  <1>5. ASSUME NEW p \in Process, TakeReservation(p) PROVE OneOwner(q)'
    <2>1. /\ \A r \in Process : r # p => job'[r] = job[r] /\ owned'[r] = owned[r]
          /\ UNCHANGED <<closes, killer>>
      BY <1>5, <1>o, JobGotoEffect DEF TakeReservation, JobPc
    <2>2. \/ (Managed => owned[p]) /\ ~ owned'[p] /\ job'[p].pc = "transition"
          \/ owned'[p] = owned[p] /\ job'[p].pc = "unregister"
      BY <1>5, <1>o, JobGotoEffect DEF TakeReservation, MayTake, JobPc
    <2>3. CASE q # p
      BY <1>o, <2>1, <2>3, OwnerFrame
    <2>4. CASE q = p
      BY <1>o, <2>1, <2>2, <2>4 DEF OneOwner, JobOwns, KillOwns
    <2>5. QED
      BY <2>3, <2>4
  <1>6. ASSUME NEW p \in Process, Transition(p) PROVE OneOwner(q)'
    <2>1. /\ \A r \in Process : r # p => job'[r] = job[r] /\ owned'[r] = owned[r]
          /\ UNCHANGED <<closes, killer>> /\ job[p].pc = "transition"
      BY <1>6, <1>o, JobGotoEffect DEF Transition, JobPc
    <2>2. \/ owned'[p] = owned[p] /\ job'[p].pc = IF Managed THEN "close" ELSE "unregister"
          \/ owned'[p] = Managed /\ job'[p].pc = "unregister"
      BY <1>6, <1>o, JobGotoEffect DEF Transition, JobPc
    <2>3. CASE q # p
      BY <1>o, <2>1, <2>3, OwnerFrame
    <2>4. CASE q = p
      BY <1>o, <2>1, <2>2, <2>4 DEF OneOwner, JobOwns, KillOwns
    <2>5. QED
      BY <2>3, <2>4
  <1>7. ASSUME NEW p \in Process, CloseReservation(p) PROVE OneOwner(q)'
    <2>1. /\ \A r \in Process : r # p => job'[r] = job[r] /\ closes'[r] = closes[r]
          /\ UNCHANGED <<owned, killer>> /\ job[p].pc = "close"
          /\ closes'[p] = closes[p] + 1 /\ job'[p].pc = "unregister"
      BY <1>7, JobGotoEffect, CloseHoldEffect DEF CloseReservation, JobPc
    <2>2. CASE q # p
      BY <1>o, <2>1, <2>2, OwnerFrame
    <2>3. CASE q = p
      BY <1>o, <2>1, <2>3 DEF OneOwner, JobOwns, KillOwns
    <2>4. QED
      BY <2>2, <2>3
  <1>8. ASSUME NEW k \in Killer, NEW p \in Process, KillTake(k, p) PROVE OneOwner(q)'
    <2>1. /\ \A l \in Killer : l # k => killer'[l] = killer[l]
          /\ \A r \in Process : r # p => owned'[r] = owned[r]
          /\ UNCHANGED <<closes, job>> /\ killer'[k].proc = p /\ killer[k].pc = "idle"
      BY <1>8, <1>o DEF KillTake, TypeOK
    <2>2. \/ (Managed => owned[p]) /\ ~ owned'[p] /\ killer'[k].pc = "transition"
          \/ owned'[p] = owned[p] /\ killer'[k].pc = "check"
      BY <1>8, <1>o DEF KillTake, MayTake, TypeOK
    <2>3. CASE q # p
      BY <1>o, <2>1, <2>3, OwnerFrame
    <2>4. CASE q = p
      BY <1>o, <2>1, <2>2, <2>4 DEF OneOwner, JobOwns, KillOwns
    <2>5. QED
      BY <2>3, <2>4
  <1>9. ASSUME NEW k \in Killer, KillTransition(k) PROVE OneOwner(q)'
    <2> DEFINE p == killer[k].proc
    <2>1. /\ \A l \in Killer : l # k => killer'[l] = killer[l]
          /\ \A r \in Process : r # p => owned'[r] = owned[r]
          /\ UNCHANGED <<closes, job>> /\ killer'[k].proc = p /\ killer[k].pc = "transition"
      BY <1>9, <1>o, KillGotoEffect DEF KillTransition, KillPc
    <2>2. \/ owned'[p] = owned[p] /\ killer'[k].pc = IF Managed THEN "close" ELSE "cancel"
          \/ owned'[p] = Managed /\ killer'[k].pc = "check"
      BY <1>9, <1>o, KillGotoEffect DEF KillTransition, KillPc
    <2>3. CASE q # p
      BY <1>o, <2>1, <2>3, OwnerFrame
    <2>4. CASE q = p
      BY <1>o, <2>1, <2>2, <2>4 DEF OneOwner, JobOwns, KillOwns
    <2>5. QED
      BY <2>3, <2>4
  <1>10. ASSUME NEW k \in Killer, KillClose(k) PROVE OneOwner(q)'
    <2> DEFINE p == killer[k].proc
    <2>1. /\ \A l \in Killer : l # k => killer'[l] = killer[l]
          /\ \A r \in Process : r # p => closes'[r] = closes[r]
          /\ UNCHANGED <<owned, job>> /\ killer'[k].proc = p /\ killer[k].pc = "close"
          /\ closes'[p] = closes[p] + 1 /\ killer'[k].pc = "cancel"
      BY <1>10, <1>o, KillGotoEffect, CloseHoldEffect DEF KillClose, KillPc
    <2>2. CASE q # p
      BY <1>o, <2>1, <2>2, OwnerFrame
    <2>3. CASE q = p
      BY <1>o, <2>1, <2>3 DEF OneOwner, JobOwns, KillOwns
    <2>4. QED
      BY <2>2, <2>3
  <1>11. ASSUME NEW k \in Killer, KillCheck(k) \/ KillCancel(k) \/ KillResult(k)
         PROVE  OneOwner(q)'
    <2>1. NoKill.pc = "idle"
      BY DEF NoKill
    <2>2. /\ killer'[k].pc \in {"cancel", "result", "idle"}
          /\ \A l \in Killer : l # k => killer'[l] = killer[l]
          /\ UNCHANGED <<owned, closes, job>>
      BY <1>11, <2>1, KillGotoEffect, KillReturnEffect
         DEF KillCheck, KillCancel, KillResult, KillPc
    <2>3. QED
      BY <1>o, <2>2, OwnerFrame
  <1>12. ASSUME NEW w \in Waiter, \/ \E p \in Process : WaitStart(w, p)
                                  \/ WaitResult(w) \/ WaitStatus(w)
         PROVE  OneOwner(q)'
    <2>1. UNCHANGED <<owned, closes, job, killer>>
      BY <1>12 DEF WaitStart, WaitResult, WaitStatus
    <2>2. QED
      BY <1>o, <2>1, OwnerFrame
  <1>13. ASSUME Crash PROVE OneOwner(q)'
    <2>1. /\ \A k \in Killer : killer'[k].pc = "idle"
          /\ ~ owned'[q] /\ closes'[q] = closes[q]
      BY <1>13 DEF Crash, NoKill
    <2>2. job'[q].pc = IF job[q].pc = "unborn" THEN "unborn" ELSE "lost"
      BY <1>13 DEF Crash, NoJob, TypeOK, JobRecord
    <2>3. QED
      BY <1>o, <2>1, <2>2 DEF OneOwner, JobOwns, KillOwns
  <1>14. ASSUME NEW p \in Process, StartDropped(p) PROVE OneOwner(q)'
    <2>1. /\ \A r \in Process : r # p => job'[r] = job[r]
          /\ UNCHANGED <<owned, killer>> /\ job[p].pc = "start" /\ job'[p].pc = "lost"
      BY <1>14, JobGotoEffect DEF StartDropped, JobPc
    <2>2. /\ Managed => closes'[p] = closes[p] + 1
          /\ ~ Managed => UNCHANGED closes
          /\ \A r \in Process : r # p => closes'[r] = closes[r]
      BY <1>14, CloseHoldEffect DEF StartDropped
    <2>3. CASE q # p
      BY <1>o, <2>1, <2>2, <2>3, OwnerFrame
    <2>4. CASE q = p
      BY <1>o, <2>1, <2>2, <2>4 DEF OneOwner, JobOwns, KillOwns
    <2>5. QED
      BY <2>3, <2>4
  <1>15. QED
    BY <1>1, <1>2, <1>3, <1>4, <1>5, <1>6, <1>7, <1>8, <1>9, <1>10, <1>11, <1>12,
       <1>13, <1>14 DEF Next, JobStep, KillStep, WaitStep

\* The reservation of a process is reconciled or released at most once, for
\* any number of killers racing the task and whichever store calls fail.
THEOREM ReservationClosedOnce == Spec => []ClosedAtMostOnce
  <1>1. Init => OwnerInv
    <2> SUFFICES ASSUME Init, NEW p \in Process PROVE OneOwner(p)
      BY DEF OwnerInv
    <2>1. /\ closes[p] = 0 /\ ~ owned[p] /\ job[p].pc = "unborn"
          /\ \A k \in Killer : killer[k].pc = "idle"
      BY DEF Init, NoJob, NoKill
    <2>2. QED
      BY <2>1 DEF OneOwner, JobAt, JobOwns, KillOwns
  <1>2. OwnerInv => ClosedAtMostOnce
    BY DEF OwnerInv, OneOwner, ClosedAtMostOnce
  <1>3. QED
    BY <1>1, <1>2, TypeCorrect, OwnerStep, PTL DEF Spec

-----------------------------------------------------------------------------
(* Terminal states, and what await_result reports. *)

\* What one step does to the status of a process.
LEMMA StatusStep ==
    ASSUME TypeOK, Next, NEW p \in Process
    PROVE  \/ status'[p] = status[p]
           \/ status[p] = "Absent" /\ status'[p] = "Running"
           \/ /\ status[p] = "Running" /\ job[p].pc = "transition"
              /\ status'[p] = job[p].outcome
           \/ status[p] = "Running" /\ status'[p] = "Killed"
  <1> USE DEF stores, JobAt
  <1>1. ASSUME NEW r \in Process, Reserve(r) \/ StartDropped(r) \/ JobStep(r)
        PROVE  \/ status'[p] = status[p]
               \/ status[p] = "Absent" /\ status'[p] = "Running"
               \/ /\ status[p] = "Running" /\ job[p].pc = "transition"
                  /\ status'[p] = job[p].outcome
    BY <1>1 DEF Reserve, StartDropped, JobStep, StartRecord, RecordOwned, Register, Execute,
                CheckRunning, WriteResult, TakeReservation, Transition,
                CloseReservation, Unregister, TypeOK
  <1>2. ASSUME NEW k \in Killer, KillStep(k) \/ \E r \in Process : KillTake(k, r)
        PROVE  \/ status'[p] = status[p]
               \/ status[p] = "Running" /\ status'[p] = "Killed"
    <2>1. \/ status' = status
          \/ /\ status[killer[k].proc] = "Running"
             /\ status' = [status EXCEPT ![killer[k].proc] = "Killed"]
      BY <1>2, Zenon DEF KillStep, KillTake, KillTransition, KillClose, KillCheck,
                         KillCancel, KillResult
    <2>2. status \in [Process -> ProcessStatus] /\ killer[k].proc \in Process
      BY DEF TypeOK, KillRecord
    <2>3. QED
      BY <2>1, <2>2
  <1>3. ASSUME NEW w \in Waiter, WaitStep(w) \/ \E r \in Process : WaitStart(w, r)
        PROVE  status'[p] = status[p]
    BY <1>3 DEF WaitStep, WaitStart, WaitResult, WaitStatus
  <1>4. ASSUME Crash PROVE status'[p] = status[p]
    BY <1>4 DEF Crash
  <1>5. QED
    BY <1>1, <1>2, <1>3, <1>4 DEF Next

\* A terminal status is final: no late completion, second kill or restart
\* overwrites it.
THEOREM TerminalStays == Spec => TerminalIsFinal
  <1>1. TypeOK /\ [Next]_vars =>
          [\A p \in Process : status[p] \in Terminal => status'[p] = status[p]]_vars
    BY StatusStep DEF Terminal
  <1>2. QED
    BY <1>1, TypeCorrect, PTL DEF Spec, TerminalIsFinal

\* A killer in progress has seen a record, and past the transition of the inner
\* store the process has ended, by this kill or by whoever was first.
KillInv ==
    \A k \in Killer :
        /\ killer[k].pc # "idle" => status[killer[k].proc] # "Absent"
        /\ killer[k].pc \notin {"idle", "transition"} => status[killer[k].proc] \in Terminal

\* Where one kill goes on the inner store while no call fails.
LEMMA KillMoves ==
    ASSUME ~ Managed, ~ StoreFaults, TypeOK, KillInv, NEW k \in Killer,
           KillStep(k) \/ \E p \in Process : KillTake(k, p)
    PROVE  /\ \A l \in Killer : l # k => killer'[l] = killer[l]
           /\ \/ /\ killer'[k].pc = "transition" /\ status[killer'[k].proc] # "Absent"
              \/ /\ killer'[k].pc # "idle" /\ killer'[k].proc = killer[k].proc
                 /\ status'[killer[k].proc] \in Terminal
              \/ /\ killer'[k].pc = "idle" /\ status[killer[k].proc] \in Terminal
  <1> USE DEF stores, KillAt
  <1>t. killer[k] \in KillRecord /\ status \in [Process -> ProcessStatus]
        /\ killer \in [Killer -> KillRecord]
    BY DEF TypeOK
  <1>p. killer[k].proc \in Process
    BY <1>t DEF KillRecord
  <1>1. ASSUME NEW p \in Process, KillTake(k, p)
        PROVE  /\ \A l \in Killer : l # k => killer'[l] = killer[l]
               /\ killer'[k].pc = "transition" /\ status[killer'[k].proc] # "Absent"
    BY <1>1, <1>t DEF KillTake, MayTake
  <1>2. CASE KillTransition(k)
    <2>1. /\ \A l \in Killer : l # k => killer'[l] = killer[l]
          /\ killer'[k].pc \in {"cancel", "check"} /\ killer'[k].proc = killer[k].proc
      BY <1>2, KillGotoEffect DEF KillTransition, KillPc
    <2>2. status'[killer[k].proc] \in Terminal
      <3>1. status[killer[k].proc] # "Absent"
        BY <1>2 DEF KillInv, KillTransition
      <3>2. status[killer[k].proc] \in ProcessStatus
        BY <1>t, <1>p
      <3>3. QED
        BY <1>2, <1>t, <1>p, <3>1, <3>2 DEF KillTransition, ProcessStatus, Terminal
    <2>3. QED
      BY <2>1, <2>2
  <1>3. CASE KillClose(k) \/ KillCancel(k)
    <2>1. UNCHANGED status /\ status[killer[k].proc] \in Terminal
      BY <1>3 DEF KillClose, KillCancel, KillInv
    <2>2. PICK pc \in {"cancel", "result"} : KillGoto(k, pc)
      BY <1>3 DEF KillClose, KillCancel
    <2>3. pc \in KillPc /\ pc # "idle"
      BY <2>2 DEF KillPc
    <2>4. /\ killer'[k].pc = pc /\ killer'[k].proc = killer[k].proc
          /\ \A l \in Killer : l # k => killer'[l] = killer[l]
      BY <2>2, <2>3, KillGotoEffect
    <2>5. QED
      BY <2>1, <2>3, <2>4
  <1>4. CASE KillCheck(k) \/ KillResult(k)
    <2>1. UNCHANGED status /\ status[killer[k].proc] \in Terminal
      BY <1>4 DEF KillCheck, KillResult, KillInv
    <2>2. CASE KillReturn(k)
      <3>1. /\ killer'[k].pc = "idle"
            /\ \A l \in Killer : l # k => killer'[l] = killer[l]
        BY <1>t, <2>2 DEF KillReturn, NoKill
      <3>2. QED
        BY <2>1, <3>1
    <2>3. CASE KillGoto(k, "cancel")
      <3>1. /\ killer'[k].pc = "cancel" /\ killer'[k].proc = killer[k].proc
            /\ \A l \in Killer : l # k => killer'[l] = killer[l]
        BY <2>3, KillGotoEffect DEF KillPc
      <3>2. QED
        BY <2>1, <3>1
    <2>4. QED
      BY <1>4, <2>2, <2>3 DEF KillCheck, KillResult
  <1>5. QED
    BY <1>1, <1>2, <1>3, <1>4 DEF KillStep

\* The other steps leave the killers alone, or end them all.
LEMMA KillersRest ==
    ASSUME Next, ~ Crash, NEW l \in Killer, killer'[l] # killer[l]
    PROVE  \E k \in Killer : KillStep(k) \/ \E p \in Process : KillTake(k, p)
  <1>1. ASSUME NEW r \in Process, Reserve(r) \/ StartDropped(r) \/ JobStep(r) PROVE FALSE
    BY <1>1 DEF Reserve, StartDropped, JobStep, StartRecord, RecordOwned, Register, Execute,
                CheckRunning, WriteResult, TakeReservation, Transition,
                CloseReservation, Unregister
  <1>2. ASSUME NEW w \in Waiter, WaitStep(w) \/ \E r \in Process : WaitStart(w, r)
        PROVE  FALSE
    BY <1>2 DEF WaitStep, WaitStart, WaitResult, WaitStatus
  <1>3. QED
    BY <1>1, <1>2 DEF Next

\* Every step keeps what a killer knows of its process.
LEMMA KillInvStep ==
    ASSUME ~ Managed, ~ StoreFaults
    PROVE  TypeOK /\ KillInv /\ [Next]_vars => KillInv'
  <1> SUFFICES ASSUME TypeOK, KillInv, Next, NEW l \in Killer
               PROVE  /\ killer'[l].pc # "idle" => status'[killer'[l].proc] # "Absent"
                      /\ killer'[l].pc \notin {"idle", "transition"} =>
                           status'[killer'[l].proc] \in Terminal
    BY DEF KillInv, vars
  <1>s. \A p \in Process : /\ status[p] # "Absent" => status'[p] # "Absent"
                           /\ status[p] \in Terminal => status'[p] \in Terminal
    BY StatusStep DEF Terminal, TypeOK, JobRecord
  <1>p. killer[l].proc \in Process
    BY DEF TypeOK, KillRecord
  <1>1. CASE Crash
    BY <1>1 DEF Crash, NoKill
  <1>2. CASE killer'[l] = killer[l]
    BY <1>2, <1>s, <1>p DEF KillInv
  <1>3. CASE ~ Crash /\ killer'[l] # killer[l]
    <2>1. PICK k \in Killer : KillStep(k) \/ \E p \in Process : KillTake(k, p)
      BY <1>3, KillersRest
    <2>2. k = l
      BY <1>3, <2>1, KillMoves
    <2>3. TypeOK'
      BY TypeStep
    <2>4. killer'[l].proc \in Process
      BY <2>3 DEF TypeOK, KillRecord
    <2>5. QED
      BY <1>s, <2>1, <2>2, <2>4, KillMoves DEF Terminal
  <1>4. QED
    BY <1>1, <1>2, <1>3

\* On the inner store, while no store call fails, a kill that returns leaves an
\* ended process behind, for any number of processes and killers, in whichever life
\* of the runtime the process was started.
THEOREM KillsAreEffective ==
    ASSUME ~ Managed, ~ StoreFaults
    PROVE  Spec => KillIsEffective
  <1>1. Init => KillInv
    BY DEF Init, KillInv, NoKill
  <1>2. TypeOK /\ KillInv /\ [Next]_vars =>
          [\A k \in Killer :
             killer[k].pc # "idle" /\ killer'[k].pc = "idle" /\ ~ Crash
               => status[killer[k].proc] \in Terminal]_vars
    <2> SUFFICES ASSUME TypeOK, KillInv, Next, NEW l \in Killer, killer[l].pc # "idle",
                        killer'[l].pc = "idle", ~ Crash
                 PROVE  status[killer[l].proc] \in Terminal
      OBVIOUS
    <2>1. PICK k \in Killer : KillStep(k) \/ \E p \in Process : KillTake(k, p)
      BY KillersRest
    <2>2. QED
      BY <2>1, KillMoves
  <1>3. QED
    BY <1>1, <1>2, KillInvStep, TypeCorrect, PTL DEF Spec, KillIsEffective

\* What a task ends has a result: it is written before the task asks for the
\* transition and never removed.  A waiter that saw a terminal status and then
\* found no result is looking at a killed process.
ResultFirst ==
    /\ \A p \in Process :
         /\ status[p] \in {"Completed", "Failed"} => result[p] # "None"
         /\ job[p].pc \in {"take", "transition"} => result[p] # "None"
    /\ \A w \in Waiter :
         /\ waiter[w].pc = "result" /\ waiter[w].seen => status[waiter[w].proc] \in Terminal
         /\ waiter[w].pc = "status" /\ waiter[w].seen => status[waiter[w].proc] = "Killed"
         /\ waiter[w].pc = "unavailable" => status[waiter[w].proc] = "Killed"

\* A result record, once written, is at most overwritten.
LEMMA ResultStep ==
    ASSUME TypeOK, Next, NEW p \in Process, result[p] # "None"
    PROVE  result'[p] # "None"
  <1> USE DEF stores, TypeOK
  <1>1. ASSUME NEW r \in Process, Reserve(r) \/ StartDropped(r) \/ JobStep(r) PROVE result'[p] # "None"
    <2>1. job[r].outcome # "None"
      BY DEF JobRecord
    <2>2. QED
      BY <1>1, <2>1 DEF Reserve, StartDropped, JobStep, StartRecord, RecordOwned, Register, Execute,
                CheckRunning, WriteResult, TakeReservation, Transition,
                CloseReservation, Unregister
  <1>2. ASSUME NEW k \in Killer, KillStep(k) \/ \E r \in Process : KillTake(k, r)
        PROVE  result'[p] # "None"
    BY <1>2 DEF KillStep, KillTake, KillTransition, KillClose, KillCheck, KillCancel,
                KillResult
  <1>3. ASSUME NEW w \in Waiter, WaitStep(w) \/ \E r \in Process : WaitStart(w, r)
        PROVE  result'[p] # "None"
    BY <1>3 DEF WaitStep, WaitStart, WaitResult, WaitStatus
  <1>4. ASSUME Crash PROVE result'[p] # "None"
    BY <1>4 DEF Crash
  <1>5. QED
    BY <1>1, <1>2, <1>3, <1>4 DEF Next

\* A task that asks for the transition got there past the write of its result.
LEMMA TaskStep ==
    ASSUME TypeOK, Next, NEW p \in Process, job'[p].pc \in {"take", "transition"}
    PROVE  job[p].pc \in {"take", "transition"} \/ result'[p] # "None"
  <1> USE DEF stores, JobAt
  <1>1. ASSUME NEW r \in Process, Reserve(r) \/ StartDropped(r) \/ JobStep(r)
        PROVE  job[p].pc \in {"take", "transition"} \/ result'[p] # "None"
    <2>1. \A o \in {"Completed", "Failed"} :
            job' = [job EXCEPT ![r] = [pc |-> "check", outcome |-> o]]
              => job'[r].pc = "check" /\ \A s \in Process : s # r => job'[s] = job[s]
      BY DEF TypeOK
    <2>2. CASE r # p
      <3>1. job'[p] = job[p]
        BY <1>1, <2>1, <2>2, JobGotoEffect
           DEF Reserve, StartDropped, JobStep, StartRecord, RecordOwned, Register, Execute,
               CheckRunning, WriteResult, TakeReservation, Transition,
               CloseReservation, Unregister, JobPc
      <3>2. QED
        BY <3>1
    <2>3. CASE r = p
      <3>1. WriteResult(p) \/ TakeReservation(p)
        BY <1>1, <2>1, <2>3, JobGotoEffect
           DEF Reserve, StartDropped, JobStep, StartRecord, RecordOwned, Register, Execute,
               CheckRunning, WriteResult, TakeReservation, Transition,
               CloseReservation, Unregister, JobPc
      <3>2. CASE TakeReservation(p)
        BY <3>2 DEF TakeReservation
      <3>3. CASE WriteResult(p)
        <4>1. ~ JobGoto(p, "unregister")
          BY JobGotoEffect DEF JobPc
        <4>2. result' = [result EXCEPT ![p] = job[p].outcome] /\ job[p].outcome # "None"
          BY <3>3, <4>1 DEF WriteResult, TypeOK, JobRecord
        <4>3. QED
          BY <4>2 DEF TypeOK
      <3>4. QED
        BY <3>1, <3>2, <3>3
    <2>4. QED
      BY <2>2, <2>3
  <1>2. ASSUME \/ \E k \in Killer : KillStep(k) \/ \E r \in Process : KillTake(k, r)
               \/ \E w \in Waiter : WaitStep(w) \/ \E r \in Process : WaitStart(w, r)
        PROVE  UNCHANGED job
    BY <1>2 DEF KillStep, KillTake, KillTransition, KillClose, KillCheck, KillCancel,
                KillResult, WaitStep, WaitStart, WaitResult, WaitStatus
  <1>3. ASSUME Crash PROVE FALSE
    BY <1>3 DEF Crash, NoJob, TypeOK, JobRecord
  <1>4. QED
    BY <1>1, <1>2, <1>3 DEF Next

\* What one step does to a waiter.
LEMMA WaiterStep ==
    ASSUME TypeOK, Next, NEW w \in Waiter
    PROVE  \/ waiter'[w] = waiter[w]
           \/ waiter'[w] = NoWait
           \/ waiter'[w].pc = "result" /\ ~ waiter'[w].seen
           \/ /\ UNCHANGED <<status, result>> /\ waiter'[w].proc = waiter[w].proc
              /\ \/ /\ waiter[w].pc = "result" /\ waiter'[w].seen = waiter[w].seen
                    /\ \/ waiter'[w].pc = "found"
                       \/ waiter'[w].pc = "status" /\ result[waiter[w].proc] = "None"
                 \/ /\ waiter[w].pc = "status"
                    /\ \/ waiter'[w].pc = "unavailable" /\ waiter[w].seen
                       \/ /\ waiter'[w].pc = "result"
                          /\ waiter'[w].seen => status[waiter[w].proc] \in Terminal
  <1> USE DEF stores
  <1>1. ASSUME NEW v \in Waiter, NEW p \in Process, WaitStart(v, p)
        PROVE  waiter'[w] = waiter[w] \/ (waiter'[w].pc = "result" /\ ~ waiter'[w].seen)
    BY <1>1 DEF WaitStart, TypeOK
  <1>2. ASSUME NEW v \in Waiter, WaitResult(v), v # w PROVE waiter'[w] = waiter[w]
    BY <1>2 DEF WaitResult, TypeOK
  <1>3. ASSUME NEW v \in Waiter, WaitStatus(v), v # w PROVE waiter'[w] = waiter[w]
    BY <1>3 DEF WaitStatus, TypeOK
  <1>4. ASSUME WaitResult(w), waiter' # [waiter EXCEPT ![w] = NoWait]
        PROVE  /\ UNCHANGED <<status, result>> /\ waiter'[w].proc = waiter[w].proc
               /\ waiter[w].pc = "result" /\ waiter'[w].seen = waiter[w].seen
               /\ \/ waiter'[w].pc = "found"
                  \/ waiter'[w].pc = "status" /\ result[waiter[w].proc] = "None"
    <2>1. waiter[w] \in WaitRecord /\ waiter \in [Waiter -> WaitRecord]
      BY DEF TypeOK
    <2>2. QED
      BY <1>4, <2>1 DEF WaitResult, WaitRecord
  <1>5. ASSUME WaitStatus(w), waiter' # [waiter EXCEPT ![w] = NoWait]
        PROVE  /\ UNCHANGED <<status, result>> /\ waiter'[w].proc = waiter[w].proc
               /\ waiter[w].pc = "status"
               /\ \/ waiter'[w].pc = "unavailable" /\ waiter[w].seen
                  \/ /\ waiter'[w].pc = "result"
                     /\ waiter'[w].seen => status[waiter[w].proc] \in Terminal
    <2>1. waiter[w] \in WaitRecord /\ waiter \in [Waiter -> WaitRecord]
      BY DEF TypeOK
    <2> DEFINE ended == status[waiter[w].proc] \in Terminal
               next == IF ended /\ waiter[w].seen THEN "unavailable" ELSE "result"
    <2>2. waiter' = [waiter EXCEPT ![w].pc = next, ![w].seen = ended]
      BY <1>5 DEF WaitStatus
    <2>3. (next = "unavailable" /\ waiter[w].seen) \/ next = "result"
      OBVIOUS
    <2>4. ended => status[waiter[w].proc] \in Terminal
      OBVIOUS
    <2>5. UNCHANGED <<status, result>> /\ waiter[w].pc = "status"
      BY <1>5 DEF WaitStatus
    <2> HIDE DEF ended, next
    <2>6. waiter'[w].pc = next /\ waiter'[w].seen = ended
          /\ waiter'[w].proc = waiter[w].proc
      BY <2>1, <2>2 DEF WaitRecord
    <2>7. QED
      BY <2>3, <2>4, <2>5, <2>6
  <1>6. ASSUME \/ \E p \in Process : Reserve(p) \/ StartDropped(p) \/ JobStep(p)
               \/ \E k \in Killer : KillStep(k) \/ \E r \in Process : KillTake(k, r)
        PROVE  UNCHANGED waiter
    BY <1>6, Zenon DEF Reserve, StartDropped, JobStep, StartRecord, RecordOwned, Register, Execute,
                CheckRunning, WriteResult, TakeReservation, Transition,
                CloseReservation, Unregister, KillStep, KillTake, KillTransition,
                KillClose, KillCheck, KillCancel, KillResult
  <1>7. ASSUME Crash PROVE waiter'[w] = NoWait
    BY <1>7 DEF Crash
  <1>8. ASSUME waiter' = [waiter EXCEPT ![w] = NoWait] PROVE waiter'[w] = NoWait
    BY <1>8 DEF TypeOK
  <1>9. QED
    BY <1>1, <1>2, <1>3, <1>4, <1>5, <1>6, <1>7, <1>8 DEF Next, WaitStep

\* Every step preserves the order of result and status that waiters rely on.
LEMMA ResultFirstStep == TypeOK /\ ResultFirst /\ [Next]_vars => ResultFirst'
  <1> SUFFICES ASSUME TypeOK, ResultFirst, Next PROVE ResultFirst'
    BY DEF ResultFirst, vars
  <1>1. ASSUME NEW p \in Process
        PROVE  /\ status'[p] \in {"Completed", "Failed"} => result'[p] # "None"
               /\ job'[p].pc \in {"take", "transition"} => result'[p] # "None"
    <2>1. /\ status[p] \in {"Completed", "Failed"} => result[p] # "None"
          /\ job[p].pc \in {"take", "transition"} => result[p] # "None"
      BY DEF ResultFirst
    <2>2. QED
      BY <2>1, StatusStep, ResultStep, TaskStep
  <1>2. ASSUME NEW w \in Waiter
        PROVE  /\ waiter'[w].pc = "result" /\ waiter'[w].seen =>
                    status'[waiter'[w].proc] \in Terminal
               /\ waiter'[w].pc = "status" /\ waiter'[w].seen =>
                    status'[waiter'[w].proc] = "Killed"
               /\ waiter'[w].pc = "unavailable" => status'[waiter'[w].proc] = "Killed"
    <2> DEFINE p == waiter[w].proc
    <2>1. p \in Process
      BY DEF TypeOK, WaitRecord
    <2>2. /\ waiter[w].pc = "result" /\ waiter[w].seen => status[p] \in Terminal
          /\ waiter[w].pc = "status" /\ waiter[w].seen => status[p] = "Killed"
          /\ waiter[w].pc = "unavailable" => status[p] = "Killed"
          /\ status[p] \in {"Completed", "Failed"} => result[p] # "None"
      BY <2>1 DEF ResultFirst
    <2>3. status[p] \in Terminal => status'[p] = status[p]
      BY <2>1, StatusStep DEF Terminal
    <2>4. CASE waiter'[w] = waiter[w]
      BY <2>2, <2>3, <2>4 DEF Terminal
    <2>5. CASE waiter'[w] = NoWait
      BY <2>5 DEF NoWait
    <2>6. CASE waiter'[w].pc = "result" /\ ~ waiter'[w].seen
      BY <2>6
    <2>7. CASE /\ UNCHANGED <<status, result>> /\ waiter'[w].proc = waiter[w].proc
               /\ waiter[w].pc = "result" /\ waiter'[w].seen = waiter[w].seen
               /\ \/ waiter'[w].pc = "found"
                  \/ waiter'[w].pc = "status" /\ result[p] = "None"
      BY <2>2, <2>7 DEF Terminal
    <2>8. CASE /\ UNCHANGED <<status, result>> /\ waiter'[w].proc = waiter[w].proc
               /\ waiter[w].pc = "status"
               /\ \/ waiter'[w].pc = "unavailable" /\ waiter[w].seen
                  \/ waiter'[w].pc = "result" /\ (waiter'[w].seen => status[p] \in Terminal)
      BY <2>2, <2>8
    <2>9. QED
      BY <2>4, <2>5, <2>6, <2>7, <2>8, WaiterStep
  <1>3. QED
    BY <1>1, <1>2 DEF ResultFirst

\* await_result reports a missing result of killed processes only, wherever its
\* two reads fall between the writes of the task, of killers and of a restart.
THEOREM WaiterSeesResults == Spec => []GivesUpOnlyOnKilled
  <1>1. Init => ResultFirst
    <2> SUFFICES ASSUME Init PROVE ResultFirst
      OBVIOUS
    <2>1. \A p \in Process : status[p] = "Absent" /\ job[p].pc = "unborn"
      BY DEF Init, NoJob
    <2>2. \A w \in Waiter : waiter[w].pc = "idle"
      BY DEF Init, NoWait
    <2>3. QED
      BY <2>1, <2>2 DEF ResultFirst
  <1>2. ResultFirst => GivesUpOnlyOnKilled
    BY DEF ResultFirst, GivesUpOnlyOnKilled
  <1>3. QED
    BY <1>1, <1>2, TypeCorrect, ResultFirstStep, PTL DEF Spec

-----------------------------------------------------------------------------
(* The reservation follows its process, as long as the runtime stays up.   *)

\* Somebody is still to close the reservation.
InHand(p) == owned[p] \/ JobOwns(p) \/ \E k \in Killer : KillOwns(k, p)

\* While nobody has asked for the transition yet the process runs and its
\* reservation is active; who has made it closes the reservation of a process
\* in just the status the close is for; and what nobody holds is closed.
HoldOK(p) ==
    /\ JobAt(p, "unborn") => status[p] = "Absent" /\ hold[p] = "None"
    /\ JobAt(p, "start") => status[p] = "Absent" /\ hold[p] = "Active"
    /\ owned[p] \/ JobAt(p, "own") \/ JobAt(p, "transition") =>
         status[p] = "Running" /\ hold[p] = "Active"
    /\ JobAt(p, "close") => status[p] = job[p].outcome /\ hold[p] = "Active"
    /\ \A k \in Killer : killer[k].proc = p =>
         /\ KillAt(k, "transition") => status[p] = "Running" /\ hold[p] = "Active"
         /\ KillAt(k, "close") => status[p] = "Killed" /\ hold[p] = "Active"
    /\ hold[p] = "Active" => InHand(p)
    /\ status[p] = "Running" => hold[p] = "Active" \/ Abandoned(p)
    /\ hold[p] = "Reconciled" => status[p] = "Completed"
    /\ hold[p] = "Released" => status[p] # "Completed"

HoldInv == \A p \in Process : HoldOK(p)

\* A process is not disturbed by a step of those who do not hold its reservation.
LEMMA HoldFrame ==
    ASSUME NEW q \in Process, HoldOK(q),
           status'[q] = status[q], hold'[q] = hold[q], owned'[q] = owned[q],
           \/ job'[q] = job[q]
           \/ /\ job[q].pc \notin {"unborn", "start", "own", "transition", "close",
                                 "done", "lost"}
              /\ job'[q].pc \notin {"unborn", "start", "own", "transition", "close"},
           \A k \in Killer : \/ killer'[k] = killer[k]
                             \/ ~ KillOwns(k, q) /\ ~ KillOwns(k, q)'
    PROVE  HoldOK(q)'
  <1> USE DEF JobAt, KillAt, JobOwns, KillOwns
  <1>1. hold[q] = "Active" => InHand(q)'
    BY DEF HoldOK, InHand
  <1>2. \A k \in Killer : killer'[k].proc = q =>
          /\ killer'[k].pc = "transition" => status[q] = "Running" /\ hold[q] = "Active"
          /\ killer'[k].pc = "close" => status[q] = "Killed" /\ hold[q] = "Active"
    BY DEF HoldOK
  <1>3. status[q] = "Running" => hold[q] = "Active" \/ Abandoned(q)'
    BY DEF HoldOK, Abandoned
  <1>4. QED
    BY <1>1, <1>2, <1>3 DEF HoldOK

\* Every step but a restart preserves the tie between reservation and process.
LEMMA HoldStep ==
    ASSUME Managed, ~ Crashes, TypeOK, OwnerInv, HoldInv, Next
    PROVE  HoldInv'
  <1> SUFFICES ASSUME NEW q \in Process PROVE HoldOK(q)'
    BY DEF HoldInv
  <1> USE DEF stores, holds, registry, JobAt, KillAt
  <1>o. /\ OneOwner(q) /\ HoldOK(q)
        /\ closes \in [Process -> Nat] /\ owned \in [Process -> BOOLEAN]
        /\ hold \in [Process -> HoldStatus] /\ status \in [Process -> ProcessStatus]
        /\ \A k \in Killer : killer[k].proc \in Process
        /\ \A p \in Process : job[p].outcome \in {"Completed", "Failed"}
    BY DEF OwnerInv, HoldInv, TypeOK, KillRecord, JobRecord
  <1>1. ASSUME NEW p \in Process, Reserve(p) PROVE HoldOK(q)'
    <2>1. /\ job'[p].pc = "start" /\ \A r \in Process : r # p => job'[r] = job[r]
          /\ hold'[p] = "Active" /\ \A r \in Process : r # p => hold'[r] = hold[r]
          /\ UNCHANGED <<owned, status, killer>> /\ job[p].pc = "unborn"
      BY <1>1, <1>o, JobGotoEffect DEF Reserve, JobPc
    <2>2. CASE q # p
      BY <1>o, <2>1, <2>2, HoldFrame
    <2>3. CASE q = p
      BY <1>o, <2>1, <2>3 DEF HoldOK, OneOwner, InHand, JobOwns, KillOwns
    <2>4. QED
      BY <2>2, <2>3
  <1>2. ASSUME NEW p \in Process, StartRecord(p) PROVE HoldOK(q)'
    <2>1. /\ \A r \in Process : r # p => job'[r] = job[r] /\ hold'[r] = hold[r]
                                         /\ status'[r] = status[r]
          /\ UNCHANGED <<owned, killer>> /\ job[p].pc = "start"
      BY <1>2, <1>o, JobGotoEffect DEF StartRecord, CloseHold, JobPc
    <2>2. \/ /\ hold'[p] = hold[p] /\ status'[p] = "Running"
             /\ job'[p].pc = "own"
          \/ /\ hold[p] = "Active" => hold'[p] = "Released"
             /\ status'[p] = status[p] /\ job'[p].pc = "done"
      BY <1>2, <1>o, JobGotoEffect DEF StartRecord, CloseHold, JobPc
    <2>3. CASE q # p
      BY <1>o, <2>1, <2>3, HoldFrame
    <2>4. CASE q = p
      <3>1. /\ status[p] = "Absent" /\ hold[p] = "Active" /\ ~ owned[p]
            /\ \A k \in Killer : ~ KillOwns(k, p)
        BY <1>o, <2>1, <2>4 DEF HoldOK, OneOwner, JobOwns
      <3>2. QED
        BY <2>1, <2>2, <2>4, <3>1 DEF HoldOK, InHand, JobOwns, KillOwns
    <2>5. QED
      BY <2>3, <2>4
  <1>3. ASSUME NEW p \in Process, StartDropped(p) PROVE HoldOK(q)'
    <2>1. /\ \A r \in Process : r # p => job'[r] = job[r] /\ hold'[r] = hold[r]
                                         /\ status'[r] = status[r]
          /\ UNCHANGED <<owned, killer>> /\ job[p].pc = "start" /\ job'[p].pc = "lost"
          /\ hold[p] = "Active" => hold'[p] = "Released"
          /\ status'[p] \in {status[p], "Running"} /\ Drops
      BY <1>3, <1>o, JobGotoEffect DEF StartDropped, CloseHold, JobPc
    <2>2. CASE q # p
      BY <1>o, <2>1, <2>2, HoldFrame
    <2>3. CASE q = p
      <3>1. /\ status[p] = "Absent" /\ hold[p] = "Active" /\ ~ owned[p]
            /\ \A k \in Killer : ~ KillOwns(k, p)
        BY <1>o, <2>1, <2>3 DEF HoldOK, OneOwner, JobOwns
      <3>2. QED
        BY <2>1, <2>3, <3>1 DEF HoldOK, InHand, JobOwns, KillOwns, Abandoned
    <2>4. QED
      BY <2>2, <2>3
  <1>4. ASSUME NEW p \in Process, RecordOwned(p) PROVE HoldOK(q)'
    <2>1. /\ \A r \in Process : r # p => job'[r] = job[r] /\ owned'[r] = owned[r]
          /\ UNCHANGED <<status, hold, killer>>
          /\ job[p].pc = "own" /\ job'[p].pc = "register" /\ owned'[p]
      BY <1>4, <1>o, JobGotoEffect DEF RecordOwned, JobPc
    <2>2. CASE q # p
      BY <1>o, <2>1, <2>2, HoldFrame
    <2>3. CASE q = p
      <3>1. /\ status[p] = "Running" /\ hold[p] = "Active"
            /\ \A k \in Killer : ~ KillOwns(k, p)
        BY <1>o, <2>1, <2>3 DEF HoldOK, OneOwner, JobOwns
      <3>2. QED
        BY <2>1, <2>3, <3>1 DEF HoldOK, InHand, JobOwns, KillOwns
    <2>4. QED
      BY <2>2, <2>3
  <1>5. ASSUME NEW p \in Process,
               \/ Register(p) \/ Execute(p) \/ CheckRunning(p) \/ WriteResult(p)
               \/ Unregister(p)
        PROVE  HoldOK(q)'
    <2>1. Execute(p) => /\ job'[p].pc = "check"
                        /\ \A r \in Process : r # p => job'[r] = job[r]
      BY DEF Execute, TypeOK
    <2>2. /\ job'[p].pc \in {"exec", "check", "result", "unregister", "take", "done"}
          /\ job[p].pc \in {"register", "exec", "check", "result", "unregister"}
          /\ \A r \in Process : r # p => job'[r] = job[r]
          /\ UNCHANGED <<owned, status, hold, killer>>
      BY <1>5, <2>1, JobGotoEffect
         DEF Register, Execute, CheckRunning, WriteResult, Unregister, JobPc
    <2>3. QED
      BY <1>o, <2>2, HoldFrame
  <1>6. ASSUME NEW p \in Process, TakeReservation(p) PROVE HoldOK(q)'
    <2>1. /\ \A r \in Process : r # p => job'[r] = job[r] /\ owned'[r] = owned[r]
          /\ UNCHANGED <<status, hold, killer>> /\ job[p].pc = "take"
      BY <1>6, <1>o, JobGotoEffect DEF TakeReservation, JobPc
    <2>2. \/ owned[p] /\ ~ owned'[p] /\ job'[p].pc = "transition"
          \/ owned'[p] = owned[p] /\ job'[p].pc = "unregister"
      BY <1>6, <1>o, JobGotoEffect DEF TakeReservation, MayTake, JobPc
    <2>3. CASE q # p \/ job'[p].pc = "unregister"
      BY <1>o, <2>1, <2>2, <2>3, HoldFrame
    <2>4. CASE q = p /\ job'[p].pc = "transition"
      <3>1. /\ status[p] = "Running" /\ hold[p] = "Active"
            /\ \A k \in Killer : ~ KillOwns(k, p)
        BY <1>o, <2>2, <2>4 DEF HoldOK, OneOwner
      <3>2. QED
        BY <2>1, <2>2, <2>4, <3>1 DEF HoldOK, InHand, JobOwns, KillOwns
    <2>5. QED
      BY <2>2, <2>3, <2>4
  <1>7. ASSUME NEW p \in Process, Transition(p) PROVE HoldOK(q)'
    <2>1. /\ \A r \in Process : r # p => job'[r] = job[r] /\ owned'[r] = owned[r]
                                         /\ status'[r] = status[r]
          /\ UNCHANGED <<hold, killer>> /\ job[p].pc = "transition"
      BY <1>7, <1>o, JobGotoEffect DEF Transition, JobPc
    <2>2. \/ /\ owned'[p] = owned[p] /\ status'[p] = job[p].outcome
             /\ job'[p].pc = "close" /\ job'[p].outcome = job[p].outcome
          \/ /\ owned'[p] /\ status'[p] = status[p]
             /\ job'[p].pc = "unregister"
      BY <1>7, <1>o, JobGotoEffect DEF Transition, JobPc
    <2>3. CASE q # p
      BY <1>o, <2>1, <2>3, HoldFrame
    <2>4. CASE q = p
      <3>1. /\ status[p] = "Running" /\ hold[p] = "Active" /\ ~ owned[p]
            /\ \A k \in Killer : ~ KillOwns(k, p)
        BY <1>o, <2>1, <2>4 DEF HoldOK, OneOwner, JobOwns
      <3>2. QED
        BY <1>o, <2>1, <2>2, <2>4, <3>1 DEF HoldOK, InHand, JobOwns, KillOwns
    <2>5. QED
      BY <2>3, <2>4
  <1>8. ASSUME NEW p \in Process, CloseReservation(p) PROVE HoldOK(q)'
    <2>1. /\ \A r \in Process : r # p => job'[r] = job[r] /\ hold'[r] = hold[r]
          /\ UNCHANGED <<owned, status, killer>>
          /\ job[p].pc = "close" /\ job'[p].pc = "unregister"
          /\ hold[p] = "Active" => hold'[p] =
                IF job[p].outcome = "Completed" THEN "Reconciled" ELSE "Released"
      BY <1>8, <1>o, JobGotoEffect DEF CloseReservation, CloseHold, JobPc
    <2>2. CASE q # p
      BY <1>o, <2>1, <2>2, HoldFrame
    <2>3. CASE q = p
      <3>1. /\ status[p] = job[p].outcome /\ hold[p] = "Active" /\ ~ owned[p]
            /\ \A k \in Killer : ~ KillOwns(k, p)
        BY <1>o, <2>1, <2>3 DEF HoldOK, OneOwner, JobOwns
      <3>2. QED
        BY <1>o, <2>1, <2>3, <3>1 DEF HoldOK, InHand, JobOwns, KillOwns
    <2>4. QED
      BY <2>2, <2>3
  <1>9. ASSUME NEW k \in Killer, NEW p \in Process, KillTake(k, p) PROVE HoldOK(q)'
    <2>1. /\ \A l \in Killer : l # k => killer'[l] = killer[l]
          /\ \A r \in Process : r # p => owned'[r] = owned[r]
          /\ UNCHANGED <<status, hold, job>> /\ killer'[k].proc = p /\ killer[k].pc = "idle"
      BY <1>9, <1>o DEF KillTake, TypeOK
    <2>2. \/ owned[p] /\ ~ owned'[p] /\ killer'[k].pc = "transition"
          \/ owned'[p] = owned[p] /\ killer'[k].pc = "check"
      BY <1>9, <1>o DEF KillTake, MayTake, TypeOK
    <2>3. CASE q # p \/ killer'[k].pc = "check"
      <3>1. owned'[q] = owned[q] /\ ~ KillOwns(k, q) /\ ~ KillOwns(k, q)'
        BY <2>1, <2>2, <2>3 DEF KillOwns
      <3>2. QED
        BY <1>o, <2>1, <3>1, HoldFrame
    <2>4. CASE q = p /\ killer'[k].pc = "transition"
      <3>1. /\ status[p] = "Running" /\ hold[p] = "Active"
            /\ \A l \in Killer : ~ KillOwns(l, p)
            /\ ~ JobOwns(p) /\ job[p].pc # "unborn"
        BY <1>o, <2>2, <2>4 DEF HoldOK, OneOwner
      <3>2. KillOwns(k, p)'
        BY <2>1, <2>4 DEF KillOwns
      <3>3. QED
        BY <2>1, <2>2, <2>4, <3>1, <3>2 DEF HoldOK, InHand, JobOwns, KillOwns
    <2>5. QED
      BY <2>2, <2>3, <2>4
  <1>10. ASSUME NEW k \in Killer, KillTransition(k) PROVE HoldOK(q)'
    <2> DEFINE p == killer[k].proc
    <2>1. /\ \A l \in Killer : l # k => killer'[l] = killer[l]
          /\ \A r \in Process : r # p => owned'[r] = owned[r] /\ status'[r] = status[r]
          /\ UNCHANGED <<hold, job>> /\ killer'[k].proc = p /\ killer[k].pc = "transition"
      BY <1>10, <1>o, KillGotoEffect DEF KillTransition, KillPc
    <2>2. \/ /\ owned'[p] = owned[p] /\ killer'[k].pc = "close" /\ status'[p] = "Killed"
          \/ /\ owned'[p] /\ killer'[k].pc = "check" /\ status'[p] = status[p]
      BY <1>10, <1>o, KillGotoEffect DEF KillTransition, KillPc
    <2>3. CASE q # p
      <3>1. ~ KillOwns(k, q) /\ ~ KillOwns(k, q)'
        BY <2>1, <2>3 DEF KillOwns
      <3>2. QED
        BY <1>o, <2>1, <2>3, <3>1, HoldFrame
    <2>4. CASE q = p
      <3>0. KillOwns(k, p)
        BY <2>1 DEF KillOwns
      <3>1. /\ status[p] = "Running" /\ hold[p] = "Active" /\ ~ owned[p]
            /\ \A l \in Killer : KillOwns(l, p) => l = k
            /\ ~ JobOwns(p) /\ job[p].pc # "unborn"
        BY <1>o, <2>1, <2>4, <3>0 DEF HoldOK, OneOwner
      <3>2. InHand(q)'
        <4>1. owned'[q] \/ KillOwns(k, q)'
          BY <2>1, <2>2, <2>4 DEF KillOwns
        <4>2. QED
          BY <4>1 DEF InHand
      <3>3. QED
        BY <2>1, <2>2, <2>4, <3>1, <3>2 DEF HoldOK, JobOwns, KillOwns
    <2>5. QED
      BY <2>3, <2>4
  <1>11. ASSUME NEW k \in Killer, KillClose(k) PROVE HoldOK(q)'
    <2> DEFINE p == killer[k].proc
    <2>1. /\ \A l \in Killer : l # k => killer'[l] = killer[l]
          /\ \A r \in Process : r # p => hold'[r] = hold[r]
          /\ hold[p] = "Active" => hold'[p] = "Released"
          /\ UNCHANGED <<owned, status, job>> /\ killer'[k].proc = p
          /\ killer[k].pc = "close" /\ killer'[k].pc = "cancel"
      BY <1>11, <1>o, KillGotoEffect DEF KillClose, CloseHold, KillPc
    <2>2. CASE q # p
      <3>1. ~ KillOwns(k, q) /\ ~ KillOwns(k, q)'
        BY <2>1, <2>2 DEF KillOwns
      <3>2. QED
        BY <1>o, <2>1, <2>2, <3>1, HoldFrame
    <2>3. CASE q = p
      <3>0. KillOwns(k, p)
        BY <2>1 DEF KillOwns
      <3>1. /\ status[p] = "Killed" /\ hold[p] = "Active" /\ ~ owned[p]
            /\ \A l \in Killer : KillOwns(l, p) => l = k
            /\ ~ JobOwns(p) /\ job[p].pc # "unborn"
        BY <1>o, <2>1, <2>3, <3>0 DEF HoldOK, OneOwner
      <3>2. \A l \in Killer : ~ KillOwns(l, q)'
        BY <2>1, <2>3, <3>1 DEF KillOwns
      <3>3. QED
        BY <2>1, <2>3, <3>1, <3>2 DEF HoldOK, JobOwns, KillOwns
    <2>4. QED
      BY <2>2, <2>3
  <1>12. ASSUME NEW k \in Killer, KillCheck(k) \/ KillCancel(k) \/ KillResult(k)
         PROVE  HoldOK(q)'
    <2>1. NoKill.pc = "idle"
      BY DEF NoKill
    <2>2. /\ killer'[k].pc \in {"cancel", "result", "idle"}
          /\ killer[k].pc \in {"check", "cancel", "result"}
          /\ \A l \in Killer : l # k => killer'[l] = killer[l]
          /\ UNCHANGED <<owned, status, hold, job>>
      BY <1>12, <2>1, KillGotoEffect, KillReturnEffect
         DEF KillCheck, KillCancel, KillResult, KillPc
    <2>3. ~ KillOwns(k, q) /\ ~ KillOwns(k, q)'
      BY <2>2 DEF KillOwns
    <2>4. QED
      BY <1>o, <2>2, <2>3, HoldFrame
  <1>13. ASSUME NEW w \in Waiter, \/ \E p \in Process : WaitStart(w, p)
                                  \/ WaitResult(w) \/ WaitStatus(w)
         PROVE  HoldOK(q)'
    <2>1. UNCHANGED <<owned, status, hold, job, killer>>
      BY <1>13 DEF WaitStart, WaitResult, WaitStatus
    <2>2. QED
      BY <1>o, <2>1, HoldFrame
  <1>14. ~ Crash
    BY DEF Crash
  <1>15. QED
    BY <1>1, <1>2, <1>3, <1>4, <1>5, <1>6, <1>7, <1>8, <1>9, <1>10, <1>11, <1>12,
       <1>13, <1>14 DEF Next, JobStep, KillStep, WaitStep

\* The reservation of a managed process follows it, for any number of killers
\* and any store failures: a refused start gives it back, it is active while the
\* process runs, whoever ends the process closes it, and only a completed process
\* is charged.  A restart empties the governor under the records (no reservation
\* is persisted), so this is a theorem about one life of the runtime.
THEOREM ReservationFollowsProcess ==
    ASSUME Managed, ~ Crashes
    PROVE  Spec => []HoldFollowsStatus
  <1>1. Init => OwnerInv /\ HoldInv
    <2> SUFFICES ASSUME Init, NEW p \in Process PROVE OneOwner(p) /\ HoldOK(p)
      BY DEF OwnerInv, HoldInv
    <2>1. /\ closes[p] = 0 /\ ~ owned[p] /\ job[p].pc = "unborn"
          /\ status[p] = "Absent" /\ hold[p] = "None"
          /\ \A k \in Killer : killer[k].pc = "idle"
      BY DEF Init, NoJob, NoKill
    <2>2. QED
      BY <2>1 DEF OneOwner, HoldOK, JobAt, KillAt, JobOwns, KillOwns
  <1>2. TypeOK /\ OwnerInv /\ HoldInv /\ [Next]_vars => HoldInv'
    <2> SUFFICES ASSUME TypeOK, OwnerInv, HoldInv, [Next]_vars PROVE HoldInv'
      OBVIOUS
    <2>1. CASE UNCHANGED vars
      BY <2>1, HoldFrame DEF HoldInv, vars
    <2>2. QED
      BY <2>1, HoldStep
  <1>3. TypeOK /\ HoldInv => HoldFollowsStatus
    <2> SUFFICES ASSUME TypeOK, HoldInv, NEW p \in Process
                 PROVE  /\ status[p] = "Absent" /\ hold[p] = "Active" => JobAt(p, "start")
                        /\ status[p] = "Running" => hold[p] = "Active" \/ Abandoned(p)
                        /\ hold[p] = "Reconciled" => status[p] = "Completed"
                        /\ hold[p] = "Released" => status[p] # "Completed"
                        /\ status[p] \in Terminal /\ hold[p] = "Active" =>
                             \/ JobAt(p, "close")
                             \/ \E k \in Killer : KillAt(k, "close") /\ killer[k].proc = p
      BY DEF HoldFollowsStatus
    <2>1. HoldOK(p) /\ job[p].outcome \in {"Completed", "Failed"}
      BY DEF HoldInv, TypeOK, JobRecord
    <2>2. QED
      BY <2>1 DEF HoldOK, InHand, JobAt, KillAt, JobOwns, KillOwns, Terminal
  <1>4. QED
    BY <1>1, <1>2, <1>3, TypeCorrect, OwnerStep, PTL DEF Spec
=============================================================================
