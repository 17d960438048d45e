-------------------------- MODULE InlineGate_proof --------------------------
(***************************************************************************)
(* Proofs about execution gates, for any number of threads, requests and   *)
(* answering clients, with lost file writes and restarts.                  *)
(***************************************************************************)
EXTENDS InlineGate, TLAPS

\* What the program-counter moves of a parked call do.
LEMMA StepEffect ==
    ASSUME TypeOK, NEW r \in Request, NEW from, NEW to \in PausePc, Step(r, from, to)
    PROVE  /\ pause' \in [Request -> PausePc]
           /\ pause[r] = from /\ pause'[r] = to
           /\ \A q \in Request : q # r => pause'[q] = pause[q]
  BY DEF TypeOK, Step

ResolverPc == {"idle", "take", "remove", "deliver", "send", "insert", "save", "act"}

\* A client that is done forgets its answer; one that goes on keeps it.
LEMMA GoEffect ==
    ASSUME TypeOK, NEW u \in Resolver, NEW pc \in ResolverPc, Go(u, pc)
    PROVE  /\ res' \in [Resolver -> Resolution]
           /\ pc = "idle" => res'[u] = NoResolution
           /\ pc # "idle" => /\ res'[u].pc = pc /\ res'[u].req = res[u].req
                             /\ res'[u].path = res[u].path /\ res'[u].verdict = res[u].verdict
           /\ \A v \in Resolver : v # u => res'[v] = res[v]
  <1>1. NoResolution \in Resolution
    BY DEF NoResolution, Resolution, Answer
  <1>2. res \in [Resolver -> Resolution]
    BY DEF TypeOK
  <1>3. CASE pc = "idle"
    <2>1. res' = [res EXCEPT ![u] = NoResolution]
      BY <1>3 DEF Go
    <2>2. QED
      BY <1>1, <1>2, <1>3, <2>1
  <1>4. CASE pc # "idle"
    <2>1. res' = [res EXCEPT ![u] = [res[u] EXCEPT !.pc = pc]]
      BY <1>4 DEF Go
    <2>2. [res[u] EXCEPT !.pc = pc] \in Resolution
      BY <1>2 DEF Resolution, ResolverPc
    <2>3. QED
      BY <1>2, <1>4, <2>1, <2>2 DEF Resolution
  <1>5. QED
    BY <1>3, <1>4

\* An answer that is sent on to the agent loop is taken up anew.
LEMMA GoQueueEffect ==
    ASSUME TypeOK, NEW u \in Resolver, GoQueue(u)
    PROVE  /\ res' \in [Resolver -> Resolution]
           /\ res'[u].pc = "take" /\ res'[u].path = "queue"
           /\ res'[u].req = res[u].req /\ res'[u].verdict = res[u].verdict
           /\ \A v \in Resolver : v # u => res'[v] = res[v]
  BY DEF TypeOK, GoQueue, Resolution

\* How often an action went ahead stays in its range.
LEMMA ActEffect ==
    ASSUME TypeOK, NEW r \in Request
    PROVE  /\ Act(r) \in [Request -> 0..2]
           /\ acted[r] = 0 => Act(r)[r] \in {0, 1} /\ (r \notin Auth => Act(r)[r] = 1)
           /\ \A q \in Request : q # r => Act(r)[q] = acted[q]
  BY DEF TypeOK, Act

\* The types that the actions' updates stay in.
LEMMA NoActivity == NoResolution \in Resolution /\ NoSweep \in Sweep
  BY DEF NoResolution, Resolution, Answer, NoSweep, Sweep

\* The steps of a parked call keep the shape of the state.
LEMMA PauseTypes ==
    ASSUME TypeOK, NEW r \in Request, pause[r] = "credential" => r \in Auth,
           Pause(r) \/ PauseStep(r) \/ Expire(r)
    PROVE  TypeOK'
  <1> USE DEF store, call, registry, history
  <1>t. /\ row \in [Thread -> Request \cup {NoRequest}]
        /\ file \in [Thread -> Request \cup {NoRequest}]
        /\ pause \in [Request -> PausePc]
        /\ inbox \in [Request -> Answer] /\ lapsed \subseteq Request \ Auth
        /\ expired \subseteq Request /\ sender \subseteq Request
        /\ byCred \subseteq Auth /\ active \subseteq Request
        /\ res \in [Resolver -> Resolution]
        /\ sweep \in [Sweeper -> Sweep]
        /\ acted \in [Request -> 0..2]
        /\ denied \subseteq Request \ Auth /\ astray \subseteq Request
    BY DEF TypeOK
  <1>1. CASE Pause(r)
    <2>1. pause' \in [Request -> PausePc]
      BY <1>1, StepEffect DEF Pause, PausePc
    <2>2. QED
      BY <1>1, <1>t, <2>1 DEF Pause, TypeOK
  <1>2. CASE PauseSave(r)
    <2>1. pause' \in [Request -> PausePc]
      BY <1>2, StepEffect DEF PauseSave, PausePc
    <2>2. QED
      BY <1>2, <1>t, <2>1 DEF PauseSave, TypeOK
  <1>3. CASE PauseRegister(r)
    <2>1. pause' \in [Request -> PausePc]
      BY <1>3, StepEffect DEF PauseRegister, PausePc
    <2>2. QED
      BY <1>3, <1>t, <2>1 DEF PauseRegister, TypeOK
  <1>4. CASE PauseCredential(r)
    <2>1. pause' \in [Request -> PausePc] /\ r \in Auth
      BY <1>4, StepEffect DEF PauseCredential, PausePc
    <2>2. QED
      BY <1>4, <1>t, <2>1 DEF PauseCredential, TypeOK
  <1>5. CASE PauseTrack(r)
    <2>1. pause' \in [Request -> PausePc]
      BY <1>5, StepEffect DEF PauseTrack, PausePc
    <2>2. QED
      BY <1>5, <1>t, <2>1 DEF PauseTrack, TypeOK
  <1>6. CASE PauseWake(r)
    <2>1. pause' \in [Request -> PausePc]
      BY <1>6, StepEffect DEF PauseWake, PausePc
    <2>2. /\ inbox' \in [Request -> Answer] /\ denied' \subseteq Request \ Auth
          /\ acted' \in [Request -> 0..2]
      BY <1>6, <1>t, ActEffect DEF PauseWake, Answer, Told
    <2>3. QED
      BY <1>6, <1>t, <2>1, <2>2 DEF PauseWake, TypeOK
  <1>7. CASE PauseTimeout(r)
    <2>1. pause' \in [Request -> PausePc]
      BY <1>7, StepEffect DEF PauseTimeout, PausePc
    <2>2. QED
      BY <1>7, <1>t, <2>1 DEF PauseTimeout, TypeOK
  <1>8. CASE PauseDiscard(r)
    <2>1. pause' \in [Request -> PausePc]
      BY <1>8, StepEffect DEF PauseDiscard, PausePc
    <2>2. QED
      BY <1>8, <1>t, <2>1 DEF PauseDiscard, TypeOK
  <1>9. CASE PauseRemove(r)
    <2>1. pause' \in [Request -> PausePc]
      BY <1>9, StepEffect DEF PauseRemove, PausePc
    <2>2. QED
      BY <1>9, <1>t, <2>1 DEF PauseRemove, Persisted, TypeOK
  <1>10. CASE PauseUntrack(r)
    <2>1. pause' \in [Request -> PausePc]
      BY <1>10, StepEffect DEF PauseUntrack, PausePc
    <2>2. QED
      BY <1>10, <1>t, <2>1 DEF PauseUntrack, TypeOK
  <1>11. CASE Expire(r)
    BY <1>11, <1>t DEF Expire, TypeOK
  <1>12. QED
    BY <1>1, <1>2, <1>3, <1>4, <1>5, <1>6, <1>7, <1>8, <1>9, <1>10, <1>11 DEF PauseStep

\* The answers keep the shape of the state.
LEMMA ResolverTypes ==
    ASSUME TypeOK, NEW u \in Resolver,
           res[u].pc # "idle" => res[u].req \in Request,
           \/ ResolverStep(u)
           \/ \E r \in Request, path \in {"inline", "queue"},
                 verdict \in {"Approved", "Denied"} : Submit(u, r, path, verdict)
    PROVE  TypeOK'
  <1> USE DEF store, call, registry, history, At
  <1>t. /\ row \in [Thread -> Request \cup {NoRequest}]
        /\ file \in [Thread -> Request \cup {NoRequest}]
        /\ pause \in [Request -> PausePc]
        /\ inbox \in [Request -> Answer] /\ lapsed \subseteq Request \ Auth
        /\ expired \subseteq Request /\ sender \subseteq Request
        /\ byCred \subseteq Auth /\ active \subseteq Request
        /\ res \in [Resolver -> Resolution]
        /\ sweep \in [Sweeper -> Sweep]
        /\ acted \in [Request -> 0..2]
        /\ denied \subseteq Request \ Auth /\ astray \subseteq Request
    BY DEF TypeOK
  <1>1. ASSUME NEW r \in Request, NEW path \in {"inline", "queue"},
               NEW verdict \in {"Approved", "Denied"}, Submit(u, r, path, verdict)
        PROVE  TypeOK'
    <2>1. [pc |-> "take", req |-> r, path |-> path, verdict |-> verdict] \in Resolution
      BY DEF Resolution, Answer
    <2>2. QED
      BY <1>1, <1>t, <2>1 DEF Submit, TypeOK
  <1>2. CASE Take(u)
    <2>1. res' \in [Resolver -> Resolution]
      BY <1>2, GoEffect, GoQueueEffect DEF Take, TakeVerified, ResolverPc
    <2>2. row' \in [Thread -> Request \cup {NoRequest}]
      BY <1>2, <1>t DEF Take, TakeVerified
    <2>3. QED
      BY <1>2, <1>t, <2>1, <2>2 DEF Take, TypeOK
  <1>3. CASE Remove(u)
    <2>1. res' \in [Resolver -> Resolution]
      BY <1>3, GoEffect DEF Remove, ResolverPc
    <2>2. QED
      BY <1>3, <1>t, <2>1 DEF Remove, Persisted, TypeOK
  <1>4. CASE Deliver(u)
    <2>1. res' \in [Resolver -> Resolution]
      BY <1>4, GoEffect DEF Deliver, Undelivered, ResolverPc
    <2>2. QED
      BY <1>4, <1>t, <2>1 DEF Deliver, TypeOK
  <1>5. CASE Send(u)
    <2>1. res' \in [Resolver -> Resolution]
      BY <1>5, GoEffect DEF Send, Undelivered, ResolverPc
    <2>2. res[u].verdict \in Answer
      BY <1>t DEF Resolution
    <2>3. inbox' \in [Request -> Answer]
      BY <1>5, <1>t, <2>2 DEF Send
    <2>4. QED
      BY <1>5, <1>t, <2>1, <2>3 DEF Send, TypeOK
  <1>6. CASE Reinsert(u)
    <2>1. res' \in [Resolver -> Resolution]
      BY <1>6, GoEffect, GoQueueEffect DEF Reinsert, ResolverPc
    <2>2. row' \in [Thread -> Request \cup {NoRequest}] /\ astray' \subseteq Request
      BY <1>6, <1>t DEF Reinsert, Stray
    <2>3. QED
      BY <1>6, <1>t, <2>1, <2>2 DEF Reinsert, TypeOK
  <1>7. CASE ReinsertSave(u)
    <2>1. res' \in [Resolver -> Resolution]
      BY <1>7, GoQueueEffect DEF ReinsertSave
    <2>2. QED
      BY <1>7, <1>t, <2>1 DEF ReinsertSave, Persisted, TypeOK
  <1>8. CASE Reenter(u)
    <2>1. res' \in [Resolver -> Resolution]
      BY <1>8, GoEffect DEF Reenter, ResolverPc
    <2>2. acted' \in [Request -> 0..2] /\ denied' \subseteq Request \ Auth /\ astray' \subseteq Request
      BY <1>8, <1>t, ActEffect DEF Reenter, Stray, Told
    <2>3. QED
      BY <1>8, <1>t, <2>1, <2>2 DEF Reenter, TypeOK
  <1>9. QED
    BY <1>1, <1>2, <1>3, <1>4, <1>5, <1>6, <1>7, <1>8 DEF ResolverStep

\* The callback and the stop keep the shape of the state.
LEMMA SweepTypes ==
    ASSUME TypeOK, \/ OauthStart \/ \E t \in Thread : StopStart(t)
                   \/ \E s \in Sweeper : SweepStep(s)
    PROVE  TypeOK'
  <1> USE DEF store, call, registry, history
  <1>t. /\ row \in [Thread -> Request \cup {NoRequest}]
        /\ file \in [Thread -> Request \cup {NoRequest}]
        /\ pause \in [Request -> PausePc]
        /\ inbox \in [Request -> Answer] /\ lapsed \subseteq Request \ Auth
        /\ expired \subseteq Request /\ sender \subseteq Request
        /\ byCred \subseteq Auth /\ active \subseteq Request
        /\ res \in [Resolver -> Resolution]
        /\ sweep \in [Sweeper -> Sweep]
        /\ acted \in [Request -> 0..2]
        /\ denied \subseteq Request \ Auth /\ astray \subseteq Request
    BY DEF TypeOK
  <1>1. CASE OauthStart
    <2>1. [NoSweep EXCEPT !.pc = "deliver", !.todo = byCred] \in Sweep
      BY <1>t, AuthAssumption, NoActivity DEF Sweep
    <2>2. QED
      BY <1>1, <1>t, <2>1 DEF OauthStart, TypeOK
  <1>2. ASSUME NEW t \in Thread, StopStart(t) PROVE TypeOK'
    <2> DEFINE tracked == {r \in active : ThreadOf[r] = t}
    <2>1. [NoSweep EXCEPT !.pc = "deliver", !.todo = tracked, !.of = {t}] \in Sweep
      BY <1>t, NoActivity DEF Sweep
    <2>2. QED
      BY <1>2, <1>t, <2>1 DEF StopStart, TypeOK
  <1>3. ASSUME NEW s \in Sweeper, NEW r \in Request, SweepTake(s, r) PROVE TypeOK'
    <2> DEFINE next == [sweep[s] EXCEPT !.todo = sweep[s].todo \ {r},
                           !.hand = IF r \in sender THEN r ELSE NoRequest,
                           !.pc = IF r \in sender THEN "send" ELSE "deliver"]
    <2>0. next \in Sweep
      BY <1>t DEF Sweep
    <2>1. sweep' \in [Sweeper -> Sweep]
      BY <1>3, <1>t, <2>0 DEF SweepTake
    <2>2. QED
      BY <1>3, <1>t, <2>1 DEF SweepTake, TypeOK
  <1>4. ASSUME NEW s \in Sweeper, SweepSend(s) PROVE TypeOK'
    <2> DEFINE next == [sweep[s] EXCEPT !.pc = "deliver", !.hand = NoRequest,
                           !.woken = sweep[s].woken \/ (s = "oauth" /\ Listening(sweep[s].hand))]
    <2>0. next \in Sweep
      BY <1>t DEF Sweep
    <2>1. sweep' \in [Sweeper -> Sweep]
      BY <1>4, <1>t, <2>0 DEF SweepSend
    <2>2. inbox' \in [Request -> Answer]
      BY <1>4, <1>t DEF SweepSend, Answer
    <2>3. QED
      BY <1>4, <1>t, <2>1, <2>2 DEF SweepSend, TypeOK
  <1>5. ASSUME NEW s \in Sweeper, SweepList(s) PROVE TypeOK'
    <2> DEFINE keys == IF s = "stop" THEN sweep[s].of
                       ELSE {t \in Thread : row[t] \in Auth \ expired}
    <2>1. keys \in SUBSET Thread
      BY <1>t DEF Sweep
    <2>2. \/ sweep' = [sweep EXCEPT ![s] = NoSweep]
          \/ sweep' = [sweep EXCEPT ![s] = [sweep[s] EXCEPT !.pc = "discard", !.keys = keys]]
      BY <1>5 DEF SweepList
    <2> HIDE DEF keys
    <2>3. [sweep[s] EXCEPT !.pc = "discard", !.keys = keys] \in Sweep
      BY <1>t, <2>1 DEF Sweep
    <2>4. sweep' \in [Sweeper -> Sweep]
      BY <1>t, <2>2, <2>3, NoActivity
    <2>5. QED
      BY <1>5, <1>t, <2>4 DEF SweepList, TypeOK
  <1>6. ASSUME NEW s \in Sweeper, NEW t \in Thread, SweepDiscard(s, t) PROVE TypeOK'
    <2> DEFINE next == [sweep[s] EXCEPT !.keys = sweep[s].keys \ {t},
                           !.gone = IF row[t] = NoRequest THEN {} ELSE {t},
                           !.pc = IF row[t] = NoRequest THEN "discard" ELSE "remove"]
    <2>0. next \in Sweep
      BY <1>t DEF Sweep
    <2>1. sweep' \in [Sweeper -> Sweep]
      BY <1>6, <1>t, <2>0 DEF SweepDiscard
    <2>2. QED
      BY <1>6, <1>t, <2>1 DEF SweepDiscard, Stray, TypeOK
  <1>7. ASSUME NEW s \in Sweeper, NEW t \in Thread, SweepRemove(s, t) PROVE TypeOK'
    <2>0. [sweep[s] EXCEPT !.gone = {}, !.pc = "discard"] \in Sweep
      BY <1>t DEF Sweep
    <2>1. sweep' \in [Sweeper -> Sweep]
      BY <1>7, <1>t, <2>0 DEF SweepRemove
    <2>2. QED
      BY <1>7, <1>t, <2>1 DEF SweepRemove, Persisted, TypeOK
  <1>8. ASSUME NEW s \in Sweeper, SweepEnd(s) PROVE TypeOK'
    <2>1. sweep' \in [Sweeper -> Sweep]
      BY <1>8, <1>t, NoActivity DEF SweepEnd
    <2>2. QED
      BY <1>8, <1>t, <2>1 DEF SweepEnd, TypeOK
  <1>9. QED
    BY <1>1, <1>2, <1>3, <1>4, <1>5, <1>6, <1>7, <1>8 DEF SweepStep

\* So does a restart.
LEMMA RestartTypes ==
    ASSUME TypeOK, NEW waiting \in SUBSET Thread, Restart(waiting)
    PROVE  TypeOK'
  <1> USE DEF history
  <1>t. /\ file \in [Thread -> Request \cup {NoRequest}]
        /\ pause \in [Request -> PausePc]
        /\ lapsed \subseteq Request \ Auth /\ expired \subseteq Request
        /\ acted \in [Request -> 0..2] /\ denied \subseteq Request \ Auth
    BY DEF TypeOK
  <1>1. row' \in [Thread -> Request \cup {NoRequest}]
    BY <1>t DEF Restart
  <1>2. file' \in [Thread -> Request \cup {NoRequest}]
    BY <1>t, <1>1 DEF Restart
  <1>3. pause' \in [Request -> PausePc] /\ inbox' \in [Request -> Answer]
    BY DEF Restart, PausePc, Answer
  <1>4. QED
    BY <1>t, <1>1, <1>2, <1>3, NoActivity DEF Restart, TypeOK

-----------------------------------------------------------------------------
(* What makes the gates safe.                                              *)

\* The call has not got its answer yet.
Early == {"save", "register", "credential", "track", "wait"}

\* A gate exists once: in the store, or in the hands of the client that took it.
Pending(r) == row[ThreadOf[r]] = r
NoCopy(r) == ~ Pending(r) /\ \A u \in Resolver : ~ Taken(u, r)

\* One parked call per thread: the gate lock.
LockOK ==
    \A q \in Request, r \in Request :
        ThreadOf[q] = ThreadOf[r] /\ InPause(q) /\ InPause(r) => q = r

\* An answer in progress.  The endpoint puts gates back, the agent loop re-enters.
ResolverOK(u) ==
    /\ res[u].pc # "idle" =>
         res[u].req \in Request /\ res[u].verdict \in {"Approved", "Denied"}
    /\ res[u].pc \in {"insert", "save"} => res[u].path = "inline"
    /\ res[u].pc = "act" => res[u].path = "queue"

\* The callback wakes only calls that wait for the credential.
SweepOK ==
    /\ sweep["oauth"].todo \subseteq Auth
    /\ sweep["oauth"].hand \in Auth \cup {NoRequest}
    /\ \A s \in Sweeper : sweep[s].pc = "send" => sweep[s].hand \in Request

\* A gate is in one place, and nowhere before its call pauses.
UniqueOK(r) ==
    /\ pause[r] = "credential" => r \in Auth
    /\ Pending(r) => \A u \in Resolver : ~ Taken(u, r)
    /\ \A u \in Resolver, v \in Resolver : Taken(u, r) /\ Taken(v, r) => u = v
    /\ pause[r] = "idle" =>
         /\ ~ Pending(r) /\ file[ThreadOf[r]] # r /\ inbox[r] = "none"
         /\ \A u \in Resolver : res[u].req # r

\* An approval gate has its verdict: the action ran, the thread knows of the
\* denial, or the answer is on its way to the call.
Ran(r) == acted[r] # 0
Sent(r) == inbox[r] \in {"Approved", "Denied"}

\* The verdict uses an approval gate up, so there is only one.
SpentOK(r) ==
    /\ pause[r] = "idle" => ~ Ran(r) /\ r \notin denied
    /\ r \notin Auth =>
         /\ acted[r] <= 1
         /\ Ran(r) \/ r \in denied \/ Sent(r) => NoCopy(r)
         /\ ~ (Ran(r) /\ r \in denied)
         /\ Sent(r) => ~ Ran(r) /\ r \notin denied

\* The gate of a call that waits is known to be somewhere.
ParkedOK(r) ==
    pause[r] \in Early /\ inbox[r] = "none" /\ r \notin expired =>
        Pending(r) \/ (\E u \in Resolver : Taken(u, r)) \/ r \in astray

RequestOK(r) == UniqueOK(r) /\ SpentOK(r) /\ ParkedOK(r)

GateInv ==
    /\ LockOK /\ SweepOK
    /\ \A u \in Resolver : ResolverOK(u)
    /\ \A r \in Request : RequestOK(r)

\* A gate that is lost to its parked call is on record.
LEMMA StrayEffect ==
    ASSUME NEW q, NEW r \in Request
    PROVE  /\ r \in astray => r \in Stray(q)
           /\ r = q /\ pause[r] \in Early => r \in Stray(q)
  BY DEF Stray, InPause, Early

\* A request is not disturbed by a step that neither creates, takes nor answers
\* its gate: its own call may go on, short of waking up; a client that has the
\* gate may go on with it, or leave it astray.
LEMMA RequestFrame ==
    ASSUME NEW r \in Request, RequestOK(r),
           \/ pause'[r] = pause[r]
           \/ /\ pause[r] # "idle" /\ pause'[r] # "idle"
              /\ pause'[r] \in Early => pause[r] \in Early
              /\ pause'[r] = "credential" => r \in Auth,
           inbox'[r] = inbox[r], acted'[r] = acted[r],
           r \in denied' <=> r \in denied,
           r \in expired => r \in expired',
           r \in astray /\ pause'[r] \in Early => r \in astray',
           Pending(r)' => Pending(r),
           Pending(r) /\ pause'[r] \in Early => Pending(r)' \/ r \in astray' \/ r \in expired',
           file'[ThreadOf[r]] = r => file[ThreadOf[r]] = r \/ pause[r] # "idle",
           \A u \in Resolver :
              \/ res'[u] = res[u]
              \/ /\ ~ Taken(u, r)'
                 /\ Taken(u, r) /\ pause'[r] \in Early => r \in astray'
                 /\ res'[u].req = r => pause[r] # "idle"
              \/ Taken(u, r) /\ Taken(u, r)'
    PROVE  RequestOK(r)'
  <1>1. \A u \in Resolver : Taken(u, r)' => Taken(u, r)
    BY DEF Taken
  <1>2. NoCopy(r) => NoCopy(r)'
    BY <1>1 DEF NoCopy
  <1>3. UniqueOK(r)'
    <2>1. \A u \in Resolver : res'[u].req = r => res[u].req = r \/ pause[r] # "idle"
      BY DEF Taken
    <2>2. QED
      BY <1>1, <2>1 DEF RequestOK, UniqueOK
  <1>4. SpentOK(r)'
    BY <1>2 DEF RequestOK, SpentOK, Ran, Sent
  <1>5. \A u \in Resolver : Taken(u, r) /\ pause'[r] \in Early => Taken(u, r)' \/ r \in astray'
    BY DEF Taken
  <1>6. ParkedOK(r)'
    BY <1>5 DEF RequestOK, ParkedOK, Early
  <1>7. QED
    BY <1>3, <1>4, <1>6 DEF RequestOK

\* A parked call goes on: it is not idle before or after, and leaves the other
\* calls, the answers and the sweeps alone.
LEMMA CallMoves ==
    ASSUME TypeOK, NEW p \in Request, PauseStep(p)
    PROVE  /\ InPause(p) /\ pause'[p] # "idle"
           /\ pause'[p] \in Early => pause[p] \in Early
           /\ pause'[p] = "credential" => p \in Auth
           /\ \A q \in Request : q # p => pause'[q] = pause[q]
           /\ UNCHANGED <<res, sweep, expired>>
           /\ pause'[p] \in Early => UNCHANGED astray
           /\ \A q \in Request : q # p /\ q \in astray => q \in astray'
  <1> USE DEF store, call, registry, history, InPause, Early
  <1>1. CASE PauseSave(p)
    BY <1>1, StepEffect DEF PauseSave, PausePc
  <1>2. CASE PauseRegister(p)
    BY <1>2, StepEffect DEF PauseRegister, PausePc
  <1>3. CASE PauseCredential(p)
    BY <1>3, StepEffect DEF PauseCredential, PausePc
  <1>4. CASE PauseTrack(p)
    BY <1>4, StepEffect DEF PauseTrack, PausePc
  <1>5. CASE PauseWake(p)
    BY <1>5, StepEffect DEF PauseWake, PausePc
  <1>6. CASE PauseTimeout(p)
    BY <1>6, StepEffect DEF PauseTimeout, PausePc
  <1>7. CASE PauseDiscard(p)
    BY <1>7, StepEffect DEF PauseDiscard, PausePc
  <1>8. CASE PauseRemove(p)
    BY <1>8, StepEffect DEF PauseRemove, PausePc
  <1>9. CASE PauseUntrack(p)
    BY <1>9, StepEffect DEF PauseUntrack, PausePc
  <1>10. QED
    BY <1>1, <1>2, <1>3, <1>4, <1>5, <1>6, <1>7, <1>8, <1>9 DEF PauseStep

\* A pause starts with no other call parked in its thread.
LEMMA CallStarts ==
    ASSUME TypeOK, NEW p \in Request, Pause(p)
    PROVE  /\ \A q \in Request : ThreadOf[q] = ThreadOf[p] => ~ InPause(q)
           /\ pause[p] = "idle"
           /\ \/ /\ row[ThreadOf[p]] = NoRequest /\ pause'[p] = "save"
                 /\ row' = [row EXCEPT ![ThreadOf[p]] = p]
              \/ UNCHANGED row /\ pause'[p] = "done"
           /\ \A q \in Request : q # p => pause'[q] = pause[q]
           /\ UNCHANGED <<file, inbox, lapsed, expired, registry, res, sweep, history>>
  BY StepEffect DEF Pause, PausePc

\* Nobody else moves a call.
LEMMA CallStays ==
    ASSUME \/ \E r \in Request : Expire(r)
           \/ \E u \in Resolver :
                \/ \E r \in Request, path \in {"inline", "queue"},
                      verdict \in {"Approved", "Denied"} : Submit(u, r, path, verdict)
                \/ ResolverStep(u)
           \/ OauthStart \/ \E t \in Thread : StopStart(t)
           \/ \E s \in Sweeper : SweepStep(s)
    PROVE  UNCHANGED pause
  <1> USE DEF call
  <1>1. ASSUME NEW r \in Request, Expire(r) PROVE UNCHANGED pause
    BY <1>1 DEF Expire
  <1>2. ASSUME NEW u \in Resolver, ResolverStep(u) PROVE UNCHANGED pause
    BY <1>2, Zenon DEF ResolverStep, Take, Remove, Deliver, Send, Reinsert, ReinsertSave, Reenter
  <1>3. ASSUME NEW s \in Sweeper, SweepStep(s) PROVE UNCHANGED pause
    BY <1>3, Zenon DEF SweepStep, SweepTake, SweepSend, SweepList, SweepEnd, SweepDiscard,
                       SweepRemove
  <1>4. QED
    BY <1>1, <1>2, <1>3 DEF Submit, OauthStart, StopStart

\* The gate lock keeps the pauses of a thread apart.
LEMMA LockStep == TypeOK /\ LockOK /\ Next => LockOK'
  <1> SUFFICES ASSUME TypeOK, LockOK, Next,
                      NEW q \in Request, NEW r \in Request,
                      ThreadOf[q] = ThreadOf[r], InPause(q)', InPause(r)'
               PROVE  q = r
    BY DEF LockOK
  <1>1. ASSUME NEW p \in Request, Pause(p) PROVE q = r
    BY <1>1, CallStarts DEF LockOK, InPause
  <1>2. ASSUME NEW p \in Request, PauseStep(p) PROVE q = r
    BY <1>2, CallMoves DEF LockOK, InPause
  <1>3. ASSUME NEW waiting \in SUBSET Thread, Restart(waiting) PROVE q = r
    BY <1>3 DEF Restart, InPause
  <1>4. ASSUME UNCHANGED pause PROVE q = r
    BY <1>4 DEF LockOK, InPause
  <1>5. QED
    BY <1>1, <1>2, <1>3, <1>4, CallStays DEF Next

\* The callback finds only calls that wait for the credential.
LEMMA SweepKept == TypeOK /\ SweepOK /\ Next => SweepOK'
  <1> SUFFICES ASSUME TypeOK, SweepOK, Next PROVE SweepOK'
    OBVIOUS
  <1> USE DEF store, call, registry, history
  <1>t. /\ sweep \in [Sweeper -> Sweep] /\ byCred \subseteq Auth
        /\ NoSweep.pc = "idle" /\ NoSweep.todo = {} /\ NoSweep.hand = NoRequest
        /\ "oauth" \in Sweeper /\ "oauth" # "stop"
    BY DEF TypeOK, NoSweep, Sweeper
  <1>1. ASSUME UNCHANGED sweep PROVE SweepOK'
    BY <1>1 DEF SweepOK
  <1>2. CASE OauthStart
    <2>1. sweep'["oauth"].todo = byCred /\ sweep'["oauth"].hand = NoRequest
          /\ sweep'["oauth"].pc = "deliver"
          /\ \A s \in Sweeper : s # "oauth" => sweep'[s] = sweep[s]
      BY <1>2, <1>t DEF OauthStart, NoSweep
    <2>2. QED
      BY <1>t, <2>1 DEF SweepOK
  <1>3. ASSUME NEW t \in Thread, StopStart(t) PROVE SweepOK'
    <2>1. sweep'["oauth"] = sweep["oauth"]
          /\ \A s \in Sweeper : sweep'[s] = sweep[s] \/ sweep'[s].pc = "deliver"
      BY <1>3, <1>t DEF StopStart, NoSweep, Sweeper
    <2>2. QED
      BY <2>1 DEF SweepOK
  <1>4. ASSUME NEW s \in Sweeper, NEW r \in Request, SweepTake(s, r) PROVE SweepOK'
    <2>1. /\ r \in sweep[s].todo
          /\ sweep'[s].todo = sweep[s].todo \ {r}
          /\ sweep'[s].hand \in {r, NoRequest}
          /\ sweep'[s].pc = "send" => sweep'[s].hand = r
          /\ \A o \in Sweeper : o # s => sweep'[o] = sweep[o]
      BY <1>4, <1>t DEF SweepTake, Sweep
    <2>2. QED
      BY <1>t, <2>1 DEF SweepOK
  <1>5. ASSUME NEW s \in Sweeper, SweepSend(s) PROVE SweepOK'
    <2>1. /\ sweep'[s].todo = sweep[s].todo
          /\ sweep'[s].hand = NoRequest /\ sweep'[s].pc = "deliver"
          /\ \A o \in Sweeper : o # s => sweep'[o] = sweep[o]
      BY <1>5, <1>t DEF SweepSend, Sweep
    <2>2. QED
      BY <1>t, <2>1 DEF SweepOK
  <1>6. ASSUME NEW s \in Sweeper, SweepList(s) PROVE SweepOK'
    <2>1. /\ sweep'[s].todo \in {sweep[s].todo, {}}
          /\ sweep'[s].hand \in {sweep[s].hand, NoRequest} /\ sweep'[s].pc # "send"
          /\ \A o \in Sweeper : o # s => sweep'[o] = sweep[o]
      BY <1>6, <1>t DEF SweepList, Sweep
    <2>2. QED
      BY <1>t, <2>1 DEF SweepOK
  <1>7. ASSUME NEW s \in Sweeper, NEW t \in Thread, SweepDiscard(s, t) \/ SweepRemove(s, t)
        PROVE  SweepOK'
    <2>1. /\ sweep'[s].todo = sweep[s].todo
          /\ sweep'[s].hand = sweep[s].hand /\ sweep'[s].pc # "send"
          /\ \A o \in Sweeper : o # s => sweep'[o] = sweep[o]
      <3>1. CASE SweepDiscard(s, t)
        BY <3>1, <1>t DEF SweepDiscard, Sweep
      <3>2. CASE SweepRemove(s, t)
        BY <3>2, <1>t DEF SweepRemove, Sweep
      <3>3. QED
        BY <1>7, <3>1, <3>2
    <2>2. QED
      BY <1>t, <2>1 DEF SweepOK
  <1>8. ASSUME NEW s \in Sweeper, SweepEnd(s) PROVE SweepOK'
    <2>1. /\ sweep'[s].todo = {} /\ sweep'[s].hand = NoRequest /\ sweep'[s].pc = "idle"
          /\ \A o \in Sweeper : o # s => sweep'[o] = sweep[o]
      BY <1>8, <1>t DEF SweepEnd
    <2>2. QED
      BY <1>t, <2>1 DEF SweepOK
  <1>9. ASSUME NEW waiting \in SUBSET Thread, Restart(waiting) PROVE SweepOK'
    BY <1>9, <1>t DEF Restart, SweepOK
  <1>10. ASSUME NEW r \in Request, Pause(r) \/ PauseStep(r) \/ Expire(r) PROVE SweepOK'
    <2>1. UNCHANGED sweep
      BY <1>10, CallStarts, CallMoves DEF Expire
    <2>2. QED
      BY <1>1, <2>1
  <1>11. ASSUME NEW u \in Resolver,
                \/ \E r \in Request, path \in {"inline", "queue"},
                      verdict \in {"Approved", "Denied"} : Submit(u, r, path, verdict)
                \/ ResolverStep(u)
         PROVE  SweepOK'
    <2>1. UNCHANGED sweep
      BY <1>11, Zenon DEF Submit, ResolverStep, Take, Remove, Deliver, Send, Reinsert,
                          ReinsertSave, Reenter
    <2>2. QED
      BY <1>1, <2>1
  <1>12. QED
    BY <1>2, <1>3, <1>4, <1>5, <1>6, <1>7, <1>8, <1>9, <1>10, <1>11 DEF Next, SweepStep

\* Where an answer stands after a step of its client.
LEMMA ResolverMoves ==
    ASSUME TypeOK, NEW u \in Resolver, ResolverOK(u), ResolverStep(u)
    PROVE  /\ \A v \in Resolver : v # u => res'[v] = res[v]
           /\ ResolverOK(u)'
  <1> USE DEF store, call, registry, history, At
  <1>t. res[u].path \in {"inline", "queue"} /\ NoResolution.pc = "idle"
        /\ NoResolution.path = "inline"
    BY DEF TypeOK, Resolution, NoResolution
  <1>o. /\ res[u].pc # "idle" =>
             res[u].req \in Request /\ res[u].verdict \in {"Approved", "Denied"}
        /\ res[u].pc \in {"insert", "save"} => res[u].path = "inline"
    BY DEF ResolverOK
  <1>g. res'[u] = NoResolution => ResolverOK(u)'
    BY <1>t DEF ResolverOK
  <1>k. ASSUME res[u].pc # "idle", GoQueue(u)
        PROVE  (\A v \in Resolver : v # u => res'[v] = res[v]) /\ ResolverOK(u)'
    BY <1>o, <1>k, GoQueueEffect DEF ResolverOK
  <1>1. CASE Take(u)
    <2>1. \/ res[u].path = "inline" /\ GoQueue(u)
          \/ Go(u, "idle")
          \/ Go(u, "remove")
      BY <1>1 DEF Take, TakeVerified
    <2>2. CASE Go(u, "idle")
      BY <1>g, <2>2, GoEffect DEF ResolverPc
    <2>3. CASE Go(u, "remove")
      <3>2. /\ res'[u].pc = "remove" /\ res'[u].req = res[u].req
            /\ res'[u].path = res[u].path /\ res'[u].verdict = res[u].verdict
            /\ \A v \in Resolver : v # u => res'[v] = res[v]
        BY <2>3, GoEffect DEF ResolverPc
      <3>3. res[u].pc = "take"
        BY <1>1 DEF Take
      <3>4. QED
        BY <1>o, <3>2, <3>3 DEF ResolverOK
    <2>4. QED
      BY <1>1, <1>k, <2>1, <2>2, <2>3 DEF Take
  <1>2. CASE Remove(u)
    <2>1. /\ res[u].pc = "remove"
          /\ res'[u].pc = IF res[u].path = "inline" /\ res[u].req \in Auth
                          THEN "insert" ELSE "deliver"
          /\ res'[u].req = res[u].req /\ res'[u].path = res[u].path
          /\ res'[u].verdict = res[u].verdict
          /\ \A v \in Resolver : v # u => res'[v] = res[v]
      BY <1>2, GoEffect DEF Remove, ResolverPc
    <2>2. QED
      BY <1>t, <1>o, <2>1 DEF ResolverOK
  <1>3. ASSUME Deliver(u) \/ Send(u)
        PROVE  (\A v \in Resolver : v # u => res'[v] = res[v]) /\ ResolverOK(u)'
    <2>1. Go(u, "idle") \/ Go(u, "send") \/ Go(u, Undelivered(u))
      BY <1>3 DEF Deliver, Send
    <2>2. CASE Go(u, "idle")
      BY <1>g, <2>2, GoEffect DEF ResolverPc
    <2>3. CASE Go(u, "send") \/ Go(u, Undelivered(u))
      <3>1. /\ \/ res'[u].pc = "send"
               \/ res'[u].pc = IF res[u].path = "inline" THEN "insert" ELSE "act"
            /\ res'[u].req = res[u].req /\ res'[u].path = res[u].path
            /\ res'[u].verdict = res[u].verdict
            /\ \A v \in Resolver : v # u => res'[v] = res[v]
        BY <2>3, GoEffect DEF ResolverPc, Undelivered
      <3>2. res[u].pc \in {"deliver", "send"}
        BY <1>3 DEF Deliver, Send
      <3>3. QED
        BY <1>t, <1>o, <3>1, <3>2 DEF ResolverOK
    <2>4. QED
      BY <2>1, <2>2, <2>3
  <1>4. CASE Reinsert(u)
    <2>1. res[u].pc = "insert" /\ (Go(u, "save") \/ GoQueue(u))
      BY <1>4 DEF Reinsert
    <2>2. CASE Go(u, "save")
      <3>1. /\ res'[u].pc = "save" /\ res'[u].req = res[u].req
            /\ res'[u].path = res[u].path /\ res'[u].verdict = res[u].verdict
            /\ \A v \in Resolver : v # u => res'[v] = res[v]
        BY <2>2, GoEffect DEF ResolverPc
      <3>2. QED
        BY <1>o, <2>1, <3>1 DEF ResolverOK
    <2>3. QED
      BY <1>k, <2>1, <2>2
  <1>5. CASE ReinsertSave(u)
    BY <1>5, <1>k DEF ReinsertSave
  <1>6. CASE Reenter(u)
    BY <1>6, <1>g, GoEffect DEF Reenter, ResolverPc
  <1>7. QED
    BY <1>1, <1>2, <1>3, <1>4, <1>5, <1>6 DEF ResolverStep

\* Answers stay in order.
LEMMA ResolversKept ==
    TypeOK /\ (\A u \in Resolver : ResolverOK(u)) /\ Next
      => \A u \in Resolver : ResolverOK(u)'
  <1> SUFFICES ASSUME TypeOK, \A u \in Resolver : ResolverOK(u), Next, NEW v \in Resolver
               PROVE  ResolverOK(v)'
    OBVIOUS
  <1> USE DEF store, call, registry, history
  <1>0. ASSUME res'[v] = res[v] PROVE ResolverOK(v)'
    BY <1>0 DEF ResolverOK
  <1>1. ASSUME NEW p \in Request, Pause(p) PROVE ResolverOK(v)'
    BY <1>0, <1>1, CallStarts
  <1>2. ASSUME NEW p \in Request, PauseStep(p) PROVE ResolverOK(v)'
    BY <1>0, <1>2, CallMoves
  <1>3. ASSUME NEW p \in Request, Expire(p) PROVE ResolverOK(v)'
    BY <1>0, <1>3 DEF Expire
  <1>4. ASSUME NEW u \in Resolver, NEW r \in Request, NEW path \in {"inline", "queue"},
               NEW verdict \in {"Approved", "Denied"}, Submit(u, r, path, verdict)
        PROVE  ResolverOK(v)'
    <2>1. CASE v = u
      <3>1. res'[v] = [pc |-> "take", req |-> r, path |-> path, verdict |-> verdict]
        BY <1>4, <2>1 DEF Submit, TypeOK
      <3>2. QED
        BY <3>1 DEF ResolverOK
    <2>2. CASE v # u
      BY <1>0, <1>4, <2>2 DEF Submit, TypeOK
    <2>3. QED
      BY <2>1, <2>2
  <1>5. ASSUME NEW u \in Resolver, ResolverStep(u) PROVE ResolverOK(v)'
    <2>1. CASE v = u
      BY <1>5, <2>1, ResolverMoves
    <2>2. CASE v # u
      BY <1>0, <1>5, <2>2, ResolverMoves
    <2>3. QED
      BY <2>1, <2>2
  <1>6. ASSUME \/ OauthStart \/ \E t \in Thread : StopStart(t)
               \/ \E s \in Sweeper : SweepStep(s)
        PROVE  ResolverOK(v)'
    <2>1. UNCHANGED res
      BY <1>6, Zenon DEF OauthStart, StopStart, SweepStep, SweepTake, SweepSend, SweepList,
                         SweepEnd, SweepDiscard, SweepRemove
    <2>2. QED
      BY <1>0, <2>1
  <1>7. ASSUME NEW waiting \in SUBSET Thread, Restart(waiting) PROVE ResolverOK(v)'
    <2>1. res'[v] = NoResolution
      BY <1>7 DEF Restart
    <2>2. QED
      BY <2>1 DEF ResolverOK, NoResolution
  <1>8. QED
    BY <1>1, <1>2, <1>3, <1>4, <1>5, <1>6, <1>7 DEF Next

\* A pause puts its gate into the store, or ends on the gate that is there.
LEMMA PauseKeeps ==
    ASSUME TypeOK, NEW p \in Request, Pause(p), NEW r \in Request, RequestOK(r)
    PROVE  RequestOK(r)'
  <1> USE DEF store, call, registry, history
  <1>t. row \in [Thread -> Request \cup {NoRequest}] /\ ThreadOf[r] \in Thread
        /\ ThreadOf[p] \in Thread /\ NoRequest # r
    BY NoRequestAssumption, ThreadOfAssumption DEF TypeOK
  <1>1. /\ pause[p] = "idle"
        /\ \/ /\ row[ThreadOf[p]] = NoRequest /\ pause'[p] = "save"
              /\ row' = [row EXCEPT ![ThreadOf[p]] = p]
           \/ UNCHANGED row /\ pause'[p] = "done"
        /\ \A q \in Request : q # p => pause'[q] = pause[q]
        /\ UNCHANGED <<file, inbox, expired, res, astray, acted, denied>>
    BY CallStarts DEF history
  <1>2. CASE r # p
    <2>1. Pending(r)' <=> Pending(r)
      BY <1>t, <1>1, <1>2 DEF Pending
    <2>2. QED
      BY <1>1, <1>2, <2>1, RequestFrame
  <1>3. CASE r = p
    <2>1. /\ inbox[r] = "none" /\ ~ Ran(r) /\ r \notin denied /\ acted[r] = 0
          /\ \A u \in Resolver : res[u].req # r
          /\ ~ Pending(r)
      BY <1>1, <1>3 DEF RequestOK, UniqueOK, SpentOK, Ran
    <2>2. \A u \in Resolver : ~ Taken(u, r)'
      BY <1>1, <2>1 DEF Taken
    <2>3. pause'[r] = "save" => Pending(r)'
      BY <1>t, <1>1, <1>3 DEF Pending
    <2>4. pause'[r] \in {"save", "done"}
      BY <1>1, <1>3
    <2>5. UniqueOK(r)' /\ SpentOK(r)'
      BY <1>1, <2>1, <2>2, <2>4 DEF UniqueOK, SpentOK, Ran, Sent
    <2>6. ParkedOK(r)'
      BY <2>3, <2>4 DEF ParkedOK, Early
    <2>7. QED
      BY <2>5, <2>6 DEF RequestOK
  <1>4. QED
    BY <1>2, <1>3

\* A parked call that gets its answer uses it once.
LEMMA WakeKeeps ==
    ASSUME TypeOK, NEW p \in Request, PauseWake(p), NEW r \in Request, RequestOK(r)
    PROVE  RequestOK(r)'
  <1> USE DEF store, call, registry, history
  <1>1. /\ pause[p] = "wait" /\ pause'[p] = "untrack"
        /\ \A q \in Request : q # p => pause'[q] = pause[q]
        /\ UNCHANGED <<row, file, expired, res, astray>>
        /\ \A q \in Request : q # p => inbox'[q] = inbox[q] /\ acted'[q] = acted[q]
        /\ inbox'[p] = "none"
        /\ acted'[p] = IF inbox[p] = "Approved" THEN Act(p)[p] ELSE acted[p]
        /\ denied' = IF inbox[p] = "Denied" THEN Told(p) ELSE denied
    BY StepEffect, ActEffect DEF PauseWake, PausePc, TypeOK
  <1>2. CASE r # p
    BY <1>1, <1>2, RequestFrame DEF Pending, Taken, Told
  <1>3. CASE r = p
    <2>1. UniqueOK(r)'
      BY <1>1, <1>3 DEF RequestOK, UniqueOK, Pending, Taken
    <2>2. NoCopy(r)' <=> NoCopy(r)
      BY <1>1 DEF NoCopy, Pending, Taken
    <2>3. ASSUME r \notin Auth, Sent(r)
          PROVE  /\ NoCopy(r)' /\ acted'[r] = IF inbox[r] = "Approved" THEN 1 ELSE 0
                 /\ r \in denied' => inbox[r] = "Denied"
      <3>1. NoCopy(r) /\ acted[r] = 0 /\ r \notin denied
        BY <2>3 DEF RequestOK, SpentOK, Ran
      <3>2. QED
        BY <1>1, <1>3, <2>2, <2>3, <3>1, ActEffect
    <2>4. ASSUME r \notin Auth, ~ Sent(r)
          PROVE  acted'[r] = acted[r] /\ (r \in denied' <=> r \in denied)
      BY <1>1, <1>3, <2>4 DEF Sent
    <2>5. pause'[r] = "untrack" /\ ~ Sent(r)'
      BY <1>1, <1>3 DEF Sent
    <2>6. SpentOK(r)'
      <3>1. CASE r \in Auth
        BY <2>5, <3>1 DEF SpentOK
      <3>2. CASE r \notin Auth /\ Sent(r)
        BY <2>3, <2>5, <3>2 DEF SpentOK, Ran
      <3>3. CASE r \notin Auth /\ ~ Sent(r)
        BY <2>2, <2>4, <2>5, <3>3 DEF RequestOK, SpentOK, Ran
      <3>4. QED
        BY <3>1, <3>2, <3>3
    <2>7. ParkedOK(r)'
      BY <2>5 DEF ParkedOK, Early
    <2>8. QED
      BY <2>1, <2>6, <2>7 DEF RequestOK
  <1>4. QED
    BY <1>2, <1>3

\* The other steps of a parked call leave every gate and every answer alone,
\* but for the discard, which is after the answer can be of use.
LEMMA CallKeeps ==
    ASSUME TypeOK, LockOK, NEW p \in Request, PauseStep(p), NEW r \in Request, RequestOK(r)
    PROVE  RequestOK(r)'
  <1> USE DEF store, call, registry, history
  <1>t. row \in [Thread -> Request \cup {NoRequest}] /\ ThreadOf[r] \in Thread
        /\ ThreadOf[p] \in Thread /\ NoRequest # r
        /\ file \in [Thread -> Request \cup {NoRequest}]
    BY NoRequestAssumption, ThreadOfAssumption DEF TypeOK
  <1>m. /\ pause[p] # "idle" /\ pause'[p] # "idle"
        /\ pause'[p] \in Early => pause[p] \in Early
        /\ pause'[p] = "credential" => p \in Auth
        /\ \A q \in Request : q # p => pause'[q] = pause[q]
        /\ UNCHANGED <<res, expired>>
        /\ r \in astray /\ pause'[r] \in Early => r \in astray'
    BY CallMoves DEF InPause
  <1>1. CASE PauseSave(p)
    <2>1. /\ UNCHANGED <<row, inbox, denied, acted>>
          /\ file'[ThreadOf[r]] = r => file[ThreadOf[r]] = r \/ r = p
      BY <1>1, <1>t DEF PauseSave
    <2>2. QED
      BY <1>m, <2>1, RequestFrame DEF Pending
  <1>2. CASE \/ PauseRegister(p) \/ PauseCredential(p) \/ PauseTrack(p)
             \/ PauseTimeout(p) \/ PauseUntrack(p)
    <2>1. UNCHANGED <<row, file, inbox, denied, acted>>
      BY <1>2 DEF PauseRegister, PauseCredential, PauseTrack, PauseTimeout, PauseUntrack
    <2>2. QED
      BY <1>m, <2>1, RequestFrame DEF Pending
  <1>3. CASE PauseRemove(p)
    <2>1. /\ UNCHANGED <<row, inbox, denied, acted>>
          /\ file'[ThreadOf[r]] = r => file[ThreadOf[r]] = r
      BY <1>3, <1>t DEF PauseRemove, Persisted
    <2>2. QED
      BY <1>m, <2>1, RequestFrame DEF Pending
  <1>4. CASE PauseDiscard(p)
    <2>1. /\ UNCHANGED <<file, inbox, denied, acted>>
          /\ Pending(r)' => Pending(r)
          /\ ThreadOf[r] # ThreadOf[p] => (Pending(r) => Pending(r)')
          /\ InPause(p) /\ pause'[p] \notin Early
      BY <1>4, <1>t, StepEffect, CallMoves DEF PauseDiscard, Pending, PausePc, Early
    <2>2. ThreadOf[r] = ThreadOf[p] => pause'[r] \notin Early
      BY <1>m, <2>1 DEF LockOK, InPause, Early
    <2>3. QED
      BY <1>m, <2>1, <2>2, RequestFrame
  <1>5. QED
    BY <1>1, <1>2, <1>3, <1>4, WakeKeeps DEF PauseStep

\* What the pieces of the invariant say of the gate an answer is for.
LEMMA AnswerFacts ==
    ASSUME TypeOK, NEW u \in Resolver, ResolverOK(u), res[u].pc # "idle",
           \A q \in Request : RequestOK(q)
    PROVE  /\ res[u].req \in Request /\ ThreadOf[res[u].req] \in Thread
           /\ res[u].path \in {"inline", "queue"}
           /\ res[u].verdict \in {"Approved", "Denied"}
           /\ pause[res[u].req] # "idle"
  <1>1. res[u].req \in Request /\ res[u].verdict \in {"Approved", "Denied"}
    BY DEF ResolverOK
  <1>2. pause[res[u].req] # "idle"
    BY <1>1 DEF RequestOK, UniqueOK
  <1>3. QED
    BY <1>1, <1>2, ThreadOfAssumption DEF TypeOK, Resolution, ResolverOK

\* Taking a gate moves it from the store to the client, and only a gate that
\* has not expired.
LEMMA TakeKeeps ==
    ASSUME TypeOK, NEW u \in Resolver, ResolverOK(u), \A q \in Request : RequestOK(q),
           NEW r \in Request, Take(u)
    PROVE  RequestOK(r)'
  <1> USE DEF store, call, registry, history, At
  <1> DEFINE q == res[u].req
  <1>o. RequestOK(r)
    OBVIOUS
  <1>t. row \in [Thread -> Request \cup {NoRequest}] /\ ThreadOf[r] \in Thread /\ NoRequest # r
    BY NoRequestAssumption, ThreadOfAssumption DEF TypeOK
  <1>0. /\ res[u].pc = "take" /\ UNCHANGED <<file, pause, inbox, denied, expired, acted, astray>>
        /\ \A v \in Resolver : v # u => res'[v] = res[v]
    BY ResolverMoves DEF Take, ResolverStep
  <1>f. q \in Request /\ ThreadOf[q] \in Thread /\ pause[q] # "idle"
    BY <1>0, AnswerFacts
  <1>n. NoResolution.pc = "idle" /\ NoResolution.req = NoRequest
    BY DEF NoResolution
  <1>1. CASE Pending(q) /\ q \notin expired
    <2>1. /\ Go(u, "remove") /\ row' = [row EXCEPT ![ThreadOf[q]] = NoRequest]
          /\ row[ThreadOf[q]] = q
      BY <1>1 DEF Take, TakeVerified, Pending
    <2>2. res'[u].pc = "remove" /\ res'[u].req = q
      BY <2>1, GoEffect DEF ResolverPc
    <2>3. CASE r # q
      <3>1. Pending(r)' <=> Pending(r)
        BY <1>t, <2>1, <2>3 DEF Pending
      <3>2. ~ Taken(u, r) /\ ~ Taken(u, r)' /\ res'[u].req # r
        BY <2>2, <2>3 DEF Taken
      <3>3. QED
        BY <1>o, <1>0, <3>1, <3>2, RequestFrame
    <2>4. CASE r = q
      <3>1. ~ Pending(r)' /\ Pending(r)
        BY <1>t, <1>1, <2>1, <2>4 DEF Pending
      <3>2. \A v \in Resolver : ~ Taken(v, r)
        BY <1>o, <3>1 DEF RequestOK, UniqueOK
      <3>3. \A v \in Resolver : Taken(v, r)' => v = u
        BY <1>0, <3>2 DEF Taken
      <3>4. ~ NoCopy(r) /\ pause[r] # "idle"
        BY <1>o, <3>1 DEF NoCopy, RequestOK, UniqueOK
      <3>5. UniqueOK(r)'
        BY <1>o, <1>0, <3>1, <3>3, <3>4 DEF RequestOK, UniqueOK
      <3>6. SpentOK(r)'
        BY <1>o, <1>0, <3>4 DEF RequestOK, SpentOK, Ran, Sent
      <3>7. Taken(u, r)'
        BY <2>2, <2>4 DEF Taken
      <3>8. ParkedOK(r)'
        BY <3>7 DEF ParkedOK
      <3>9. QED
        BY <3>5, <3>6, <3>8 DEF RequestOK
    <2>5. QED
      BY <2>3, <2>4
  <1>2. CASE Pending(q) /\ q \in expired
    <2>1. /\ Go(u, "idle") /\ row' = [row EXCEPT ![ThreadOf[q]] = NoRequest]
          /\ row[ThreadOf[q]] = q
      BY <1>2 DEF Take, TakeVerified, Pending
    <2>2. res'[u] = NoResolution
      BY <2>1, GoEffect DEF ResolverPc
    <2>3. Pending(r)' => Pending(r)
      BY <1>t, <2>1 DEF Pending
    <2>4. Pending(r) => Pending(r)' \/ r \in expired
      BY <1>t, <1>2, <2>1 DEF Pending
    <2>5. ~ Taken(u, r) /\ ~ Taken(u, r)' /\ res'[u].req # r
      BY <1>0, <1>n, <1>t, <2>2 DEF Taken
    <2>6. QED
      BY <1>o, <1>0, <2>3, <2>4, <2>5, RequestFrame
  <1>3. CASE ~ Pending(q)
    <2>1. UNCHANGED row /\ (GoQueue(u) \/ Go(u, "idle"))
      BY <1>3 DEF Take, TakeVerified, Pending
    <2>2. ~ Taken(u, r) /\ ~ Taken(u, r)' /\ res'[u].req \in {q, NoRequest}
      BY <1>0, <1>n, <2>1, GoEffect, GoQueueEffect DEF Taken, ResolverPc
    <2>3. QED
      BY <1>o, <1>t, <1>0, <1>f, <2>1, <2>2, RequestFrame DEF Pending
  <1>4. QED
    BY <1>1, <1>2, <1>3

\* A client that has the gate and goes on with it keeps it.
LEMMA HandKeeps ==
    ASSUME TypeOK, NEW u \in Resolver, ResolverOK(u), \A q \in Request : RequestOK(q),
           NEW r \in Request, Remove(u) \/ Deliver(u) \/ (Send(u) /\ ~ Listening(res[u].req))
    PROVE  RequestOK(r)'
  <1> USE DEF store, call, registry, history, At
  <1> DEFINE q == res[u].req
  <1>o. RequestOK(r)
    OBVIOUS
  <1>t. /\ file \in [Thread -> Request \cup {NoRequest}] /\ ThreadOf[r] \in Thread
        /\ NoRequest # r
    BY NoRequestAssumption, ThreadOfAssumption DEF TypeOK
  <1>0. /\ res[u].pc \in {"remove", "deliver", "send"}
        /\ UNCHANGED <<row, pause, inbox, denied, expired, acted, astray>>
        /\ file'[ThreadOf[r]] = r => file[ThreadOf[r]] = r
        /\ \A v \in Resolver : v # u => res'[v] = res[v]
    BY <1>t, ResolverMoves DEF Remove, Deliver, Send, ResolverStep, Persisted
  <1>1. /\ res'[u].pc \in {"insert", "deliver", "send", "act"}
        /\ res'[u].req = q
    BY GoEffect DEF Remove, Deliver, Send, Undelivered, ResolverPc
  <1>3. CASE r # q
    BY <1>o, <1>0, <1>1, <1>3, RequestFrame DEF Pending, Taken
  <1>4. CASE r = q
    <2>1. Taken(u, r) /\ Taken(u, r)'
      BY <1>0, <1>1, <1>4 DEF Taken
    <2>2. QED
      BY <1>o, <1>0, <2>1, RequestFrame DEF Pending
  <1>5. QED
    BY <1>3, <1>4

\* An answer that arrives uses the gate up.
LEMMA SendKeeps ==
    ASSUME TypeOK, NEW u \in Resolver, ResolverOK(u), \A q \in Request : RequestOK(q),
           NEW r \in Request, Send(u), Listening(res[u].req)
    PROVE  RequestOK(r)'
  <1> USE DEF store, call, registry, history, At
  <1> DEFINE q == res[u].req
  <1>o. RequestOK(r)
    OBVIOUS
  <1>0. /\ res[u].pc = "send" /\ UNCHANGED <<row, file, pause, denied, expired, acted, astray>>
        /\ \A v \in Resolver : v # u => res'[v] = res[v]
        /\ inbox' = [inbox EXCEPT ![q] = res[u].verdict]
    BY ResolverMoves DEF Send, ResolverStep
  <1>1. res'[u].pc = "idle" /\ res'[u].req = NoRequest
    BY GoEffect DEF Send, ResolverPc, NoResolution
  <1>2. q \in Request /\ res[u].verdict \in {"Approved", "Denied"} /\ pause[q] # "idle"
    BY <1>0, AnswerFacts
  <1>t. NoRequest # r /\ inbox \in [Request -> Answer]
    BY NoRequestAssumption DEF TypeOK
  <1>3. CASE r # q
    <2>1. inbox'[r] = inbox[r]
      BY <1>t, <1>0, <1>3
    <2>2. ~ Taken(u, r)' /\ ~ Taken(u, r) /\ res'[u].req # r
      BY <1>t, <1>1, <1>3 DEF Taken
    <2>3. QED
      BY <1>o, <1>0, <2>1, <2>2, RequestFrame DEF Pending
  <1>4. CASE r = q
    <2>1. Taken(u, r) /\ inbox'[r] = res[u].verdict
      BY <1>t, <1>0, <1>2, <1>4 DEF Taken
    <2>2. ~ Pending(r) /\ \A v \in Resolver : Taken(v, r) => v = u
      BY <1>o, <2>1 DEF RequestOK, UniqueOK
    <2>3. NoCopy(r)'
      BY <1>0, <1>1, <2>2 DEF NoCopy, Pending, Taken
    <2>4. ~ NoCopy(r) /\ pause[r] # "idle"
      BY <1>2, <1>4, <2>1 DEF NoCopy
    <2>5. UniqueOK(r)'
      BY <1>o, <1>0, <2>3, <2>4 DEF RequestOK, UniqueOK, NoCopy
    <2>6. SpentOK(r)'
      <3>1. r \notin Auth => ~ Ran(r) /\ r \notin denied /\ acted[r] <= 1
        BY <1>o, <2>4 DEF RequestOK, SpentOK
      <3>2. QED
        BY <1>0, <2>3, <2>4, <3>1 DEF SpentOK, Ran
    <2>7. ParkedOK(r)'
      BY <1>2, <2>1 DEF ParkedOK
    <2>8. QED
      BY <2>5, <2>6, <2>7 DEF RequestOK
  <1>5. QED
    BY <1>3, <1>4

\* A gate that is put back leaves the client's hands; one that finds its row
\* taken is lost to the history.
LEMMA ReinsertKeeps ==
    ASSUME TypeOK, NEW u \in Resolver, ResolverOK(u), \A q \in Request : RequestOK(q),
           NEW r \in Request, Reinsert(u)
    PROVE  RequestOK(r)'
  <1> USE DEF store, call, registry, history, At
  <1> DEFINE q == res[u].req
  <1>o. RequestOK(r)
    OBVIOUS
  <1>t. row \in [Thread -> Request \cup {NoRequest}] /\ ThreadOf[r] \in Thread /\ NoRequest # r
    BY NoRequestAssumption, ThreadOfAssumption DEF TypeOK
  <1>0. /\ res[u].pc = "insert" /\ UNCHANGED <<file, pause, inbox, denied, expired, acted>>
        /\ \A v \in Resolver : v # u => res'[v] = res[v]
    BY ResolverMoves DEF Reinsert, ResolverStep
  <1>f. q \in Request /\ ThreadOf[q] \in Thread /\ pause[q] # "idle"
    BY <1>0, AnswerFacts
  <1>1. CASE row[ThreadOf[q]] = NoRequest
    <2>1. Go(u, "save") /\ row' = [row EXCEPT ![ThreadOf[q]] = q] /\ UNCHANGED astray
      BY <1>1 DEF Reinsert
    <2>2. res'[u].pc = "save" /\ res'[u].req = q
      BY <2>1, GoEffect DEF ResolverPc
    <2>3. ~ Taken(u, r)'
      BY <2>2 DEF Taken
    <2>4. CASE r # q
      <3>1. Pending(r)' <=> Pending(r)
        BY <1>t, <1>1, <2>1, <2>4 DEF Pending
      <3>2. ~ Taken(u, r) /\ res'[u].req # r
        BY <2>2, <2>4 DEF Taken
      <3>3. QED
        BY <1>o, <1>0, <2>1, <2>3, <3>1, <3>2, RequestFrame
    <2>5. CASE r = q
      <3>1. Taken(u, r) /\ Pending(r)'
        BY <1>t, <1>0, <2>1, <2>5 DEF Taken, Pending
      <3>2. \A v \in Resolver : Taken(v, r) => v = u
        BY <1>o, <3>1 DEF RequestOK, UniqueOK
      <3>3. \A v \in Resolver : ~ Taken(v, r)'
        BY <1>0, <2>3, <3>2 DEF Taken
      <3>4. ~ NoCopy(r)
        BY <3>1 DEF NoCopy
      <3>5. UniqueOK(r)'
        BY <1>o, <1>0, <1>f, <2>5, <3>3 DEF RequestOK, UniqueOK
      <3>6. SpentOK(r)'
        BY <1>o, <1>0, <3>4 DEF RequestOK, SpentOK, Ran, Sent
      <3>7. ParkedOK(r)'
        BY <3>1 DEF ParkedOK
      <3>8. QED
        BY <3>5, <3>6, <3>7 DEF RequestOK
    <2>6. QED
      BY <2>4, <2>5
  <1>2. CASE row[ThreadOf[q]] # NoRequest
    <2>1. GoQueue(u) /\ UNCHANGED row /\ astray' = Stray(q)
      BY <1>2 DEF Reinsert
    <2>2. res'[u].pc = "take" /\ res'[u].req = q
      BY <2>1, GoQueueEffect
    <2>3. /\ ~ Taken(u, r)' /\ (res'[u].req = r => pause[r] # "idle")
          /\ Taken(u, r) /\ pause[r] \in Early => r \in astray'
          /\ r \in astray => r \in astray'
      BY <1>f, <2>1, <2>2, StrayEffect DEF Taken
    <2>4. QED
      BY <1>o, <1>0, <2>1, <2>3, RequestFrame DEF Pending
  <1>3. QED
    BY <1>1, <1>2

\* Answering a gate, and writing one back to the file, moves no gate.
LEMMA AnswerKeeps ==
    ASSUME TypeOK, NEW u \in Resolver, ResolverOK(u), \A q \in Request : RequestOK(q),
           NEW r \in Request,
           \/ ReinsertSave(u)
           \/ \E q \in Request, path \in {"inline", "queue"},
                 verdict \in {"Approved", "Denied"} : Submit(u, q, path, verdict)
    PROVE  RequestOK(r)'
  <1> USE DEF store, call, registry, history, At
  <1>o. RequestOK(r) /\ ThreadOf[r] \in Thread
    BY ThreadOfAssumption
  <1>1. CASE ReinsertSave(u)
    <2> DEFINE q == res[u].req
    <2>0. /\ res[u].pc = "save"
          /\ UNCHANGED <<row, pause, inbox, denied, expired, acted, astray>>
          /\ file' = [file EXCEPT ![ThreadOf[q]] = q] \/ UNCHANGED file
          /\ GoQueue(u)
      BY <1>1 DEF ReinsertSave, Persisted
    <2>1. /\ res'[u].pc = "take" /\ res'[u].req = q
          /\ \A v \in Resolver : v # u => res'[v] = res[v]
      BY <2>0, GoQueueEffect
    <2>2. pause[q] # "idle"
      BY <2>0, AnswerFacts
    <2>3. ~ Taken(u, r) /\ ~ Taken(u, r)' /\ (res'[u].req = r => pause[r] # "idle")
      BY <2>0, <2>1, <2>2 DEF Taken
    <2>4. file'[ThreadOf[r]] = r => file[ThreadOf[r]] = r \/ pause[r] # "idle"
      BY <1>o, <2>0, <2>2 DEF TypeOK
    <2>5. QED
      BY <1>o, <2>0, <2>1, <2>3, <2>4, RequestFrame DEF Pending
  <1>2. ASSUME NEW q \in Request, NEW path \in {"inline", "queue"},
               NEW verdict \in {"Approved", "Denied"}, Submit(u, q, path, verdict)
        PROVE  RequestOK(r)'
    <2>1. /\ res[u].pc = "idle" /\ Pending(q)
          /\ UNCHANGED <<row, file, pause, inbox, denied, expired, acted, astray>>
          /\ res'[u].pc = "take" /\ res'[u].req = q
          /\ \A v \in Resolver : v # u => res'[v] = res[v]
      BY <1>2 DEF Submit, TypeOK, Pending
    <2>2. pause[q] # "idle"
      BY <2>1 DEF RequestOK, UniqueOK
    <2>3. ~ Taken(u, r) /\ ~ Taken(u, r)' /\ (res'[u].req = r => pause[r] # "idle")
      BY <2>1, <2>2 DEF Taken
    <2>4. QED
      BY <1>o, <2>1, <2>3, RequestFrame DEF Pending
  <1>3. QED
    BY <1>1, <1>2

\* The re-entry path acts on the gate it has, and that uses the gate up.
LEMMA ReenterKeeps ==
    ASSUME TypeOK, NEW u \in Resolver, ResolverOK(u), \A q \in Request : RequestOK(q),
           NEW r \in Request, Reenter(u)
    PROVE  RequestOK(r)'
  <1> USE DEF store, call, registry, history, At
  <1> DEFINE q == res[u].req
  <1>o. RequestOK(r)
    OBVIOUS
  <1>0. /\ res[u].pc = "act"
        /\ UNCHANGED <<row, file, pause, inbox, expired>>
        /\ \A v \in Resolver : v # u => res'[v] = res[v]
        /\ \/ acted' = Act(q) /\ UNCHANGED denied
           \/ denied' = Told(q) /\ UNCHANGED acted
           \/ UNCHANGED <<acted, denied>>
        /\ astray' = Stray(q)
        /\ Go(u, "idle")
    BY ResolverMoves DEF Reenter, ResolverStep
  <1>1. res'[u].pc = "idle" /\ res'[u].req = NoRequest /\ ~ Taken(u, r)'
    BY <1>0, GoEffect DEF ResolverPc, NoResolution, Taken
  <1>t. NoRequest # r /\ acted \in [Request -> 0..2]
    BY NoRequestAssumption DEF TypeOK
  <1>2. q \in Request /\ pause[q] # "idle"
    BY <1>0, AnswerFacts
  <1>s. /\ r \in astray => r \in astray'
        /\ Taken(u, r) /\ pause[r] \in Early => r \in astray'
    BY <1>0, StrayEffect DEF Taken
  <1>3. CASE acted'[r] = acted[r] /\ (r \in denied' <=> r \in denied)
    BY <1>o, <1>t, <1>0, <1>1, <1>s, <1>3, RequestFrame DEF Pending
  <1>4. CASE r = q
    <2>1. Taken(u, r)
      BY <1>0, <1>4 DEF Taken
    <2>2. ~ Pending(r) /\ \A v \in Resolver : Taken(v, r) => v = u
      BY <1>o, <2>1 DEF RequestOK, UniqueOK
    <2>3. NoCopy(r)' /\ ~ NoCopy(r)
      BY <1>0, <1>1, <2>1, <2>2 DEF NoCopy, Pending, Taken
    <2>4. r \notin Auth => acted[r] = 0 /\ r \notin denied /\ ~ Sent(r)
      BY <1>o, <2>3 DEF RequestOK, SpentOK, Ran
    <2>5. \/ acted'[r] = Act(r)[r] /\ (r \in denied' <=> r \in denied)
          \/ acted'[r] = acted[r]
      BY <1>0, <1>4
    <2>6. UniqueOK(r)'
      BY <1>o, <1>0, <1>2, <1>4, <2>3 DEF RequestOK, UniqueOK, NoCopy
    <2>7. SpentOK(r)'
      <3>1. r \notin Auth => acted'[r] <= 1 /\ ~ (acted'[r] # 0 /\ r \in denied') /\ ~ Sent(r)'
        BY <1>0, <2>4, <2>5, ActEffect DEF Sent
      <3>2. QED
        BY <1>0, <1>2, <1>4, <2>3, <3>1 DEF SpentOK, Ran
    <2>8. ParkedOK(r)'
      BY <1>0, <1>s, <2>1 DEF ParkedOK
    <2>9. QED
      BY <2>6, <2>7, <2>8 DEF RequestOK
  <1>5. CASE r # q
    <2>1. acted'[r] = acted[r] /\ (r \in denied' <=> r \in denied)
      BY <1>0, <1>2, <1>5, ActEffect DEF Told
    <2>2. QED
      BY <1>3, <2>1
  <1>6. QED
    BY <1>4, <1>5

\* A callback or a stop wakes calls and drops gates; the history knows of both.
LEMMA SweepKeeps ==
    ASSUME TypeOK, SweepOK, NEW r \in Request, RequestOK(r),
           \/ OauthStart \/ \E t \in Thread : StopStart(t)
           \/ \E s \in Sweeper : SweepStep(s)
    PROVE  RequestOK(r)'
  <1> USE DEF store, call, registry, history
  <1>t. /\ row \in [Thread -> Request \cup {NoRequest}] /\ ThreadOf[r] \in Thread
        /\ file \in [Thread -> Request \cup {NoRequest}]
        /\ inbox \in [Request -> Answer]
        /\ NoRequest # r
    BY NoRequestAssumption, ThreadOfAssumption DEF TypeOK
  <1>1. ASSUME UNCHANGED <<row, file, pause, inbox, denied, expired, acted, astray, res>>
        PROVE  RequestOK(r)'
    BY <1>1, RequestFrame DEF Pending
  <1>2. ASSUME NEW s \in Sweeper, NEW t \in Thread, SweepDiscard(s, t) PROVE RequestOK(r)'
    <2>1. /\ row' = [row EXCEPT ![t] = NoRequest]
          /\ astray' = Stray(row[t])
          /\ UNCHANGED <<file, pause, inbox, denied, expired, acted, res>>
      BY <1>2 DEF SweepDiscard
    <2>2. /\ Pending(r)' => Pending(r)
          /\ Pending(r) /\ pause[r] \in Early => Pending(r)' \/ r \in astray'
          /\ r \in astray => r \in astray'
      BY <1>t, <2>1, StrayEffect DEF Pending
    <2>3. QED
      BY <2>1, <2>2, RequestFrame
  <1>3. ASSUME NEW s \in Sweeper, NEW t \in Thread, SweepRemove(s, t) PROVE RequestOK(r)'
    <2>1. /\ UNCHANGED <<row, pause, inbox, denied, expired, acted, astray, res>>
          /\ file' = [file EXCEPT ![t] = NoRequest] \/ UNCHANGED file
      BY <1>3 DEF SweepRemove, Persisted
    <2>2. file'[ThreadOf[r]] = r => file[ThreadOf[r]] = r
      BY <1>t, <2>1
    <2>3. QED
      BY <2>1, <2>2, RequestFrame DEF Pending
  <1>4. ASSUME NEW s \in Sweeper, SweepSend(s) PROVE RequestOK(r)'
    <2>1. /\ UNCHANGED <<row, file, pause, denied, expired, acted, astray, res>>
          /\ sweep[s].pc = "send"
          /\ inbox' = IF ~ Listening(sweep[s].hand) THEN inbox
                      ELSE [inbox EXCEPT ![sweep[s].hand] =
                              IF s = "oauth" THEN "Approved" ELSE "Cancelled"]
      BY <1>4 DEF SweepSend
    <2>2. CASE inbox'[r] = inbox[r]
      BY <2>1, <2>2, RequestFrame DEF Pending
    <2>3. CASE inbox'[r] # inbox[r]
      <3>1. /\ r = sweep[s].hand /\ Listening(r)
            /\ inbox'[r] = IF s = "oauth" THEN "Approved" ELSE "Cancelled"
        BY <1>t, <2>1, <2>3
      <3>2. inbox'[r] = "Approved" => r \in Auth
        BY <1>t, <3>1 DEF SweepOK
      <3>3. pause[r] # "idle" /\ inbox'[r] \in {"Approved", "Cancelled"}
        BY <3>1 DEF Listening
      <3>4. \A u \in Resolver : Taken(u, r)' <=> Taken(u, r)
        BY <2>1 DEF Taken
      <3>5. NoCopy(r)' <=> NoCopy(r)
        BY <2>1, <3>4 DEF NoCopy, Pending
      <3>6. UniqueOK(r)'
        BY <2>1, <3>3, <3>4 DEF RequestOK, UniqueOK, Pending
      <3>7. r \notin Auth => ~ Sent(r)'
        BY <3>2, <3>3 DEF Sent
      <3>8. SpentOK(r)'
        BY <2>1, <3>3, <3>5, <3>7 DEF RequestOK, SpentOK, Ran
      <3>9. ParkedOK(r)'
        BY <3>3 DEF ParkedOK
      <3>10. QED
        BY <3>6, <3>8, <3>9 DEF RequestOK
    <2>4. QED
      BY <2>2, <2>3
  <1>5. QED
    BY <1>1, <1>2, <1>3, <1>4
       DEF OauthStart, StopStart, SweepStep, SweepTake, SweepList, SweepEnd

\* A restart ends every call and answer, and brings back gates that wait for
\* the credential and have not expired.
LEMMA RestartKeeps ==
    ASSUME TypeOK, NEW waiting \in SUBSET Thread, Restart(waiting),
           NEW r \in Request, RequestOK(r)
    PROVE  RequestOK(r)'
  <1>t. /\ file \in [Thread -> Request \cup {NoRequest}] /\ ThreadOf[r] \in Thread
        /\ NoRequest # r
    BY NoRequestAssumption, ThreadOfAssumption DEF TypeOK
  <1>1. /\ pause'[r] = IF pause[r] = "idle" THEN "idle" ELSE "done"
        /\ inbox'[r] = "none" /\ UNCHANGED <<expired, acted, denied>>
        /\ \A u \in Resolver : res'[u].req # r
    BY <1>t DEF Restart, NoResolution
  <1>2. Pending(r)' => r \in Auth \ expired /\ file[ThreadOf[r]] = r
    BY <1>t DEF Restart, Survives, Pending
  <1>3. file'[ThreadOf[r]] = r => file[ThreadOf[r]] = r
    BY <1>t, <1>2 DEF Restart, Pending
  <1>4. \A u \in Resolver : ~ Taken(u, r)'
    BY <1>1 DEF Taken
  <1>5. NoCopy(r)' \/ r \in Auth \ expired
    BY <1>2, <1>4 DEF NoCopy
  <1>6. UniqueOK(r)'
    BY <1>1, <1>2, <1>3, <1>4 DEF RequestOK, UniqueOK
  <1>7. SpentOK(r)'
    <2>1. /\ pause[r] = "idle" => acted[r] = 0 /\ r \notin denied
          /\ r \notin Auth => acted[r] <= 1 /\ ~ (acted[r] # 0 /\ r \in denied)
      BY DEF RequestOK, SpentOK, Ran
    <2>2. r \notin Auth => NoCopy(r)' /\ ~ Sent(r)'
      BY <1>1, <1>5 DEF Sent
    <2>3. pause'[r] \in {"idle", "done"} /\ (pause'[r] = "idle" => pause[r] = "idle")
      BY <1>1
    <2>4. QED
      BY <1>1, <2>1, <2>2, <2>3 DEF SpentOK, Ran
  <1>9. ParkedOK(r)'
    BY <1>1 DEF ParkedOK, Early
  <1>10. QED
    BY <1>6, <1>7, <1>9 DEF RequestOK

\* Every step keeps every request in order.
LEMMA RequestsKept ==
    ASSUME TypeOK, GateInv, Next, NEW r \in Request
    PROVE  RequestOK(r)'
  <1>o. /\ LockOK /\ SweepOK
        /\ \A u \in Resolver : ResolverOK(u)
        /\ \A q \in Request : RequestOK(q)
    BY DEF GateInv
  <1>1. ASSUME NEW p \in Request, Pause(p) \/ PauseStep(p) PROVE RequestOK(r)'
    BY <1>o, <1>1, PauseKeeps, CallKeeps
  <1>2. ASSUME NEW p \in Request, Expire(p) PROVE RequestOK(r)'
    <2>1. /\ UNCHANGED <<row, file, pause, inbox, denied, acted, astray, res>>
          /\ r \in expired => r \in expired'
      BY <1>2 DEF Expire, store, history
    <2>2. QED
      BY <1>o, <2>1, RequestFrame DEF Pending
  <1>3. ASSUME NEW u \in Resolver,
               \/ \E q \in Request, path \in {"inline", "queue"},
                     verdict \in {"Approved", "Denied"} : Submit(u, q, path, verdict)
               \/ ResolverStep(u)
        PROVE  RequestOK(r)'
    BY <1>o, <1>3, TakeKeeps, HandKeeps, SendKeeps, ReinsertKeeps, AnswerKeeps, ReenterKeeps
       DEF ResolverStep
  <1>4. ASSUME \/ OauthStart \/ \E t \in Thread : StopStart(t)
               \/ \E s \in Sweeper : SweepStep(s)
        PROVE  RequestOK(r)'
    BY <1>o, <1>4, SweepKeeps
  <1>5. ASSUME NEW waiting \in SUBSET Thread, Restart(waiting) PROVE RequestOK(r)'
    BY <1>o, <1>5, RestartKeeps
  <1>6. QED
    BY <1>1, <1>2, <1>3, <1>4, <1>5 DEF Next

\* The shape of the state and the order of the gates hold together.
LEMMA GateStep == TypeOK /\ GateInv /\ [Next]_vars => TypeOK' /\ GateInv'
  <1> SUFFICES ASSUME TypeOK, GateInv, [Next]_vars PROVE TypeOK' /\ GateInv'
    OBVIOUS
  <1>1. CASE Next
    <2>o. /\ LockOK /\ SweepOK
          /\ \A u \in Resolver : ResolverOK(u)
          /\ \A r \in Request : RequestOK(r)
      BY DEF GateInv
    <2>1. TypeOK'
      <3>1. \A r \in Request : pause[r] = "credential" => r \in Auth
        BY <2>o DEF RequestOK, UniqueOK
      <3>2. \A u \in Resolver : res[u].pc # "idle" => res[u].req \in Request
        BY <2>o DEF ResolverOK
      <3>3. QED
        BY <1>1, <3>1, <3>2, PauseTypes, ResolverTypes, SweepTypes, RestartTypes DEF Next
    <2>2. LockOK' /\ SweepOK'
      BY <1>1, <2>o, LockStep, SweepKept
    <2>3. \A u \in Resolver : ResolverOK(u)'
      BY <1>1, <2>o, ResolversKept
    <2>4. \A r \in Request : RequestOK(r)'
      BY <1>1, RequestsKept
    <2>5. QED
      BY <2>1, <2>2, <2>3, <2>4 DEF GateInv
  <1>2. CASE UNCHANGED vars
    <2> USE DEF vars, store, call, registry, history
    <2>1. TypeOK'
      BY <1>2 DEF TypeOK
    <2>2. LockOK' /\ SweepOK'
      BY <1>2 DEF GateInv, LockOK, SweepOK, InPause
    <2>3. \A u \in Resolver : ResolverOK(u)'
      BY <1>2 DEF GateInv, ResolverOK
    <2>4. \A r \in Request : RequestOK(r)'
      BY <1>2, RequestFrame DEF GateInv, Pending
    <2>5. QED
      BY <2>1, <2>2, <2>3, <2>4 DEF GateInv
  <1>3. QED
    BY <1>1, <1>2

\* Every reachable state of the gates is in order.
THEOREM GateInvariant == Spec => [](TypeOK /\ GateInv)
  <1>1. Init => TypeOK /\ GateInv
    <2> SUFFICES ASSUME Init PROVE TypeOK /\ GateInv
      OBVIOUS
    <2>1. TypeOK
      BY NoActivity DEF Init, TypeOK, PausePc, Answer
    <2>2. /\ \A u \in Resolver : res[u] = NoResolution
          /\ \A s \in Sweeper : sweep[s] = NoSweep
          /\ NoResolution.pc = "idle" /\ NoResolution.req = NoRequest
          /\ NoResolution.path = "inline"
          /\ NoSweep.pc = "idle" /\ NoSweep.todo = {} /\ NoSweep.hand = NoRequest
      BY DEF Init, NoResolution, NoSweep
    <2>3. LockOK /\ SweepOK
      BY <2>2 DEF Init, LockOK, SweepOK, InPause, Sweeper
    <2>4. \A u \in Resolver : ResolverOK(u)
      BY <2>2 DEF ResolverOK
    <2>5. ASSUME NEW r \in Request PROVE RequestOK(r)
      <3>1. /\ pause[r] = "idle" /\ inbox[r] = "none" /\ acted[r] = 0 /\ denied = {}
            /\ row[ThreadOf[r]] = NoRequest /\ file[ThreadOf[r]] = NoRequest
            /\ NoRequest # r
        BY NoRequestAssumption, ThreadOfAssumption DEF Init
      <3>2. \A u \in Resolver : res[u].req # r
        BY <2>2, <3>1
      <3>3. ~ Pending(r) /\ \A u \in Resolver : ~ Taken(u, r)
        BY <3>1, <3>2 DEF Pending, Taken
      <3>4. QED
        BY <3>1, <3>2, <3>3 DEF RequestOK, UniqueOK, SpentOK, ParkedOK, Early, Ran, Sent
    <2>6. QED
      BY <2>1, <2>3, <2>4, <2>5 DEF GateInv
  <1>2. QED
    BY <1>1, GateStep, PTL DEF Spec

\* The state of the gates keeps its shape; in particular the callback that
\* answers with yes finds only calls that wait for the credential.
THEOREM TypeCorrect == Spec => []TypeOK
  BY GateInvariant, PTL

\* An approved action goes ahead at most once, on the parked call or on the
\* re-entry path, for any number of clients and threads, whatever the file
\* loses and however often the process restarts.
THEOREM ApprovalIsUsedOnce == Spec => []ApprovalActsOnce
  <1>1. GateInv => ApprovalActsOnce
    BY DEF GateInv, RequestOK, SpentOK, ApprovalActsOnce
  <1>2. QED
    BY <1>1, GateInvariant, PTL

\* An approval gate has one verdict: an action whose denial was told to the call
\* or to its thread never runs, before or after.
THEOREM DenialsAreFinal == Spec => []DenialIsFinal
  <1>1. TypeOK /\ GateInv => DenialIsFinal
    BY DEF TypeOK, GateInv, RequestOK, SpentOK, Ran, DenialIsFinal
  <1>2. QED
    BY <1>1, GateInvariant, PTL

\* The gate of a waiting call is in the store, in the hands of one client, or on
\* record as lost to the call; the endpoint's put-back never loses it silently.
THEOREM ParkedGatesAreAccountedFor == Spec => []ParkedIsAccountedFor
  <1>1. GateInv => ParkedIsAccountedFor
    BY DEF GateInv, RequestOK, ParkedOK, Pending, ParkedIsAccountedFor, Early
  <1>2. QED
    BY <1>1, GateInvariant, PTL
=============================================================================
