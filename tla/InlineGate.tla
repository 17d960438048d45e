----------------------------- MODULE InlineGate -----------------------------
(***************************************************************************)
(* Execution gates of one user: the pending gate store and its file        *)
(* (src/gate), the controller that parks a tool call until its gate is     *)
(* answered, and the callers that answer: the approval endpoint, the agent *)
(* loop, an OAuth callback, and a stop of the thread (src/bridge).         *)
(* The turn that parked a call hands it to a background task and returns,  *)
(* so the agent loop takes up answers while the call waits.                *)
(*                                                                         *)
(* The store's mutex covers one step in memory; the file is written after  *)
(* it was released, so each call is a row step followed by a file step.    *)
(***************************************************************************)
EXTENDS Naturals

CONSTANTS
    Request,        \* request ids, each drawn fresh by one pause
    NoRequest,      \* an empty row, an empty hand
    Thread,         \* the keys of the store: the user's threads
    ThreadOf,       \* [Request -> Thread]
    Auth,           \* the requests that wait for the credential
    Resolver,       \* clients that send the user's answers
    PersistFaults,  \* may a write of the file fail?
    Crashes         \* may the process restart?

ASSUME NoRequestAssumption == NoRequest \notin Request
ASSUME ThreadOfAssumption == ThreadOf \in [Request -> Thread]
ASSUME AuthAssumption == Auth \subseteq Request
ASSUME FlagAssumption == PersistFaults \in BOOLEAN /\ Crashes \in BOOLEAN

VARIABLES
    row,       \* [Thread -> Request or NoRequest]: the store in memory
    file,      \* the same, as persisted
    expired,   \* requests whose expires_at has passed
    pause,     \* [Request -> PausePc]: the parked calls
    inbox,     \* [Request -> Answer]: what was sent to the parked call
    lapsed,    \* history: approval gates whose pause timed out
    sender,    \* requests with a registered resolution channel
    byCred,    \* requests indexed under the credential
    active,    \* active_pauses: requests a stop will wake
    res,       \* [Resolver -> Resolution]: answers in progress
    sweep,     \* [Sweeper -> Sweep]: callback and stop in progress
    acted,     \* history: how often the action of an approval gate went ahead
    denied,    \* history: approval gates of which call or thread were told of a denial
    astray     \* parked calls whose gate was lost to them: a sweep dropped it,
               \* a re-insertion found the row taken, or its answer went the
               \* re-entry path

store == <<row, file>>
call == <<pause, inbox, lapsed, expired>>
registry == <<sender, byCred, active>>
history == <<acted, denied, astray>>
vars == <<store, call, registry, res, sweep, history>>

Answer == {"none", "Approved", "Denied", "Cancelled"}

\* "idle" and "done" are outside pause(); in between it holds the gate lock.
PausePc == {"idle", "save", "register", "credential", "track", "wait",
            "discard", "remove", "untrack", "done"}

Resolution == [pc : {"idle", "take", "remove", "deliver", "send", "insert", "save",
                     "act"},
               req : Request \cup {NoRequest},
               path : {"inline", "queue"}, verdict : Answer]

NoResolution == [pc |-> "idle", req |-> NoRequest, path |-> "inline", verdict |-> "none"]

Sweeper == {"oauth", "stop"}

\* of: the thread to stop; todo: requests to wake; hand: the one whose sender
\* was taken; woken: did the callback wake anyone; keys: rows to drop; gone: the
\* dropped row whose file entry goes next.
Sweep == [pc : {"idle", "deliver", "send", "discard", "remove"},
          of : SUBSET Thread, todo : SUBSET Request, hand : Request \cup {NoRequest},
          woken : BOOLEAN, keys : SUBSET Thread, gone : SUBSET Thread]

NoSweep == [pc |-> "idle", of |-> {}, todo |-> {}, hand |-> NoRequest,
            woken |-> FALSE, keys |-> {}, gone |-> {}]

Init ==
    /\ row = [t \in Thread |-> NoRequest] /\ file = row
    /\ pause = [r \in Request |-> "idle"]
    /\ inbox = [r \in Request |-> "none"]
    /\ lapsed = {} /\ expired = {} /\ sender = {} /\ byCred = {} /\ active = {}
    /\ res = [u \in Resolver |-> NoResolution]
    /\ sweep = [s \in Sweeper |-> NoSweep]
    /\ acted = [r \in Request |-> 0] /\ denied = {} /\ astray = {}

InPause(r) == pause[r] \notin {"idle", "done"}

\* The receiver of a parked call lives from its registration to the end of
\* the wait.
Listening(r) == pause[r] \in {"credential", "track", "wait"}

\* The gate of r is lost to its call, if that is still parked.
Stray(r) == IF r \in Request /\ InPause(r) THEN astray \cup {r} ELSE astray

\* The histories are kept of approval gates; twice is as bad as it gets.
Act(r) == IF r \in Auth THEN acted ELSE [acted EXCEPT ![r] = IF @ < 2 THEN @ + 1 ELSE @]
Told(r) == denied \cup ({r} \ Auth)

\* GatePersistence::save and remove: one entry per key, and a failed removal
\* is only logged.
Persisted(t, r) ==
    \/ file' = [file EXCEPT ![t] = r]
    \/ PersistFaults /\ UNCHANGED file

-----------------------------------------------------------------------------
(* BridgeGateController::pause. *)

Step(r, from, to) == pause[r] = from /\ pause' = [pause EXCEPT ![r] = to]

\* PendingGateStore::insert under the thread's gate lock; a row that is
\* already there ends the pause.
Pause(r) ==
    /\ \A q \in Request : ThreadOf[q] = ThreadOf[r] => ~ InPause(q)
    /\ \/ /\ row[ThreadOf[r]] = NoRequest
          /\ row' = [row EXCEPT ![ThreadOf[r]] = r]
          /\ Step(r, "idle", "save")
       \/ /\ row[ThreadOf[r]] # NoRequest
          /\ Step(r, "idle", "done") /\ UNCHANGED row
    /\ UNCHANGED <<file, inbox, lapsed, expired, registry, res, sweep, history>>

\* The save of insert: a failure cancels the pause and leaves the row.
PauseSave(r) ==
    /\ \/ /\ file' = [file EXCEPT ![ThreadOf[r]] = r]
          /\ Step(r, "save", "register")
       \/ /\ PersistFaults
          /\ Step(r, "save", "done") /\ UNCHANGED file
    /\ UNCHANGED <<row, inbox, lapsed, expired, registry, res, sweep, history>>

\* Mutant: every gate is indexed under the credential.
PauseRegisterAll(r) ==
    /\ Step(r, "register", "credential")
    /\ sender' = sender \cup {r}
    /\ UNCHANGED <<store, inbox, lapsed, expired, byCred, active, res, sweep, history>>

\* GateResolutions::register.
PauseRegister(r) ==
    /\ Step(r, "register", IF r \in Auth THEN "credential" ELSE "track")
    /\ sender' = sender \cup {r}
    /\ UNCHANGED <<store, inbox, lapsed, expired, byCred, active, res, sweep, history>>

\* GateResolutions::register_credential.
PauseCredential(r) ==
    /\ Step(r, "credential", "track")
    /\ byCred' = byCred \cup {r}
    /\ UNCHANGED <<store, inbox, lapsed, expired, sender, active, res, sweep, history>>

\* track_active_pause; then the prompt goes out and the call waits.
PauseTrack(r) ==
    /\ Step(r, "track", "wait")
    /\ active' = active \cup {r}
    /\ UNCHANGED <<store, inbox, lapsed, expired, sender, byCred, res, sweep, history>>

\* The receiver's branch of the select; it has precedence over the timer.
PauseWake(r) ==
    /\ inbox[r] # "none"
    /\ Step(r, "wait", "untrack")
    /\ denied' = IF inbox[r] = "Denied" THEN Told(r) ELSE denied
    /\ acted' = IF inbox[r] = "Approved" THEN Act(r) ELSE acted
    /\ inbox' = [inbox EXCEPT ![r] = "none"]
    /\ UNCHANGED <<store, lapsed, expired, registry, res, sweep, astray>>

\* Mutant: the call waits for its answer without a timer.
PauseTimeoutNever(r) == FALSE /\ UNCHANGED vars

\* The timer's branch: forget the sender and the credential entry.
PauseTimeout(r) ==
    /\ inbox[r] = "none" /\ r \in expired
    /\ Step(r, "wait", "discard") /\ lapsed' = lapsed \cup ({r} \ Auth)
    /\ sender' = sender \ {r} /\ byCred' = byCred \ {r}
    /\ UNCHANGED <<store, inbox, expired, active, res, sweep, history>>

\* PendingGateStore::discard by key: without a row it ends before the file.
PauseDiscard(r) ==
    /\ Step(r, "discard", IF row[ThreadOf[r]] = NoRequest THEN "untrack" ELSE "remove")
    /\ row' = [row EXCEPT ![ThreadOf[r]] = NoRequest]
    /\ UNCHANGED <<file, inbox, lapsed, expired, registry, res, sweep, history>>

PauseRemove(r) ==
    /\ Step(r, "remove", "untrack")
    /\ Persisted(ThreadOf[r], NoRequest)
    /\ UNCHANGED <<row, inbox, lapsed, expired, registry, res, sweep, history>>

\* untrack_active_pause; the gate lock is released.
PauseUntrack(r) ==
    /\ Step(r, "untrack", "done")
    /\ active' = active \ {r} /\ astray' = astray \ {r}
    /\ UNCHANGED <<store, inbox, lapsed, expired, sender, byCred, res, sweep, acted, denied>>

\* The clock passes expires_at; it matters to a gate that is somewhere.
Expire(r) ==
    /\ r \notin expired
    /\ InPause(r) \/ row[ThreadOf[r]] = r \/ file[ThreadOf[r]] = r
    /\ expired' = expired \cup {r}
    /\ UNCHANGED <<store, pause, inbox, lapsed, registry, res, sweep, history>>

PauseStep(r) ==
    \/ PauseSave(r) \/ PauseRegister(r) \/ PauseCredential(r) \/ PauseTrack(r)
    \/ PauseWake(r) \/ PauseTimeout(r) \/ PauseDiscard(r) \/ PauseRemove(r)
    \/ PauseUntrack(r)

-----------------------------------------------------------------------------
(* try_resolve_inline_approval_gate (path "inline", the approval endpoint) *)
(* and resolve_gate (path "queue", run by the agent loop).                 *)

\* The user sees a pending gate and answers it.  (A cancellation goes the way
\* of a denial, up to the re-entry, where neither runs the action.)
Submit(u, r, path, verdict) ==
    /\ res[u].pc = "idle" /\ row[ThreadOf[r]] = r
    /\ res' = [res EXCEPT ![u] = [pc |-> "take", req |-> r, path |-> path,
                                  verdict |-> verdict]]
    /\ UNCHANGED <<store, call, registry, sweep, history>>

At(u, pc) == res[u].pc = pc
Go(u, pc) == res' = [res EXCEPT ![u] = IF pc = "idle" THEN NoResolution ELSE [@ EXCEPT !.pc = pc]]
GoQueue(u) == res' = [res EXCEPT ![u].pc = "take", ![u].path = "queue"]

\* Mutant: a denial looks at the gate and leaves it in the store.
TakeVerifiedPeeking(u, r) ==
    IF row[ThreadOf[r]] = r
    THEN /\ Go(u, IF r \in expired THEN "idle" ELSE "remove")
         /\ row' = IF res[u].verdict = "Denied" THEN row
                   ELSE [row EXCEPT ![ThreadOf[r]] = NoRequest]
    ELSE /\ IF res[u].path = "inline" THEN GoQueue(u) ELSE Go(u, "idle")
         /\ UNCHANGED row

\* take_verified and take_verified_by_request_id.  A gate that is gone, or not
\* this one, sends the endpoint's answer to the agent loop; an expired one is
\* dropped from memory.
TakeVerified(u, r) ==
    IF row[ThreadOf[r]] = r
    THEN /\ Go(u, IF r \in expired THEN "idle" ELSE "remove")
         /\ row' = [row EXCEPT ![ThreadOf[r]] = NoRequest]
    ELSE /\ IF res[u].path = "inline" THEN GoQueue(u) ELSE Go(u, "idle")
         /\ UNCHANGED row

Take(u) ==
    /\ At(u, "take")
    /\ TakeVerified(u, res[u].req)
    /\ UNCHANGED <<file, call, registry, sweep, history>>

\* The file entry goes by key.  The endpoint puts an authentication gate back.
Remove(u) ==
    /\ At(u, "remove")
    /\ Persisted(ThreadOf[res[u].req], NoRequest)
    /\ Go(u, IF res[u].path = "inline" /\ res[u].req \in Auth THEN "insert" ELSE "deliver")
    /\ UNCHANGED <<row, call, registry, sweep, history>>

\* Where an answer goes that nobody waits for: back into the store and to the
\* agent loop, or on to the re-entry path.
Undelivered(u) == IF res[u].path = "inline" THEN "insert" ELSE "act"

\* try_deliver, first half: the sender leaves the registry.
Deliver(u) ==
    /\ At(u, "deliver")
    /\ Go(u, IF res[u].req \in sender THEN "send" ELSE Undelivered(u))
    /\ sender' = sender \ {res[u].req} /\ byCred' = byCred \ {res[u].req}
    /\ UNCHANGED <<store, call, active, sweep, history>>

\* try_deliver, second half: the receiver may be gone by now.
Send(u) ==
    /\ At(u, "send")
    /\ Go(u, IF Listening(res[u].req) THEN "idle" ELSE Undelivered(u))
    /\ inbox' = IF Listening(res[u].req)
                THEN [inbox EXCEPT ![res[u].req] = res[u].verdict] ELSE inbox
    /\ UNCHANGED <<store, pause, lapsed, expired, registry, sweep, history>>

\* Mutant: the endpoint does not put the gate back.
ReinsertNot(u) ==
    /\ At(u, "insert") /\ GoQueue(u)
    /\ UNCHANGED <<store, call, registry, sweep, history>>

\* No live call: insert again, and if that fails the gate is lost.
Reinsert(u) ==
    /\ At(u, "insert")
    /\ LET t == ThreadOf[res[u].req]
       IN  \/ /\ row[t] = NoRequest /\ Go(u, "save")
              /\ row' = [row EXCEPT ![t] = res[u].req] /\ UNCHANGED astray
           \/ /\ row[t] # NoRequest /\ GoQueue(u)
              /\ astray' = Stray(res[u].req) /\ UNCHANGED row
    /\ UNCHANGED <<file, call, registry, sweep, acted, denied>>

ReinsertSave(u) ==
    /\ At(u, "save") /\ GoQueue(u)
    /\ Persisted(ThreadOf[res[u].req], res[u].req)
    /\ UNCHANGED <<row, call, registry, sweep, history>>

\* Re-entry: execute_pending_gate_action, or a resume that tells of a denial.
\* A thread that is gone by now is not re-entered.
Reenter(u) ==
    /\ At(u, "act") /\ Go(u, "idle")
    /\ \/ res[u].verdict = "Approved" /\ acted' = Act(res[u].req) /\ UNCHANGED denied
       \/ res[u].verdict = "Denied" /\ denied' = Told(res[u].req) /\ UNCHANGED acted
       \/ UNCHANGED <<acted, denied>>
    /\ astray' = Stray(res[u].req)
    /\ UNCHANGED <<store, call, registry, sweep>>

ResolverStep(u) ==
    \/ Take(u) \/ Remove(u) \/ Deliver(u) \/ Send(u) \/ Reinsert(u) \/ ReinsertSave(u)
    \/ Reenter(u)

-----------------------------------------------------------------------------
(* resolve_inline_gates_for_credential ("oauth": the credential was        *)
(* written) and cancel_thread ("stop").                                    *)

OauthStart ==
    /\ sweep["oauth"].pc = "idle" /\ byCred # {}
    /\ sweep' = [sweep EXCEPT !["oauth"] = [NoSweep EXCEPT !.pc = "deliver", !.todo = byCred]]
    /\ byCred' = {}
    /\ UNCHANGED <<store, call, sender, active, res, history>>

\* A stop that finds no tracked pause returns at once.
StopStart(t) ==
    LET tracked == {r \in active : ThreadOf[r] = t}
    IN  /\ sweep["stop"].pc = "idle" /\ tracked # {}
        /\ sweep' = [sweep EXCEPT !["stop"] =
                        [NoSweep EXCEPT !.pc = "deliver", !.todo = tracked, !.of = {t}]]
        /\ UNCHANGED <<store, call, registry, res, history>>

SweepTake(s, r) ==
    /\ sweep[s].pc = "deliver" /\ r \in sweep[s].todo
    /\ sweep' = [sweep EXCEPT ![s] =
                    [@ EXCEPT !.todo = sweep[s].todo \ {r},
                              !.hand = IF r \in sender THEN r ELSE NoRequest,
                              !.pc = IF r \in sender THEN "send" ELSE "deliver"]]
    /\ sender' = sender \ {r} /\ byCred' = byCred \ {r}
    /\ UNCHANGED <<store, call, active, res, history>>

SweepSend(s) ==
    LET r == sweep[s].hand
    IN  /\ sweep[s].pc = "send"
        /\ sweep' = [sweep EXCEPT ![s] =
                        [@ EXCEPT !.pc = "deliver", !.hand = NoRequest,
                                  !.woken = sweep[s].woken \/ (s = "oauth" /\ Listening(r))]]
        /\ inbox' = IF ~ Listening(r) THEN inbox
                    ELSE [inbox EXCEPT ![r] = IF s = "oauth" THEN "Approved" ELSE "Cancelled"]
        /\ UNCHANGED <<store, pause, lapsed, expired, registry, res, history>>

\* The callback lists the authentication gates pending by now, if it woke
\* anyone; the stop takes its thread.
SweepList(s) ==
    /\ sweep[s].pc = "deliver" /\ sweep[s].todo = {}
    /\ sweep' = [sweep EXCEPT ![s] =
          IF s = "oauth" /\ ~ @.woken THEN NoSweep
          ELSE [@ EXCEPT !.pc = "discard",
                         !.keys = IF s = "stop" THEN sweep[s].of
                                  ELSE {t \in Thread : row[t] \in Auth \ expired}]]
    /\ UNCHANGED <<store, call, registry, res, history>>

\* discard, discard_for_thread: whatever gate is under the key now.
SweepDiscard(s, t) ==
    /\ sweep[s].pc = "discard" /\ t \in sweep[s].keys
    /\ row' = [row EXCEPT ![t] = NoRequest]
    /\ astray' = Stray(row[t])
    /\ sweep' = [sweep EXCEPT ![s] =
                    [@ EXCEPT !.keys = sweep[s].keys \ {t},
                              !.gone = IF row[t] = NoRequest THEN {} ELSE {t},
                              !.pc = IF row[t] = NoRequest THEN "discard" ELSE "remove"]]
    /\ UNCHANGED <<file, call, registry, res, acted, denied>>

SweepRemove(s, t) ==
    /\ sweep[s].pc = "remove" /\ t \in sweep[s].gone
    /\ Persisted(t, NoRequest)
    /\ sweep' = [sweep EXCEPT ![s] = [@ EXCEPT !.gone = {}, !.pc = "discard"]]
    /\ UNCHANGED <<row, call, registry, res, history>>

\* The stop forgets the pauses of its thread, whichever are tracked by now.
SweepEnd(s) ==
    /\ sweep[s].pc = "discard" /\ sweep[s].keys = {}
    /\ sweep' = [sweep EXCEPT ![s] = NoSweep]
    /\ active' = {r \in active : ThreadOf[r] \notin sweep[s].of}
    /\ UNCHANGED <<store, call, sender, byCred, res, history>>

SweepStep(s) ==
    \/ \E r \in Request : SweepTake(s, r)
    \/ SweepSend(s) \/ SweepList(s) \/ SweepEnd(s)
    \/ \E t \in Thread : SweepDiscard(s, t) \/ SweepRemove(s, t)

-----------------------------------------------------------------------------
(* Restart. *)

\* Mutant: approval gates come back too.
SurvivesAny(t) == file[t] \in Request \ expired

\* restore_from_persistence skips what has expired, and
\* invalidate_stranded_approval_gates drops the approvals.
Survives(t) == file[t] \in Auth \ expired

\* The process ends and init_engine starts over.  Of the gates that survive,
\* reconcile_pending_gate_state keeps those whose thread still waits.
Restart(waiting) ==
    /\ Crashes
    /\ row' = [t \in Thread |-> IF t \in waiting /\ Survives(t) THEN file[t] ELSE NoRequest]
    /\ \/ file' = [t \in Thread |-> IF file[t] \in expired THEN file[t] ELSE row'[t]]
       \/ PersistFaults /\ UNCHANGED file
    /\ pause' = [r \in Request |-> IF pause[r] = "idle" THEN "idle" ELSE "done"]
    /\ inbox' = [r \in Request |-> "none"]
    /\ sender' = {} /\ byCred' = {} /\ active' = {}
    /\ res' = [u \in Resolver |-> NoResolution]
    /\ sweep' = [s \in Sweeper |-> NoSweep]
    /\ astray' = {}
    /\ UNCHANGED <<lapsed, expired, acted, denied>>

Next ==
    \/ \E r \in Request :
          Pause(r) \/ PauseStep(r) \/ Expire(r)
    \/ \E u \in Resolver :
          \/ \E r \in Request, path \in {"inline", "queue"},
                verdict \in {"Approved", "Denied"} : Submit(u, r, path, verdict)
          \/ ResolverStep(u)
    \/ OauthStart
    \/ \E t \in Thread : StopStart(t)
    \/ \E s \in Sweeper : SweepStep(s)
    \/ \E waiting \in SUBSET Thread : Restart(waiting)

\* The executor polls a parked call, and time passes.
Fairness == \A r \in Request : WF_vars(PauseStep(r)) /\ WF_vars(Expire(r))

Spec == Init /\ [][Next]_vars
LiveSpec == Spec /\ Fairness

-----------------------------------------------------------------------------

\* The shape of the state; in particular only gates that wait for the
\* credential are found by the callback that answers them all with yes.
TypeOK ==
    /\ row \in [Thread -> Request \cup {NoRequest}]
    /\ file \in [Thread -> Request \cup {NoRequest}]
    /\ pause \in [Request -> PausePc]
    /\ inbox \in [Request -> Answer] /\ lapsed \subseteq Request \ Auth
    /\ expired \subseteq Request /\ sender \subseteq Request
    /\ byCred \subseteq Auth /\ active \subseteq Request
    /\ res \in [Resolver -> Resolution]
    /\ sweep \in [Sweeper -> Sweep]
    /\ acted \in [Request -> 0..2]
    /\ denied \subseteq Request \ Auth /\ astray \subseteq Request

\* An approved action goes ahead at most once: the parked call and the
\* re-entry path never both run it, however many answers, timeouts, stops, late
\* file writes, failed file writes and restarts there are.  (An authentication
\* gate, which the histories leave out, can be acted on twice: the callback wakes the
\* call before it drops the gate.)
ApprovalActsOnce == \A r \in Request \ Auth : acted[r] <= 1

\* An approval gate has one verdict: what a call, or its thread on the re-entry
\* path, was told is denied never runs, before or after, whichever way a second
\* client's approval takes.
DenialIsFinal == \A r \in denied : acted[r] = 0

\* A gate "fails closed after expiry": once the timer cancelled the call, no
\* answer that is still under way runs its action.
ExpiryFailsClosed == [][\A r \in lapsed : acted'[r] = acted[r]]_vars

\* A client that took the gate, the re-entry path included.
Taken(u, r) == res[u].req = r /\ res[u].pc \in {"remove", "deliver", "send", "insert", "act"}

\* The gate of a waiting call does not vanish: it is in the store or with the
\* client that took it, unless a sweep dropped it, a re-insertion found the row
\* taken, or its answer was used on the re-entry path.
ParkedIsAccountedFor ==
    \A r \in Request :
        pause[r] = "wait" /\ inbox[r] = "none" /\ r \notin expired =>
            \/ row[ThreadOf[r]] = r
            \/ \E u \in Resolver : Taken(u, r)
            \/ r \in astray

\* Every pause returns, answered or not: the timer ends it even when the
\* gate was swept or the answer got lost.
PauseEnds == \A r \in Request : InPause(r) ~> pause[r] = "done"

=============================================================================
