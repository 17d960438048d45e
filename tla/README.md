# Verification of the agent runtime's core protocols

This directory holds TLA+ models of the parts of the repository that decide
*whether a capability may run, how often, at whose cost, and what is left behind
when something goes wrong*: the resource governor, capability leases and their
files, the invocation path with approval and replay, background processes, the
gates that park a tool call until a user answers, the durable event log, and the
decorators that keep LLM calls going. TLC checks the models on small instances;
TLAPS proves the most important results for every value of the constants.

## 1. The system

The repository is a personal-agent runtime. Its older half (`src/src/`) is an agent
with channels, tools and a database; its newer half (`src/crates/ironclaw_*`,
"Reborn", specified in `src/docs/reborn/contracts/`) is a small kernel of host
services with explicit authority. The kernel carries most of the core logic; of
the older half the models take the execution gates (`src/src/gate`,
`src/src/bridge`).

| Component | State | Operations | Talks to |
|---|---|---|---|
| resource governor (`ironclaw_resources`) | limits, holds and usage per account; reservations | `set_limit`, `reserve[_with_id]`, `reconcile`, `release` | called by processes, dispatcher, obligations |
| lease store (`ironclaw_authorization`) | leases with status, fingerprint, remaining uses, expiry; on disk one file each and an index | `issue`, `claim`, `consume`, `revoke`, `leases_for_context` | resolver issues, host claims and consumes |
| grant authorizer (`ironclaw_authorization`) | none | `authorize_*` (pure) | called by the host |
| run-state and approval stores (`ironclaw_run_state`) | one run record per invocation, one record per approval request | `start`, `block_approval`, `complete`, `fail`; `save_pending`, `approve`, `deny`, `discard_pending` | host and resolver |
| approval resolver (`ironclaw_approvals`) | none of its own | `approve_dispatch`, `approve_spawn`, `deny` | approval store, lease store |
| capability host (`ironclaw_capabilities`) | none of its own; calls in progress | `invoke_json`, `spawn_json`, `resume_json`, `resume_spawn_json` | all stores, authorizer, obligations, dispatcher, process manager |
| background processes (`ironclaw_processes`) | process records, results, owned reservations, cancellation tokens | `spawn`, the detached task, `kill`, `await_result` | governor, executor |
| dispatcher, host runtime (`ironclaw_dispatcher`, `ironclaw_host_runtime`) | obligations staged between authorization and dispatch | `dispatch_json`, prepare/abort/complete of obligations | governor, secrets, runtimes |
| durable events (`ironclaw_events`) | per-stream log, cursor, retention mark | `append`, `read_after_cursor`, `truncate_before_or_at` | everyone emits |
| secrets (`ironclaw_secrets`) | secret material, one-shot leases | `put`, `lease_once`, `consume`, `revoke` | obligations |
| pending gates (`src/src/gate`) | two in-memory indices and their persistence | `insert`, `take_verified`, `take_verified_by_request_id`, `discard`, `discard_for_thread`, `expire_stale`, `restore_from_persistence` | agent and bridge |
| inline gates (`src/src/bridge`) | parked calls, resolution channels, active pauses | `pause`, `cancel_thread`, `resolve_gate`, the approval endpoint, the credential callback | pending gates, engine |
| engine (`ironclaw_engine`) | threads, missions, engine leases, conversations | spawn, suspend, resume, fire | LLM, effects |
| LLM resilience (`ironclaw_llm`) | circuit breaker, cooldowns, cache | `complete` through decorators | providers |
| agent, bridge, jobs, channels, tools, database, setup | various | various | users and external systems |

What is hard about it: every store serialises a single call and nothing more, so
two host methods interleave at every `await`; records survive a restart while
tasks, tokens, channels and reservation ownership do not; files are written after
the lock that guards their contents was released; most compensation steps
(rollbacks, revocations, discards) can themselves fail and are only logged.
`PROJECT.json` lists each such hazard at its line.

What makes each part correct: the governor's books balance and limits are only
passed by work already admitted; a lease pays for no more than it was issued for;
a side effect runs only with authority that was really given, once per lease; a
process ends once, its reservation is closed once, and whoever waits for it learns
of the result; an approved action runs once and a denied one never, and every
parked call returns; a reader of the log gets each record once or is told of the
loss; a circuit that opened closes again.

## 2. Modules

| Module | Models | Notes |
|---|---|---|
| `ResourceGovernor` | `ironclaw_resources` | one action per operation (each holds the mutex throughout) |
| `CapabilityLease` | lease record and `ensure_*` checks | operators shared by the next two |
| `CapabilityLeaseStore` | the two lease stores | one action per operation; `budget` and `spent` are history |
| `CapabilityHost` | host, resolver, run-state, approval and lease stores together | one action per store call; `uses` and `effects` are history; refines `ApprovedReplay` |
| `ApprovedReplay` | what an approval promises whoever gives it | abstract: requests, grants, and the side effects they pay for |
| `ProcessLifecycle` | processes with result store, registry and reservations | one action per store, registry or governor call; `closes` is history |
| `FilesystemLeaseStore` | the filesystem lease store | extends `CapabilityLeaseStore`: its writes of lease files are that module's operations |
| `InlineGate` | gate store, its file, parked calls and those who answer them | composes `src/gate` with the controller and the router's gate paths; `acted`, `denied`, `lapsed`, `astray` are history |
| `EventDelivery` | what the durable log promises its readers | abstract: published records, what was forgotten, positions |
| `EventLog` | the durable log and the JSONL helper | refines `EventDelivery` |
| `LlmResilience` | circuit breaker over failover over retries | one action per lock section or atomic access |
| `MC*` | instances for TLC | constants, symmetry sets |
| `*_proof` | theorems | one per component; `LeaseStore_proof` serves both lease stores |

### How states and actions correspond to the code

*ResourceGovernor.* `limits`, `reserved`, `usage` and `reservations` are the four
maps of `ResourceState`. An `Option` is a partial function: a dimension outside
its domain is `None`. Counters have a width (`Cap`), additions and subtractions
saturate as `add_assign` and `sub_assign` do, and `Exceeds` keeps the three ways in
which the code sums (checked `Decimal`, saturating `u64`, `u32` widened to `u64`).
A refused call changes nothing, so it is a stuttering step.

*CapabilityLease.* A lease abstracts its grant to what the checks read: the
invocation of its scope, the fingerprint, `max_invocations` (`Unbounded` for
`None`) and whether `expires_at` has passed.

*CapabilityHost.* A host method in progress is a program counter with the
fingerprint of its request and the lease it holds. Dispatch and spawn forms share
their structure in the code and share their actions here; they part at the side
effect (`Dispatch`, `SpawnProcess`), and the fingerprint tells their requests
apart. The program counters are: `authorize` → `block` → (`discard`) for an
invocation; `approval` → `lease` → `claim` → `prepare` → `dispatch` → `settle` →
`consume` → `complete` for a replay; `fail`, and `failHeld` → `revoke` when a lease
was claimed. The decision of the authorizer, the registry, obligations and the
outcome of a dispatch are free choices. A dispatch that reports an error counts as
a side effect, since it may have had one. `StoreFaults` lets every store call fail;
a call that fails wrote nothing. The stores' own checks are operators of their own
(`StartRun`, `SetRun`, `SaveApproval`, `ResolveApproval`, `DiscardApproval`) that the
actions use. `Crash` ends every call and keeps the stores. The refinement of
`ApprovedReplay` takes the approval records for the requests, the fingerprint of a
lease for the grant, and the two histories for what ran.

*ProcessLifecycle.* The spawn method and the task it detaches follow one another,
so one counter per process serves both: `start` → `own` → `register` → `exec` →
`check` → `result` → `take` → `transition` → `close` → `unregister` → `done`. With
`Managed` the process store is a `ResourceManagedProcessStore`; otherwise `take` and
`transition` act on the inner store alone. A killer goes `transition` → `close` →
`cancel` → `result`, or through `check` after a refusal. A waiter alternates between
reading the result and reading the status and remembers one terminal status seen.
`CreateRecord`, `UpdateStatus` and `StoreResult` are the store calls themselves. With
`Drops` the caller of spawn may drop it while the inner store writes the record: the
write may or may not have taken place, and the managed store's drop guard releases
the reservation (`StartDropped`). A task that a restart or a dropped spawn took away
is `lost`, and a record that it left Running is an orphan: the code has no step that
ends it but a kill.

*FilesystemLeaseStore.* Every operation that changes a lease holds the owner's
mutation lock and writes one file, so it is the step of `CapabilityLeaseStore`.
`issue` writes the index and then the lease (`pending` is an issue in between), and
may stop there. A listing takes no lock: it reads the index, or the directory when
there is none, and then one lease file per step. `legacy` leases were written
before there was an index. That an issue finds its id unused is an assumption on
UUIDs; the code does not look.

*InlineGate.* A call of the gate store is a step on `row`, under the mutex, and a
step on `file` afterwards. A pause goes `save` → `register` → (`credential`) →
`track` → `wait` → `discard` → `remove` → `untrack`; it leaves the wait with an
answer or because its timer has fired. A client answers over the endpoint (`inline`:
take, then deliver to the parked call; if nobody listens, put the gate back and hand
the answer to the agent loop) or through the agent loop (`queue`: take, deliver, or
else re-enter the thread and run the action there). Both may happen while a call is
parked: the turn that met the gate watches for it, hands the thread to a background
continuation and returns `Pending` (`router.rs:5378-5437`, `4886-5234`), so the agent
loop takes up queued answers meanwhile, and its first attempt is to deliver them to
the live call (`router.rs:3184-3270`). Two sweeps interleave with this: the
credential callback, which wakes the calls of one
credential and then drops the authentication gates, and a stop, which wakes the
active pauses of a thread and then drops its gate. A restart loses the calls and
keeps the file; expired gates and approvals are dropped on the way up, and of the
others those whose thread still waits are kept. An action counts as gone ahead
(`acted`) when its pause returns `Approved` or when the re-entry path runs it, and as
`denied` when the call or the re-entered thread is told so; `lapsed` are the gates
whose timer cancelled the call. These three are kept of approval gates only. A parked
call is `astray` when its gate was lost to it: a sweep dropped the row, a re-insertion
found the row taken, or the answer was used on the re-entry path.

*EventLog.* `log` is `StreamState`: the retained records by cursor, the cursor
issued last and the retention mark. A reader reads a page after its cursor, follows
`next_cursor`, and on a `ReplayGap` goes on from the earliest cursor it was told
of. `ReplayJsonl` is the byte-level helper with a line per record. The refinement
maps the retention mark to the number of forgotten records.

*LlmResilience.* A call passes `check_allowed`, partitions the providers by cooldown
(or takes the one whose cooldown is oldest), attempts them in turn with retries,
and reports to the breaker. Each atomic of a provider's cooldown is read or written
in a step of its own. Time is abstract: a timeout or a cooldown has elapsed or it
has not. The outcome of an attempt is a free choice while the `weather` is mixed,
and success while it is good. `record_success` in `Open` is a debug assertion; the
model has what a release build does.

## 3. Runs

| Run | Instance | Shows |
|---|---|---|
| `governor` | 3 reservations, 2 scopes sharing two accounts, `usd` and slots, width 6, 2 limits | the books balance; only an overrun passes a limit; closed is closed |
| `lease_store` | 2 leases, 2 fingerprints or none, budgets none/0/1/2, issues that stop half-way, one listing | never overspent, never revived, nothing hidden |
| `capability_host` | 2 callers, 2 approvers, 2 leases, 1 invocation asked for as dispatch or spawn; rejections, faults, crashes | one effect per lease, only what was approved, nothing that was denied; implements `ApprovedReplay` |
| `capability_host_live` | the same without faults and crashes, fair | runs and claims settle; no lease without backing |
| `capability_host_two_approvers` | no rejections or faults | **violated**: one invocation runs twice |
| `capability_host_two_resumes` | one lease, one approver | **violated**: a completed run becomes failed |
| `process_lifecycle` | managed store; task, 2 killers, waiter, faults, a caller that may go away | one close, holds follow status, waiters give up on killed processes only |
| `process_recovery` | inner store; the same actors with restarts and dropped callers, fair to what has begun | every process ends but an orphan; every waiter returns but one that waits for an orphan; terminal is final; a kill that returns has ended its process |
| `inline_gate` | an approval and an authentication gate of one thread, a client on both paths, credential callback, stops, timers, failed file writes, restarts, fair to parked calls | an approved action once, a denied one never; a gate is lost to its call only in known ways; every pause returns |
| `inline_gate_expiry` | one approval gate, one client | **violated**: the action of an expired gate runs |
| `event_log` | 1 stream of up to 4 records, 2 readers of which one filters, pages of 1 or 2, truncation anywhere | implements the delivery promise; the JSONL helper agrees; readers catch up |
| `llm_resilience` | 2 concurrent calls, 2 providers, thresholds of 2, 1 retry | the breaker stays consistent; circuit and primary recover |

The state spaces are complete; nothing is cut off by a state constraint. The
bounds are the sizes of the constant sets, and `MaxEvents`.

- *Host.* One invocation is enough because the actions of two invocations touch
  disjoint records, and the theorems cover any number. Two callers and two
  approvers are the least for which every race exists; two leases are what two
  approvers can issue in one round.
- *Governor.* Three reservations let one close while two others stay open in
  shared accounts. The width is chosen so that holds fit together and usage does
  not: `HoldsMatchActiveReservations` fails once a sum of holds has saturated,
  because a closed hold is subtracted in full; at the real widths (`u32`, `u64`,
  `Decimal`) that takes estimates next to the maximum.
- *Lease files.* With two leases one can be listed while the other is issued; the
  theorems cover any number.
- *Processes.* Two killers race with each other and with the task; processes do not
  share state, so one is enough.
- *Gates.* Two requests on one thread meet in the row, the file entry and the gate
  lock, which is all that gates share; one of each kind brings in the callback. One
  client answers a gate as often as it is there, on either path, and races with the
  parked calls, the callback, a stop and restarts. Two clients on two approval gates
  pass the safety properties as well (1.9 million states); that instance is left out
  for its size, and the theorems cover any number of clients.
- *Events.* Four records and pages of up to two give a page that is full, one that
  ends early, and a truncation before, at and after every reader's cursor.
- *LLM.* Thresholds of two are the least at which a count can be reset half-way;
  two calls are the least of which one can report late.

Deadlock checking is off where the system really comes to rest (every call has
returned and nothing is left to resume, append or answer).

### Fairness

- `capability_host_live`: weak fairness of every call and every resolution that has
  begun, because the executor polls its tasks until they end. Nobody is obliged to
  start, resume or decide anything, and rejections remain possible. A claimed lease
  that expires during its replay is refused by `consume` and stays claimed;
  `ClaimSettles` says so.
- `process_recovery`: weak fairness of the task of a process, of a kill and of an
  `await_result` that have begun: they are polled until they end, and executors return
  (the code waits for them without a timeout). Nobody has to kill, and restarts may go
  on for ever. So an orphan may stay Running for good, which is what
  `services.rs:226-231` says of it, and whoever waits for it polls for good;
  `RunningEnds` and `WaiterReturns` except exactly that (`Orphaned`), and
  `KillIsEffective` says that a kill is the way out.
- `inline_gate`: a parked call is polled, and time passes. Nobody has to
  answer, and restarts may go on for ever: a restart ends a pause too.
- `event_log`: a reader keeps polling and rebases when it is told of a gap. Nothing
  has to be appended.
- `llm_resilience`: tasks are polled, callers come back, and time passes.
  `CircuitRecovers` and `PrimaryReturns` are conditional on providers that are well
  from some moment on.

### Findings

`PROJECT.json` quotes the lines. In short:

1. *Two resumes* (`host.rs:541`). A resume that lost the race at the claim leaves the
   run alone, as the code and a test demand. One that lost it a step earlier, at the
   lookup of the lease, fails the run that the winner completed.
2. *Two approvers* (`approvals/lib.rs:114`). A lease exists before its approval is
   recorded. With two approvers on one request the second lease is usable until its
   rollback, and the invocation can run twice.
3. *Expiry* (`router.rs:3292`). An answer through the agent loop takes the row of a gate
   just before it expires. The timer then cancels the parked call and forgets its
   channel; the delivery finds nobody, and the re-entry path runs the action of the
   call that was cancelled. The gate is documented to fail closed after its expiry.

### Observations

Met while modelling, visible in the models, and not the subject of a run.

Processes:

- The guard that keeps a late result from overwriting that of a kill is a read
  followed by a write (`services.rs:285`; `processes.md:130` says killed wins).
- A record is visible before its token is registered, so a kill in between never
  reaches the executor (`services.rs:242`, `processes.md:74`).
- Ownership of reservations is in memory; after a restart, and after a start that
  was dropped once its record had been written, the managed store refuses to
  complete, fail or kill the record (`wrappers.rs:226`), so an orphan of the managed
  store cannot be ended at all. `process_recovery` therefore uses the inner store.
- `kill` writes the status before the result, against the order promised in
  `services.rs:219`; the task writes the result before the status, against
  `processes.md:130`.

Gates:

- A pause puts its gate into the store before it registers its channel
  (`gate_controller.rs:656`). An answer that the agent loop takes in between finds
  nobody to deliver to and re-enters the thread; the call registers afterwards and
  waits without a gate that anyone could answer, until its timer ends it. The comment
  at `router.rs:5431` says the row stays available. `ParkedIsAccountedFor` counts such
  a call as astray.
- A stop wakes the pauses of a snapshot and then drops whatever gate its thread has by
  then (`gate_controller.rs:744`), which may be that of a call it did not wake. That
  call, too, waits for its timer.
- The comment at `router.rs:2923` says the agent loop is blocked while a call is
  parked. That is no longer so since the turn hands over to a continuation.
- The credential callback wakes a call before it drops the call's gate; an answer
  that takes the gate in between acts on it a second time. `ApprovalActsOnce` is
  therefore about approvals.
- For the same reason the next pause of the thread may still find the old row and
  is cancelled without a prompt; the comment above the insertion in
  `gate_controller.rs` says the gate lock rules that out.
- A failed save cancels the pause and leaves its row; a stop between the insertion
  and the tracking of a pause wakes nobody; file writes are keyed by thread, so a
  late save or removal can leave file and memory disagreeing; an approval that
  races a stop may re-enter the thread after its call was cancelled.

Others:

- A resume of a pending approval leaves the run blocked, against
  `run-state.md:163`.
- The first lease issued with an index hides the leases written without one
  (`authorization/lib.rs:461`); `ListingIsComplete` says so.
- `record_success` can meet an open circuit when calls overlap, although a debug
  assertion calls that a bug.
- An empty replay moves the cursor over records its filter dropped, where the
  documentation of `EventReplay` says it echoes the requested cursor.

## 4. Proofs

Each proof module extends its component (`LeaseStore_proof` both lease stores) and
holds for all constants that satisfy the component's named assumptions: non-empty
sets, markers outside the sets they mark, estimates and usages that fit their
counters and are negative in `usd` only, finitely many reservation ids. A theorem
that needs more names it as its hypothesis.

| Theorem | Says | Argument |
|---|---|---|
| `LeaseStore_proof!NeverOverspent` | `SpentWithinBudget` | `BudgetAccounting` is inductive: what is left and what was spent add up to the budget; a spent replay lease has left the usable statuses |
| `…!SpentStaysSpent` | `SpentOrRevokedIsFinal` | directly from the checks of claim and consume |
| `…!ListingsAreComplete` | `ListingIsComplete` | `FsInv` |
| `CapabilityHost_proof!LeaseUsedOnce` | `OneEffectPerLease` | `ReplayInv` |
| `…!ReplayNeedsApproval` | `ReplayWasApproved` | `ReplayInv` |
| `…!DenialIsFinal`, `CompletionIsEarned`, `BlockedRunIsBacked` | `DeniedNeverRuns`, `CompletedDidRun`, `BlockedRunHasRequest` | `RunInv` on top of `ReplayInv` |
| `…!HostKeepsPromise` | `ImplementsReplay` | `ReplayInv` and `RunInv`; a dispatch maps to an outright run or a replay, the writes of the approval store to asking, withdrawing and deciding, an issue to a grant |
| `…!RollbackLeavesNoLease` (if no store call fails and the host does not stop) | `ActiveLeaseIsBacked` | `BackedInv` |
| `ProcessLifecycle_proof!ReservationClosedOnce` | `ClosedAtMostOnce` | `OwnerInv`: the start call, the map entry, the task between take and close, and the killers between take and close own a reservation, and at most one of them does |
| `…!ReservationFollowsProcess` (managed store, no restart) | `HoldFollowsStatus` | `HoldInv` on top of `OwnerInv` |
| `…!TerminalStays` | `TerminalIsFinal` | every transition is guarded by `Running` |
| `…!KillsAreEffective` (inner store, no store call fails) | `KillIsEffective` | `KillInv` |
| `…!WaiterSeesResults` | `GivesUpOnlyOnKilled` | `ResultFirst`: whatever the task ended has its result, and a waiter that saw an end without one saw a kill |
| `InlineGate_proof!ApprovalIsUsedOnce` | `ApprovalActsOnce` | `GateInv` |
| `…!DenialsAreFinal` | `DenialIsFinal` | `GateInv` |
| `…!ParkedGatesAreAccountedFor` | `ParkedIsAccountedFor` | `GateInv` |
| `EventLog_proof!LogImplementsDelivery` | `ImplementsDelivery` | `LogInv`; a read maps to a delivery or a notice of loss, truncation to forgetting |
| `…!LogAgreesWithJsonl` | `JsonlAgrees` | `LogInv`: the retained records of an untruncated stream are its lines |
| `LlmResilience_proof!BreakerConsistent`, `OpenPeriodFixed` | `BreakerOK`, `OpenPeriodIsFixed` | the invariant `Agrees` on the breaker's four fields |
| `ResourceGovernor_proof!ReceiptIsFinal` | `ClosedStaysClosed` | guards of reserve, reconcile and release |
| `…!UsageIsSumOfReceipts` | `UsageMatchesReconciled` | lemmas on sums, one per operation |
| `…!HoldsNeverLeak` | an account is charged at most what its active reservations ask for | the same |
| `…!HoldsAreExact` (while the holds fit) | `HoldsMatchActiveReservations` | the same |
| `…!OverrunsAlonePassLimits` (while the holds fit, limits that bite) | `OnlyOverrunsPassLimits` | the two sums and the checks of `Exceeds` |
| `TypeCorrect` of each, `LogTypeCorrect` | `TypeOK` | one step per action |

`ReplayInv` is needed because `OneEffectPerLease` says nothing about who may still
use a lease. It adds: what each caller's counter implies about its lease and
approval (`CallOK`), that no two callers hold the same lease (`Exclusive`), that an
unused lease is what an approver is about to offer (`VoteOK`), that a lease which
was used is not active (`LeaseOK`), and that an approved request keeps its
fingerprint (`ApprovalOK`).

`RunInv` is needed because neither a run's status nor an approval's says which of the
concurrent methods is about to write it. It adds that a first invocation has its
invocation for itself until it blocks, since only a blocked run is resumed (`Direct`,
`Alone`), that no approval is asked for before the step that may block, that nothing
ran before the authorization and something did after a dispatch (`CallRuns`), and
what the stores' statuses say about effects (`RunOK`).

`ApprovedReplay` knows no calls, runs or lease statuses: a request is decided once and
for all, an invocation that never asked runs outright at most once, and any other
side effect is a replay that a grant for the very request that stands approved pays
for, each grant once. `HostKeepsPromise` says that the host, which reads and writes
three stores one after the other and may stop in between, does nothing else. It adds
to the invariants above that no decision is ever replaced and that an allowed
invocation runs once. Two grants for one request may both be used (finding 2), which
the promise permits.

`BackedInv` adds to the property that an approver between issue and approval, or
before its revocation, holds a lease of the request it read. A failed revoke, or a
stop between issue and approval, leaves a lease that nothing backs. The theorem
therefore excludes both, as does the run that checks the property.

`HoldInv` says for each counter that holds a reservation which status and hold it
finds, so that whenever the two disagree somebody is still to bring them together
(`InHand`). It holds for failing stores. A restart empties the governor, which keeps
no reservation on disk, hence `~ Crashes`; the inner store does not touch
reservations, hence `Managed`.

`KillInv` says what a kill knows of its process: before the transition there is a
record, and after it the process has ended, by this kill, by another one or by its
task. Without it the property, which is about the last step of a kill, says nothing of
the steps before. The managed store refuses the kill of an orphan, and a failed store
call ends a kill early, hence the two hypotheses.

`GateInv` has four parts. At most one call of a thread is in a pause: the gate lock
(`LockOK`). The callback wakes only calls that wait for the credential (`SweepOK`).
A gate is put back only by the endpoint and acted on only by the agent loop
(`ResolverOK`). And per request (`RequestOK`): its gate is in the store or in the hands
of one client, and nowhere before its call pauses (`UniqueOK`); an approval that was
delivered, told of or acted on is in neither place any more, so there is one verdict
(`SpentOK`), and a restart brings no approval back; the gate of a parked call is
somewhere or is known to be lost (`ParkedOK`). The answer that acts on the re-entry
path while the call waits is the hard case: the call must not get a second one, and
does not, because the gate that both would come from is taken once. These theorems
need no hypothesis: they cover approval and authentication gates on any number of
threads, with any number of clients, failed file writes and restarts.

`FsInv` is needed because a listing's result says nothing about the files it has not
read. It adds: an issue half-way wrote the index and holds a fresh id (`PendingOK`),
the index names every lease but the legacy ones (`IndexNamesLeases`), only a replay
lease is ever claimed and so no lease regains its authority (`ClaimedIsReplay`), and
a listing has each lease it owes ahead of it or in its result (`ListingOnTrack`). The
theorems on lease records carry over to the files by lemmas (`FilesAreLeases`,
`FilesNeverOverspent`, `FilesStaySpent`).

`LogInv` relates what the promise does not mention: the retained cursors are those
from the retention mark to the last one issued, each holds what was appended under
it, no reader is ahead of its stream, and a gap a reader was told of leads over
records that are gone. The refinement is proved for any streams,
readers, filters and page sizes.

The sums of the governor are folds over the finite set of reservation ids, and a fold
is the choice of a function that satisfies a recursive equation. The lemmas show that
such a function exists (`SumsUnfold`), that changing one summand changes the sum by as
much (`SumUpdate`), and what each operation does to the sums. In place of the
induction theorems, which have an operator parameter, both take the least size of a
subset that is a counterexample. `HoldsFit` says that every sum of active holds fits
its counter: beyond that a hold that was added in part is subtracted in full, and the
sum is no longer exact (see Bounds). `LimitsBite` says that a limit on a counter whose
check saturates lies below the maximum of the counter: at the maximum the saturated
total never exceeds it, so it limits nothing. The instance of the run meets both.

All inductive invariants were model-checked before they were proved.

Only model-checked: everything under fairness (`RunningSettles`, `ClaimSettles`,
`RunningEnds`, `WaiterReturns`, `PauseEnds`, `CatchesUp`, `CircuitRecovers`,
`PrimaryReturns`), which is out of the prover's reach. The three runs that expect a
violation refute what they state, so there is nothing to prove. Every other property
of a run is stated by a theorem.

## 5. What is left out, and the plan

Left out of the modelled components: audit and runtime events (best effort, no
state), error texts, path layout and serialisation of the filesystem stores,
partly configured hosts (the models assume every store is present), `block_auth`,
the `Expired` approval status and `expire_stale` of the gate store (no caller outside
tests), the always-approve preferences and prompts of gates, a token sent as an answer to an
authentication gate and the gate that replaces it when the token is refused, responses
from a wrong channel or user (refused without a change), a kill that is dropped after
it took the ownership of a reservation, process subscriptions and events, the
output blob that a failed result write leaves behind, drops of a call at an `await`
other than the one the drop guard is for, the response cache and smart routing of
LLM calls, and the overflow of 64-bit cursors.

### Not modelled

The models stand for a small share of the repository's half a million lines, and
that will not change much: most of them are channels and user interfaces, tools and
extension management, setup and configuration, LLM and database adapters, runtimes
and their sandboxes. That code calls external systems one after the other, parses
and formats; it has little state that two actors share and no protocol whose order
matters. The models are where such protocols are. The components, with reasons, are
in `PROJECT.json`. Three parts with protocols of their own remain:

1. Obligations and secret leases: what authorization hands to dispatch, composed
   with the governor and the dispatcher's error paths.
2. Engine threads, missions and engine-side leases.
3. The authorizer: grants, trust and ceilings as operators against a reference.

Every safety property of a passing run is proved. What proofs can still add is an
abstract specification of what the gates promise, shared with the host as far as they
promise the same, and one of processes (a reservation and a result per process).
