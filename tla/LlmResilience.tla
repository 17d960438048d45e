--------------------------- MODULE LlmResilience ---------------------------
(***************************************************************************)
(* The decorators around the LLM providers, as build_provider_chain stacks *)
(* them: a circuit breaker around a failover between providers, each with  *)
(* its own retries.  Calls run concurrently; only the breaker has a lock,  *)
(* the failover's cooldowns are separate atomics.                          *)
(*                                                                         *)
(* Time is abstract: a moment passes when the recovery timeout of an open  *)
(* circuit, or the cooldown of a provider, has elapsed.                    *)
(***************************************************************************)
EXTENDS Naturals, Sequences

CONSTANTS
    Call,               \* concurrent callers
    Providers,          \* number of providers; the first is the primary
    FailureThreshold,   \* of the breaker
    SuccessesNeeded,    \* half_open_successes_needed
    CooldownThreshold,  \* of the failover
    MaxRetries

ASSUME CountAssumption ==
    /\ Providers \in Nat \ {0}
    /\ FailureThreshold \in Nat /\ SuccessesNeeded \in Nat
    /\ CooldownThreshold \in Nat /\ MaxRetries \in Nat

VARIABLES
    breaker,    \* BreakerState
    failures,   \* [Provider -> Nat]: failure_count, capped at the threshold
    cooled,     \* providers with cooldown_activated_nanos set, oldest first
    over,       \* those of them whose cooldown has elapsed
    call,       \* [Call -> CallState]
    weather     \* "good": every provider answers; "mixed": anything happens

cooldowns == <<failures, cooled, over>>
vars == <<breaker, cooldowns, call, weather>>

Provider == 1 .. Providers

\* opened_at, and whether recovery_timeout has elapsed since.
Opened == {"none", "recent", "due"}

\* BreakerState::new.
NewBreaker == [state |-> "Closed", consecutive_failures |-> 0, opened_at |-> "none",
               half_open_successes |-> 0]

\* What an LlmError is to retry and failover, and to the breaker: SessionExpired
\* is not retryable but transient, AuthFailed and the like are neither.
Outcome == {"ok", "retryable", "session", "client"}
IsRetryable(o) == o = "retryable"
IsTransient(o) == o \in {"retryable", "session"}

CallPc == {"idle", "partition", "oldest", "attempt", "reset", "clear", "count",
           "activate", "record"}

NoCall == [pc |-> "idle", todo |-> {}, at |-> 1, tries |-> 0, result |-> "ok"]

Init ==
    /\ breaker = NewBreaker
    /\ failures = [p \in Provider |-> 0] /\ cooled = << >> /\ over = {}
    /\ call = [c \in Call |-> NoCall]
    /\ weather = "good"

-----------------------------------------------------------------------------
(* CircuitBreakerProvider. *)

\* check_allowed: an open circuit rejects until its timeout has elapsed.
Rejects(b) == b.state = "Open" /\ b.opened_at = "recent"

\* Mutant: every check starts the count of successes over.
AfterCheckResetting(b) ==
    IF b.state = "Closed" THEN b
    ELSE [b EXCEPT !.state = "HalfOpen", !.half_open_successes = 0]

AfterCheck(b) ==
    IF b.state # "Open" THEN b
    ELSE IF b.opened_at = "none" THEN [b EXCEPT !.state = "Closed"]
    ELSE [b EXCEPT !.state = "HalfOpen", !.half_open_successes = 0]

\* record_success; the successes of all calls count, probes or not.  (In a
\* debug build the last case is a failed assertion.)
AfterSuccess(b) ==
    LET closed == [b EXCEPT !.state = "Closed", !.consecutive_failures = 0,
                            !.opened_at = "none"]
        probed == [b EXCEPT !.half_open_successes = @ + 1]
    IN  CASE b.state = "Closed" -> [b EXCEPT !.consecutive_failures = 0]
          [] b.state = "HalfOpen" ->
                IF b.half_open_successes + 1 >= SuccessesNeeded
                THEN [closed EXCEPT !.half_open_successes = @ + 1] ELSE probed
          [] b.state = "Open" -> closed

\* Mutant: the threshold itself does not open the circuit.
AfterFailureLate(b) ==
    CASE b.state = "Closed" ->
            IF b.consecutive_failures + 1 > FailureThreshold
            THEN [b EXCEPT !.consecutive_failures = @ + 1, !.state = "Open",
                           !.opened_at = "recent"]
            ELSE [b EXCEPT !.consecutive_failures = @ + 1]
      [] b.state = "HalfOpen" -> [b EXCEPT !.state = "Open", !.opened_at = "recent",
                                           !.half_open_successes = 0]
      [] b.state = "Open" -> b

\* Mutant: a late failure restarts the recovery timeout.
AfterFailureRestarting(b) ==
    CASE b.state = "Closed" ->
            IF b.consecutive_failures + 1 >= FailureThreshold
            THEN [b EXCEPT !.consecutive_failures = @ + 1, !.state = "Open",
                           !.opened_at = "recent"]
            ELSE [b EXCEPT !.consecutive_failures = @ + 1]
      [] OTHER -> [b EXCEPT !.state = "Open", !.opened_at = "recent",
                            !.half_open_successes = 0]

\* record_failure of a transient error.
AfterFailure(b) ==
    CASE b.state = "Closed" ->
            IF b.consecutive_failures + 1 >= FailureThreshold
            THEN [b EXCEPT !.consecutive_failures = @ + 1, !.state = "Open",
                           !.opened_at = "recent"]
            ELSE [b EXCEPT !.consecutive_failures = @ + 1]
      [] b.state = "HalfOpen" -> [b EXCEPT !.state = "Open", !.opened_at = "recent",
                                           !.half_open_successes = 0]
      [] b.state = "Open" -> b

-----------------------------------------------------------------------------
(* One call: complete() of the breaker, try_providers, retry_loop. *)

At(c, pc) == call[c].pc = pc
Go(c, pc) == call' = [call EXCEPT ![c].pc = pc]
Cooled == {cooled[i] : i \in DOMAIN cooled}

\* Mutant: a provider that was cooled stays so until it succeeds.
InCooldownForever(p) == p \in Cooled

\* is_in_cooldown.
InCooldown(p) == p \in Cooled \ over

First(S) == CHOOSE p \in S : \A q \in S : p <= q

\* The retries of a provider start over with each provider.
Try(c, S) ==
    call' = [call EXCEPT ![c] = [@ EXCEPT !.pc = "attempt", !.todo = S, !.at = First(S),
                                          !.tries = 0]]

\* The providers are done with; the outcome goes to the breaker.
Returned(o) == [NoCall EXCEPT !.pc = "record", !.result = o]

\* A rejected call returns an error and changes nothing.
CheckAllowed(c) ==
    /\ At(c, "idle") /\ ~ Rejects(breaker)
    /\ breaker' = AfterCheck(breaker) /\ Go(c, "partition")
    /\ UNCHANGED <<cooldowns, weather>>

Partition(c) ==
    LET available == {p \in Provider : ~ InCooldown(p)}
    IN  /\ At(c, "partition")
        /\ IF available = {} THEN Go(c, "oldest") ELSE Try(c, available)
        /\ UNCHANGED <<breaker, cooldowns, weather>>

\* All were in cooldown: the one with the least timestamp, which is zero for one
\* that was reset in the meantime.
Oldest(c) ==
    /\ At(c, "oldest")
    /\ Try(c, IF Cooled = Provider THEN {Head(cooled)} ELSE {First(Provider \ Cooled)})
    /\ UNCHANGED <<breaker, cooldowns, weather>>

\* The provider answers, or a retry is scheduled.
Attempt(c, o) ==
    /\ At(c, "attempt")
    /\ weather = "good" => o = "ok"
    /\ call' = [call EXCEPT ![c] =
          IF o = "ok" THEN [NoCall EXCEPT !.pc = "reset", !.at = call[c].at]
          ELSE IF ~ IsRetryable(o) THEN Returned(o)
          ELSE IF @.tries < MaxRetries THEN [@ EXCEPT !.tries = @ + 1]
          ELSE [@ EXCEPT !.pc = "count", !.tries = 0]]
    /\ UNCHANGED <<breaker, cooldowns, weather>>

\* ProviderCooldown::reset, one store after the other.
ResetCount(c) ==
    /\ At(c, "reset") /\ Go(c, "clear")
    /\ failures' = [failures EXCEPT ![call[c].at] = 0]
    /\ UNCHANGED <<breaker, cooled, over, weather>>

Without(p) == SelectSeq(cooled, LAMBDA q : q # p)

ResetCooldown(c) ==
    /\ At(c, "clear") /\ call' = [call EXCEPT ![c] = Returned("ok")]
    /\ cooled' = Without(call[c].at) /\ over' = over \ {call[c].at}
    /\ UNCHANGED <<breaker, failures, weather>>

\* On to the next available provider, or out with the last error.
NextProvider(c) ==
    LET rest == call[c].todo \ {call[c].at}
    IN  IF rest = {} THEN call' = [call EXCEPT ![c] = Returned("retryable")]
        ELSE Try(c, rest)

\* ProviderCooldown::record_failure.
CountFailure(c) ==
    LET p == call[c].at
    IN  /\ At(c, "count")
        /\ failures' = [failures EXCEPT ![p] = IF @ < CooldownThreshold THEN @ + 1 ELSE @]
        /\ IF failures[p] + 1 >= CooldownThreshold THEN Go(c, "activate") ELSE NextProvider(c)
        /\ UNCHANGED <<breaker, cooled, over, weather>>

\* activate_cooldown, with the time it is now.
ActivateCooldown(c) ==
    LET p == call[c].at
    IN  /\ At(c, "activate")
        /\ cooled' = Append(Without(p), p) /\ over' = over \ {p}
        /\ NextProvider(c)
        /\ UNCHANGED <<breaker, failures, weather>>

\* record_success or record_failure.
Record(c) ==
    LET o == call[c].result
    IN  /\ At(c, "record")
        /\ breaker' = IF o = "ok" THEN AfterSuccess(breaker)
                      ELSE IF IsTransient(o) THEN AfterFailure(breaker) ELSE breaker
        /\ call' = [call EXCEPT ![c] = NoCall]
        /\ UNCHANGED <<cooldowns, weather>>

\* The caller gives up on a slow provider; nothing is recorded.
Abandon(c) ==
    /\ At(c, "attempt") /\ weather = "mixed"
    /\ call' = [call EXCEPT ![c] = NoCall]
    /\ UNCHANGED <<breaker, cooldowns, weather>>

-----------------------------------------------------------------------------

\* recovery_timeout has elapsed since opened_at.
TimeoutElapses ==
    /\ breaker.opened_at = "recent"
    /\ breaker' = [breaker EXCEPT !.opened_at = "due"]
    /\ UNCHANGED <<cooldowns, call, weather>>

\* cooldown_duration has elapsed since the oldest activation that still counts.
CooldownElapses ==
    /\ \E i \in DOMAIN cooled :
          /\ cooled[i] \notin over /\ \A j \in 1 .. i - 1 : cooled[j] \in over
          /\ over' = over \cup {cooled[i]}
    /\ UNCHANGED <<breaker, failures, cooled, call, weather>>

\* The providers degrade and recover.
WeatherChanges ==
    /\ weather' \in {"good", "mixed"} \ {weather}
    /\ UNCHANGED <<breaker, cooldowns, call>>

CallStep(c) ==
    \/ CheckAllowed(c) \/ Partition(c) \/ Oldest(c)
    \/ \E o \in Outcome : Attempt(c, o)
    \/ ResetCount(c) \/ ResetCooldown(c) \/ CountFailure(c) \/ ActivateCooldown(c)
    \/ Record(c)

Next ==
    \/ \E c \in Call : CallStep(c) \/ Abandon(c)
    \/ TimeoutElapses \/ CooldownElapses \/ WeatherChanges

\* Tasks are polled, callers come back, and time passes.
Fairness ==
    /\ \A c \in Call : WF_vars(CallStep(c))
    /\ WF_vars(TimeoutElapses) /\ WF_vars(CooldownElapses)

Spec == Init /\ [][Next]_vars
LiveSpec == Spec /\ Fairness

-----------------------------------------------------------------------------

\* The breaker's fields agree whatever calls of an earlier state still report:
\* a circuit that is not closed knows since when ("opened_at should always be
\* Some when Open"), a closed one is below its threshold, a half-open one has
\* not seen the successes it needs.
BreakerOK ==
    /\ breaker.state = "Closed" <=> breaker.opened_at = "none"
    /\ breaker.state = "Closed" =>
          breaker.consecutive_failures = 0 \/ breaker.consecutive_failures < FailureThreshold
    /\ breaker.state = "HalfOpen" =>
          breaker.half_open_successes = 0 \/ breaker.half_open_successes < SuccessesNeeded

\* The failures of calls that were let in before the circuit opened, and that
\* return while it is open, do not put off its recovery.
OpenPeriodIsFixed ==
    [][breaker.state = "Open" /\ breaker'.state = "Open" =>
         breaker'.opened_at \in {breaker.opened_at, "due"}]_vars

GoodAtLast == <>[](weather = "good")

\* Once the providers are well the circuit closes for good, whatever late
\* results were still on their way.
CircuitRecovers == GoodAtLast => <>[](breaker.state = "Closed")

\* Once the providers are well the primary comes out of its cooldown for good,
\* although the atomics of its cooldown are written by many calls at once.
PrimaryReturns == GoodAtLast => <>[](~ InCooldown(1))
=============================================================================
