------------------------ MODULE LlmResilience_proof ------------------------
(***************************************************************************)
(* The circuit breaker stays consistent under any number of concurrent     *)
(* calls, providers and retries, and for all thresholds, zero included.    *)
(***************************************************************************)
EXTENDS LlmResilience, TLAPS

Breaker == [state : {"Closed", "Open", "HalfOpen"}, consecutive_failures : Nat,
            opened_at : Opened, half_open_successes : Nat]

\* BreakerOK as a predicate of any state of the breaker.
Agrees(b) ==
    /\ b \in Breaker
    /\ b.state = "Closed" <=> b.opened_at = "none"
    /\ b.state = "Closed" =>
          b.consecutive_failures = 0 \/ b.consecutive_failures < FailureThreshold
    /\ b.state = "HalfOpen" =>
          b.half_open_successes = 0 \/ b.half_open_successes < SuccessesNeeded

\* A check that lets a call in leaves a closed circuit closed, and turns one
\* whose timeout has elapsed half-open.
LEMMA CheckAgrees ==
  ASSUME NEW b, Agrees(b) PROVE Agrees(AfterCheck(b)) /\ AfterCheck(b).state # "Open"
  BY DEF Agrees, AfterCheck, Breaker, Opened

\* A success closes the circuit, or counts.
LEMMA SuccessAgrees ==
  ASSUME NEW b, Agrees(b)
  PROVE  Agrees(AfterSuccess(b)) /\ (b.state = "Open" => AfterSuccess(b).state = "Closed")
  <1>1. b \in Breaker
    BY DEF Agrees
  <1>2. CASE b.state = "Closed"
    BY <1>2 DEF Agrees, AfterSuccess, Breaker, Opened
  <1>3. CASE b.state = "HalfOpen" /\ b.half_open_successes + 1 >= SuccessesNeeded
    <2>1. AfterSuccess(b) = [state |-> "Closed", consecutive_failures |-> 0,
                             opened_at |-> "none",
                             half_open_successes |-> b.half_open_successes + 1]
      BY <1>1, <1>3 DEF AfterSuccess, Breaker
    <2>2. b.half_open_successes + 1 \in Nat
      BY <1>1 DEF Breaker
    <2>3. /\ AfterSuccess(b) \in Breaker
          /\ AfterSuccess(b).state = "Closed" /\ AfterSuccess(b).opened_at = "none"
          /\ AfterSuccess(b).consecutive_failures = 0
      BY <1>1, <2>1, <2>2 DEF Breaker, Opened
    <2>4. QED
      BY <1>3, <2>3 DEF Agrees
  <1>4. CASE b.state = "HalfOpen" /\ ~ (b.half_open_successes + 1 >= SuccessesNeeded)
    BY <1>4, CountAssumption DEF Agrees, AfterSuccess, Breaker, Opened
  <1>5. CASE b.state = "Open"
    BY <1>5 DEF Agrees, AfterSuccess, Breaker, Opened
  <1>6. QED
    BY <1>1, <1>2, <1>3, <1>4, <1>5 DEF Breaker

\* A failure opens the circuit, or counts; an open one stays as it is.
LEMMA FailureAgrees ==
  ASSUME NEW b, Agrees(b)
  PROVE  Agrees(AfterFailure(b)) /\ (b.state = "Open" => AfterFailure(b) = b)
  <1>1. b \in Breaker
    BY DEF Agrees
  <1>2. CASE b.state = "Closed" /\ b.consecutive_failures + 1 >= FailureThreshold
    <2>1. AfterFailure(b) = [b EXCEPT !.consecutive_failures = b.consecutive_failures + 1,
                                      !.state = "Open", !.opened_at = "recent"]
      BY <1>2 DEF AfterFailure
    <2>2. b.consecutive_failures + 1 \in Nat
      BY <1>1 DEF Breaker
    <2>3. /\ AfterFailure(b) \in Breaker
          /\ AfterFailure(b).state = "Open" /\ AfterFailure(b).opened_at = "recent"
      BY <1>1, <2>1, <2>2 DEF Breaker, Opened
    <2>4. QED
      BY <1>2, <2>3 DEF Agrees
  <1>3. CASE b.state = "Closed" /\ ~ (b.consecutive_failures + 1 >= FailureThreshold)
    BY <1>3, CountAssumption DEF Agrees, AfterFailure, Breaker, Opened
  <1>4. CASE b.state = "HalfOpen"
    BY <1>4 DEF Agrees, AfterFailure, Breaker, Opened
  <1>5. CASE b.state = "Open"
    BY <1>5 DEF Agrees, AfterFailure
  <1>6. QED
    BY <1>1, <1>2, <1>3, <1>4, <1>5 DEF Breaker

\* What a step may do to the breaker.
FixedPeriod ==
    breaker.state = "Open" /\ breaker'.state = "Open" =>
        breaker'.opened_at \in {breaker.opened_at, "due"}

\* One step of any call, or of time.
LEMMA BreakerStep == Agrees(breaker) /\ [Next]_vars => Agrees(breaker)' /\ FixedPeriod
  <1> SUFFICES ASSUME Agrees(breaker), [Next]_vars PROVE Agrees(breaker') /\ FixedPeriod
    OBVIOUS
  <1>1. CASE breaker' = breaker
    BY <1>1 DEF FixedPeriod
  <1>2. CASE breaker' = AfterCheck(breaker)
    BY <1>2, CheckAgrees DEF FixedPeriod
  <1>3. CASE breaker' = AfterSuccess(breaker)
    BY <1>3, SuccessAgrees DEF FixedPeriod
  <1>4. CASE breaker' = AfterFailure(breaker)
    BY <1>4, FailureAgrees DEF FixedPeriod
  <1>5. CASE TimeoutElapses
    BY <1>5 DEF TimeoutElapses, Agrees, Breaker, Opened, FixedPeriod
  <1>6. ASSUME NEW c \in Call, CallStep(c) \/ Abandon(c)
        PROVE  breaker' \in {breaker, AfterCheck(breaker), AfterSuccess(breaker),
                             AfterFailure(breaker)}
    <2>1. CASE CheckAllowed(c)
      BY <2>1 DEF CheckAllowed
    <2>2. CASE Record(c)
      BY <2>2 DEF Record
    <2>3. CASE Partition(c) \/ Oldest(c) \/ (\E o \in Outcome : Attempt(c, o)) \/ Abandon(c)
      BY <2>3 DEF Partition, Oldest, Attempt, Abandon
    <2>4. CASE ResetCount(c) \/ ResetCooldown(c) \/ CountFailure(c) \/ ActivateCooldown(c)
      BY <2>4 DEF ResetCount, ResetCooldown, CountFailure, ActivateCooldown
    <2>5. QED
      BY <1>6, <2>1, <2>2, <2>3, <2>4 DEF CallStep
  <1>7. CASE CooldownElapses \/ WeatherChanges \/ UNCHANGED vars
    BY <1>1, <1>7 DEF CooldownElapses, WeatherChanges, vars
  <1>8. QED
    BY <1>1, <1>2, <1>3, <1>4, <1>5, <1>6, <1>7 DEF Next

\* A closed breaker without failures agrees with its history.
LEMMA BreakerInit == Init => Agrees(breaker)
  BY DEF Init, NewBreaker, Agrees, Breaker, Opened

\* record_success and record_failure of calls let in long ago never leave the
\* breaker inconsistent: an open circuit has its timestamp, a closed one is
\* below its threshold.
THEOREM BreakerConsistent == Spec => []BreakerOK
  <1>1. Agrees(breaker) => BreakerOK
    BY DEF Agrees, BreakerOK
  <1>2. QED
    BY <1>1, BreakerInit, BreakerStep, PTL DEF Spec

\* A failure recorded while the circuit is open does not restart its timeout.
THEOREM OpenPeriodFixed == Spec => OpenPeriodIsFixed
  <1>1. Agrees(breaker) /\ [Next]_vars => [FixedPeriod]_vars
    BY BreakerStep
  <1>2. QED
    BY <1>1, BreakerInit, BreakerStep, PTL DEF Spec, OpenPeriodIsFixed, FixedPeriod
=============================================================================
