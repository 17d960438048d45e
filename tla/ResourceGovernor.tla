-------------------------- MODULE ResourceGovernor --------------------------
(***************************************************************************)
(* The in-memory resource governor of crates/ironclaw_resources: account   *)
(* limits, the holds and the recorded usage of every account, and the      *)
(* reservations that tie them together.  Every operation of the code runs  *)
(* under one mutex, so each is a single action here.  A call that the code *)
(* answers with an error changes nothing: it is a stuttering step, and the *)
(* error conditions are the negations of the guards.                       *)
(*                                                                         *)
(* Partial functions stand for Option: a dimension outside DOMAIN of an    *)
(* estimate is a None that counts as zero, a dimension outside DOMAIN of a *)
(* limit is unlimited, and an account without a limits entry has the empty *)
(* function, which the code treats alike.                                  *)
(***************************************************************************)
EXTENDS Integers, FiniteSets, FiniteSetsExt

CONSTANTS
    ReservationId,  \* ids a caller may supply; `reserve` draws a fresh one
    Scope,          \* records with the six scope fields of ResourceScope
    Dimension,      \* the resource dimensions in play
    Cap,            \* [Dimension -> Nat]: u64::MAX, u32::MAX or Decimal::MAX
    Estimate,       \* estimates callers submit (partial functions)
    Usage,          \* actual usages callers report (total functions)
    Limit           \* limits an operator may set (partial functions)

NoId == "none"

\* The dimensions whose tally is a u32 but whose check is done in u64.
U32Dimension == {"process_count", "concurrency_slots"}

\* Every account whose limit applies to a scope.
Cascade(s) ==
    {<<"Tenant", s.tenant>>, <<"User", s.tenant, s.user>>}
    \cup {a \in {<<"Project", s.tenant, s.user, s.project>>} : s.project # NoId}
    \cup {a \in {<<"Agent", s.tenant, s.user, s.project, s.agent>>} :
            s.agent # NoId}
    \cup {a \in {<<"Mission", s.tenant, s.user, s.project, s.mission>>} :
            s.mission # NoId}
    \cup {a \in {<<"Thread", s.tenant, s.user, s.project, s.mission, s.thread>>} :
            s.thread # NoId}

Account == UNION {Cascade(s) : s \in Scope}

Tally == [Dimension -> Nat]
Zero == [d \in Dimension |-> 0]
OpenLimit == [d \in {} |-> 0]

\* Ids are 128 bits wide, and only ids in use have a record.
ASSUME ReservationIdAssumption == IsFiniteSet(ReservationId)

ASSUME CapAssumption == Cap \in [Dimension -> Nat]

ASSUME EstimateAssumption ==
    \A e \in Estimate :
        /\ DOMAIN e \subseteq Dimension
        /\ \A d \in DOMAIN e : e[d] \in Int /\ e[d] <= Cap[d]
        /\ \A d \in DOMAIN e : d # "usd" => e[d] >= 0

ASSUME UsageAssumption ==
    \A u \in Usage :
        /\ u \in [Dimension -> Int]
        /\ \A d \in Dimension : u[d] <= Cap[d]
        /\ \A d \in Dimension : d # "usd" => u[d] >= 0

ASSUME LimitAssumption ==
    \A l \in Limit :
        /\ DOMAIN l \subseteq Dimension
        /\ \A d \in DOMAIN l : l[d] \in Int /\ l[d] <= Cap[d]

VARIABLES
    limits,        \* [Account -> partial function from Dimension]
    reserved,      \* [Account -> Tally], reserved_by_account
    usage,         \* [Account -> Tally], usage_by_account
    reservations   \* [ReservationId -> record], status "Absent" when unknown

vars == <<limits, reserved, usage, reservations>>

NoReservation ==
    [status |-> "Absent", accounts |-> {}, tally |-> Zero, actual |-> Zero]

Init ==
    /\ limits = [a \in Account |-> OpenLimit]
    /\ reserved = [a \in Account |-> Zero]
    /\ usage = [a \in Account |-> Zero]
    /\ reservations = [i \in ReservationId |-> NoReservation]

-----------------------------------------------------------------------------
(* Tallies. *)

\* ResourceTally::from_estimate: a missing dimension counts as zero.
FromEstimate(e) == [d \in Dimension |-> IF d \in DOMAIN e THEN e[d] ELSE 0]

\* Mutant: the slots an invocation held are recorded as spent.
FromUsageWithSlots(u) == [d \in Dimension |-> u[d]]

\* ResourceTally::from_usage: concurrency slots are never recorded as spent.
FromUsage(u) == [d \in Dimension |-> IF d = "concurrency_slots" THEN 0 ELSE u[d]]

\* Mutant: counters are added without a check of their width.
AddTallyUnchecked(t, o) == [d \in Dimension |-> t[d] + o[d]]

\* ResourceTally::add_assign and sub_assign: both saturate.
AddTally(t, o) ==
    [d \in Dimension |-> IF t[d] + o[d] > Cap[d] THEN Cap[d] ELSE t[d] + o[d]]
SubTally(t, o) ==
    [d \in Dimension |-> IF t[d] - o[d] < 0 THEN 0 ELSE t[d] - o[d]]

\* validate_estimate and validate_usage: only usd is signed.
NonNegativeUsd(e) == "usd" \in DOMAIN e => e["usd"] >= 0

\* Mutant: the check forgets what is already held.
ExceedsIgnoringHolds(d, limit, used, held, asked) == used + asked > limit

\* check_decimal and check_integer for one dimension.  usd treats an overflow
\* of the checked sum as exceeding; a u32 dimension is summed in u64 and cannot
\* overflow; the others saturate at their cap.
Exceeds(d, limit, used, held, asked) ==
    LET total == used + held + asked
    IN  CASE d = "usd" -> total > Cap[d] \/ total > limit
          [] d \in U32Dimension -> total > limit
          [] OTHER -> (IF total > Cap[d] THEN Cap[d] ELSE total) > limit

\* check_limits: no limited dimension of the account denies the request.
WithinLimits(a, asked) ==
    \A d \in DOMAIN limits[a] :
        ~ Exceeds(d, limits[a][d], usage[a][d], reserved[a][d], asked[d])

-----------------------------------------------------------------------------
(* Operations. *)

SetLimit(a, l) ==
    /\ limits' = [limits EXCEPT ![a] = l]
    /\ UNCHANGED <<reserved, usage, reservations>>

\* Mutant: an id whose reservation was closed may be reserved again.
ReserveReusingId(id, s, e) ==
    LET accounts == Cascade(s)
        asked == FromEstimate(e)
    IN  /\ NonNegativeUsd(e)
        /\ reservations[id].status # "Active"
        /\ \A a \in accounts : WithinLimits(a, asked)
        /\ reserved' = [a \in Account |->
             IF a \in accounts THEN AddTally(reserved[a], asked) ELSE reserved[a]]
        /\ reservations' = [reservations EXCEPT ![id] =
             [status |-> "Active", accounts |-> accounts,
              tally |-> asked, actual |-> Zero]]
        /\ UNCHANGED <<limits, usage>>

\* reserve and reserve_with_id: an id is used once, every account of the
\* cascade must absorb the request, and then every account is charged.
ReserveWithId(id, s, e) ==
    LET accounts == Cascade(s)
        asked == FromEstimate(e)
    IN  /\ NonNegativeUsd(e)
        /\ reservations[id].status = "Absent"
        /\ \A a \in accounts : WithinLimits(a, asked)
        /\ reserved' = [a \in Account |->
             IF a \in accounts THEN AddTally(reserved[a], asked) ELSE reserved[a]]
        /\ reservations' = [reservations EXCEPT ![id] =
             [status |-> "Active", accounts |-> accounts,
              tally |-> asked, actual |-> Zero]]
        /\ UNCHANGED <<limits, usage>>

\* The holds once a reservation's tally is taken off its accounts.
WithoutHold(id) ==
    [a \in Account |->
        IF a \in reservations[id].accounts
        THEN SubTally(reserved[a], reservations[id].tally)
        ELSE reserved[a]]

\* reconcile: the hold is replaced by the actual usage, once.
Reconcile(id, actual) ==
    /\ reservations[id].status = "Active"
    /\ NonNegativeUsd(actual)
    /\ reserved' = WithoutHold(id)
    /\ usage' = [a \in Account |->
         IF a \in reservations[id].accounts
         THEN AddTally(usage[a], FromUsage(actual))
         ELSE usage[a]]
    /\ reservations' = [reservations EXCEPT ![id].status = "Reconciled",
                                            ![id].actual = actual]
    /\ UNCHANGED limits

\* Mutant: releasing does not look at the status.
ReleaseTwice(id) ==
    /\ reservations[id].status # "Absent"
    /\ reserved' = WithoutHold(id)
    /\ reservations' = [reservations EXCEPT ![id].status = "Released"]
    /\ UNCHANGED <<limits, usage>>

\* release: the hold goes and nothing is recorded as spent.
Release(id) ==
    /\ reservations[id].status = "Active"
    /\ reserved' = WithoutHold(id)
    /\ reservations' = [reservations EXCEPT ![id].status = "Released"]
    /\ UNCHANGED <<limits, usage>>

Next ==
    \/ \E a \in Account, l \in Limit : SetLimit(a, l)
    \/ \E id \in ReservationId, s \in Scope, e \in Estimate :
         ReserveWithId(id, s, e)
    \/ \E id \in ReservationId, u \in Usage : Reconcile(id, u)
    \/ \E id \in ReservationId : Release(id)

Spec == Init /\ [][Next]_vars

-----------------------------------------------------------------------------
(* Properties. *)

Reservation ==
    [status : {"Absent", "Active", "Reconciled", "Released"},
     accounts : SUBSET Account,
     tally : Tally,
     actual : Tally]

\* The shape of the state: tallies are non-negative and fit their integer
\* widths even though the code adds and subtracts without checking.
TypeOK ==
    /\ DOMAIN limits = Account
    /\ \A a \in Account : limits[a] \in Limit \cup {OpenLimit}
    /\ reserved \in [Account -> Tally]
    /\ usage \in [Account -> Tally]
    /\ reservations \in [ReservationId -> Reservation]
    /\ \A a \in Account, d \in Dimension :
         reserved[a][d] <= Cap[d] /\ usage[a][d] <= Cap[d]

\* What each active reservation holds on an account, and what each reconciled
\* one spent on it, counted from the reservations alone.  A concurrency slot is
\* given back, never spent.
HeldFor(a, d) ==
    [id \in ReservationId |->
        IF reservations[id].status = "Active" /\ a \in reservations[id].accounts
        THEN reservations[id].tally[d] ELSE 0]
SpentBy(a, d) ==
    [id \in ReservationId |->
        IF /\ reservations[id].status = "Reconciled"
           /\ a \in reservations[id].accounts
           /\ d # "concurrency_slots"
        THEN reservations[id].actual[d] ELSE 0]

ActiveHolds(a, d) == SumFunction(HeldFor(a, d))
Spent(a, d) == SumFunction(SpentBy(a, d))

\* "Active reservations count against limits until reconciled or released"
\* (contracts/resources.md): the hold an account shows is what its active
\* reservations ask for, so no close leaves a hold behind or frees one twice.
\* It needs counters wide enough for all holds together: a sum that saturated
\* is no longer the sum of its parts.
HoldsMatchActiveReservations ==
    \A a \in Account, d \in Dimension : reserved[a][d] = ActiveHolds(a, d)

\* The usage of an account is the sum of what its reconciled reservations
\* reported, capped at the width of the counter.
UsageMatchesReconciled ==
    \A a \in Account, d \in Dimension :
        usage[a][d] = Min({Cap[d], Spent(a, d)})

\* Only the tail end of work may push an account past its limit: with the limit
\* left alone, what an account has spent and holds grows past the limit only in
\* a reconcile whose actual usage exceeds the hold it replaces.
OnlyOverrunsPassLimits ==
    [][\A a \in Account : \A d \in DOMAIN limits[a] :
          LET before == Spent(a, d) + ActiveHolds(a, d)
              after == Spent(a, d)' + ActiveHolds(a, d)'
          IN  (limits'[a] = limits[a] /\ after > before /\ after > limits[a][d])
              => \E id \in ReservationId :
                    /\ reservations[id].status = "Active"
                    /\ reservations'[id].status = "Reconciled"
                    /\ reservations'[id].actual[d] > reservations[id].tally[d]]_vars

\* A closed reservation keeps its record for ever: its id is never reserved
\* again, its receipt is never rewritten, and closing it a second time frees
\* nothing.
ClosedStaysClosed ==
    [][\A id \in ReservationId :
          reservations[id].status \in {"Reconciled", "Released"} =>
              reservations'[id] = reservations[id]]_vars
=============================================================================
