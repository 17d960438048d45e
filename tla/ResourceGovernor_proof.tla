----------------------- MODULE ResourceGovernor_proof -----------------------
(***************************************************************************)
(* Proofs about the resource governor, for any set of scopes, dimensions,  *)
(* reservation ids, estimates and limits.                                  *)
(***************************************************************************)
EXTENDS ResourceGovernor, FiniteSetTheorems, WellFoundedInduction, TLAPS

-----------------------------------------------------------------------------
(* Sums of naturals over a finite set, by induction over its subsets. *)

\* A nonempty set of naturals has a least element.
LEMMA LeastNatural ==
    ASSUME NEW T \in SUBSET Nat, T # {}
    PROVE  \E m \in T : \A c \in T : m <= c
  <1> DEFINE R == OpToRel(<, Nat)
  <1>1. IsWellFoundedOn(R, Nat)
    BY NatLessThanWellFounded
  <1>2. \A c, d \in Nat : c < d => <<c, d>> \in R
    BY DEF OpToRel
  <1> HIDE DEF R
  <1>3. PICK m \in T : \A c \in T : ~ (<<c, m>> \in R)
    BY <1>1, WFMin
  <1>4. \A c \in T : ~ (c < m)
    BY <1>2, <1>3
  <1>5. \A c \in T : m <= c
    BY <1>4
  <1>6. QED
    BY <1>5

\* The order in which a sum takes the elements of a set.
First(s) == CHOOSE x \in s : TRUE
Rest(s) == s \ {First(s)}

\* Induction over the subsets of a finite set, along that order: a family that
\* contains the empty set, and every set whose rest it contains, has them all.
LEMMA SubsetInduction ==
    ASSUME NEW S, IsFiniteSet(S), NEW Good \in SUBSET SUBSET S, {} \in Good,
           \A s \in SUBSET S : s # {} /\ Rest(s) \in Good => s \in Good
    PROVE  Good = SUBSET S
  <1>1. \A s \in SUBSET S : IsFiniteSet(s) /\ Cardinality(s) \in Nat
    BY FS_Subset, FS_CardinalityType
  <1> DEFINE Bad == {n \in Nat : \E s \in SUBSET S : s \notin Good /\ Cardinality(s) = n}
  <1>2. SUFFICES ASSUME Bad # {} PROVE FALSE
    <2>1. Bad = {} => \A s \in SUBSET S : s \in Good
      BY <1>1
    <2>2. QED
      BY <2>1
  <1>3. PICK m \in Bad : \A n \in Bad : m <= n
    <2>1. Bad \in SUBSET Nat
      OBVIOUS
    <2> HIDE DEF Bad
    <2>2. QED
      BY <1>2, <2>1, LeastNatural
  <1>4. PICK s \in SUBSET S : s \notin Good /\ Cardinality(s) = m
    BY <1>3
  <1>5. s # {} /\ First(s) \in s
    BY <1>4 DEF First
  <1>6. Cardinality(Rest(s)) = m - 1 /\ Rest(s) \in SUBSET S
    <2>1. IsFiniteSet(s) /\ First(s) \in s
      BY <1>1, <1>5
    <2>2. QED
      BY <1>4, <2>1, FS_RemoveElement DEF Rest
  <1>7. Rest(s) \notin Good
    BY <1>4, <1>5
  <1>8. m - 1 \in Bad
    BY <1>1, <1>6, <1>7
  <1>9. QED
    <2>1. m \in Nat
      BY <1>3
    <2>2. m <= m - 1
      BY <1>3, <1>8
    <2>3. QED
      BY <2>1, <2>2

\* The partial sums of w: the function that SumFunction folds with.
Sums(w, S) ==
    CHOOSE f : f = [s \in SUBSET S |-> IF s = {} THEN 0 ELSE w[First(s)] + f[Rest(s)]]

\* A sum is the last of the partial sums.
LEMMA SumIsLastPartialSum ==
    ASSUME NEW w
    PROVE  SumFunction(w) = Sums(w, DOMAIN w)[DOMAIN w]
  BY DEF SumFunction, SumFunctionOnSet, FoldFunctionOnSet, MapThenFoldSet, Sums, First, Rest

\* The partial sums exist: those of the sets with at most n elements do for
\* every n.
LEMMA SumsUnfold ==
    ASSUME NEW S, IsFiniteSet(S), NEW w
    PROVE  \A s \in SUBSET S :
             Sums(w, S)[s] = IF s = {} THEN 0 ELSE w[First(s)] + Sums(w, S)[Rest(s)]
  <1> DEFINE Small(n) == {s \in SUBSET S : Cardinality(s) <= n}
             Step(f, s) == IF s = {} THEN 0 ELSE w[First(s)] + f[Rest(s)]
             Ex(n) == \E f : f = [s \in Small(n) |-> Step(f, s)]
             Bad == {n \in Nat : ~ Ex(n)}
  <1>1. \A s \in SUBSET S : IsFiniteSet(s) /\ Cardinality(s) \in Nat
    BY FS_Subset, FS_CardinalityType
  <1>2. \A n \in Nat : \A s \in Small(n) : s # {} => Rest(s) \in Small(n) /\ Rest(s) \in Small(n - 1)
    <2> SUFFICES ASSUME NEW n \in Nat, NEW s \in Small(n), s # {}
                 PROVE  Rest(s) \in Small(n) /\ Rest(s) \in Small(n - 1)
      OBVIOUS
    <2>1. First(s) \in s /\ IsFiniteSet(s) /\ Cardinality(s) \in Nat
      BY <1>1 DEF First
    <2>2. Cardinality(Rest(s)) = Cardinality(s) - 1 /\ Rest(s) \in SUBSET S
      BY <2>1, FS_RemoveElement DEF Rest
    <2>3. QED
      BY <2>1, <2>2
  <1>3. Ex(0)
    <2> DEFINE g == [s \in Small(0) |-> 0]
    <2>1. \A s \in Small(0) : s = {}
      BY <1>1, FS_EmptySet
    <2>2. g = [s \in Small(0) |-> Step(g, s)]
      BY <2>1
    <2> HIDE DEF g
    <2>3. QED
      BY <2>2
  <1>4. ASSUME NEW m \in Nat, m # 0, Ex(m - 1) PROVE Ex(m)
    <2>1. PICK g : g = [s \in Small(m - 1) |-> Step(g, s)]
      BY <1>4
    <2> DEFINE f == [s \in Small(m) |-> Step(g, s)]
    <2>2. \A s \in Small(m - 1) : s \in Small(m)
      BY <1>1
    <2> HIDE DEF Small
    <2>3. \A s \in Small(m - 1) : f[s] = g[s]
      BY <2>1, <2>2
    <2>4. \A s \in Small(m) : Step(f, s) = Step(g, s)
      BY <1>2, <2>3
    <2>5. f = [s \in Small(m) |-> Step(f, s)]
      BY <2>4
    <2> HIDE DEF f
    <2>6. QED
      BY <2>5
  <1>5. \A n \in Nat : Ex(n)
    <2> SUFFICES ASSUME Bad # {} PROVE FALSE
      OBVIOUS
    <2>1. Bad \in SUBSET Nat
      OBVIOUS
    <2>2. PICK m \in Bad : \A n \in Bad : m <= n
      <3> HIDE DEF Bad
      <3>1. QED
        BY <2>1, LeastNatural
    <2>3. m \in Nat /\ ~ Ex(m)
      OBVIOUS
    <2> HIDE DEF Ex
    <2>4. m # 0
      BY <1>3, <2>3
    <2>5. m - 1 \in Nat /\ m - 1 \notin Bad
      BY <2>2, <2>3, <2>4
    <2>6. QED
      BY <1>4, <2>3, <2>4, <2>5
  <1>6. Small(Cardinality(S)) = SUBSET S
    BY <1>1, FS_Subset
  <1>7. \E f : f = [s \in SUBSET S |-> Step(f, s)]
    <2>1. Cardinality(S) \in Nat
      BY <1>1
    <2>2. Ex(Cardinality(S))
      BY <1>5, <2>1
    <2> HIDE DEF Small
    <2>3. QED
      BY <1>6, <2>2
  <1>8. Sums(w, S) = [s \in SUBSET S |-> Step(Sums(w, S), s)]
    BY <1>7 DEF Sums
  <1>9. QED
    BY <1>8

\* A sum of naturals is one.
LEMMA SumIsNatural ==
    ASSUME NEW S, IsFiniteSet(S), NEW w \in [S -> Nat]
    PROVE  SumFunction(w) \in Nat
  <1> DEFINE Good == {s \in SUBSET S : Sums(w, S)[s] \in Nat}
  <1>1. Good \in SUBSET SUBSET S
    OBVIOUS
  <1>2. {} \in Good
    <2>1. {} \in SUBSET S /\ Sums(w, S)[{}] = 0
      BY SumsUnfold
    <2>2. QED
      BY <2>1
  <1>3. ASSUME NEW s \in SUBSET S, s # {}, Rest(s) \in Good PROVE s \in Good
    <2>1. First(s) \in S
      BY <1>3 DEF First
    <2>2. Sums(w, S)[s] = w[First(s)] + Sums(w, S)[Rest(s)]
      BY <1>3, SumsUnfold
    <2>3. QED
      BY <1>3, <2>1, <2>2
  <1>4. Good = SUBSET S
    <2> HIDE DEF Good
    <2>1. QED
      BY <1>1, <1>2, <1>3, SubsetInduction
  <1>5. QED
    BY <1>4, SumIsLastPartialSum

\* Changing one term changes a sum by as much.
LEMMA SumUpdate ==
    ASSUME NEW S, IsFiniteSet(S), NEW w \in [S -> Nat], NEW v \in [S -> Nat],
           NEW x \in S, \A y \in S : y # x => v[y] = w[y]
    PROVE  SumFunction(v) = SumFunction(w) - w[x] + v[x]
  <1> DEFINE Change(s) == IF x \in s THEN v[x] - w[x] ELSE 0
             Good == {s \in SUBSET S : /\ Sums(w, S)[s] \in Int
                                       /\ Sums(v, S)[s] = Sums(w, S)[s] + Change(s)}
  <1>1. Good \in SUBSET SUBSET S
    OBVIOUS
  <1>2. {} \in Good
    <2>1. {} \in SUBSET S /\ Sums(w, S)[{}] = 0 /\ Sums(v, S)[{}] = 0
      BY SumsUnfold
    <2>2. Change({}) = 0
      OBVIOUS
    <2>3. QED
      BY <2>1, <2>2
  <1>3. ASSUME NEW s \in SUBSET S, s # {}, Rest(s) \in Good PROVE s \in Good
    <2>1. First(s) \in S /\ First(s) \in s
      BY <1>3 DEF First
    <2>2. /\ Sums(w, S)[s] = w[First(s)] + Sums(w, S)[Rest(s)]
          /\ Sums(v, S)[s] = v[First(s)] + Sums(v, S)[Rest(s)]
      BY <1>3, SumsUnfold
    <2>3. w[First(s)] \in Nat /\ v[First(s)] \in Nat /\ w[x] \in Nat /\ v[x] \in Nat
      BY <2>1
    <2>4. CASE First(s) = x
      <3>1. x \in s /\ x \notin Rest(s)
        BY <2>1, <2>4 DEF Rest
      <3>2. QED
        BY <1>3, <2>2, <2>3, <2>4, <3>1
    <2>5. CASE First(s) # x
      <3>1. x \in s <=> x \in Rest(s)
        BY <2>5 DEF Rest
      <3>2. v[First(s)] = w[First(s)]
        BY <2>1, <2>5
      <3>3. QED
        BY <1>3, <2>2, <2>3, <3>1, <3>2
    <2>6. QED
      BY <2>4, <2>5
  <1>4. Good = SUBSET S
    <2> HIDE DEF Good
    <2>1. QED
      BY <1>1, <1>2, <1>3, SubsetInduction
  <1>5. Sums(w, S)[S] \in Int /\ Sums(v, S)[S] = Sums(w, S)[S] + (v[x] - w[x])
    BY <1>4
  <1>6. SumFunction(w) = Sums(w, S)[S] /\ SumFunction(v) = Sums(v, S)[S]
    BY SumIsLastPartialSum
  <1>7. QED
    BY <1>5, <1>6

\* A sum of zeroes is zero.
LEMMA SumOfZeroes ==
    ASSUME NEW S, IsFiniteSet(S), NEW w \in [S -> Nat], \A x \in S : w[x] = 0
    PROVE  SumFunction(w) = 0
  <1> DEFINE Good == {s \in SUBSET S : Sums(w, S)[s] = 0}
  <1>1. Good \in SUBSET SUBSET S
    OBVIOUS
  <1>2. {} \in Good
    BY SumsUnfold
  <1>3. ASSUME NEW s \in SUBSET S, s # {}, Rest(s) \in Good PROVE s \in Good
    <2>1. First(s) \in S
      BY <1>3 DEF First
    <2>2. Sums(w, S)[s] = w[First(s)] + Sums(w, S)[Rest(s)]
      BY <1>3, SumsUnfold
    <2>3. QED
      BY <1>3, <2>1, <2>2
  <1>4. Good = SUBSET S
    <2> HIDE DEF Good
    <2>1. QED
      BY <1>1, <1>2, <1>3, SubsetInduction
  <1>5. QED
    BY <1>4, SumIsLastPartialSum

-----------------------------------------------------------------------------
(* The type invariant. *)

\* Tallies that fit the integer widths of their dimensions.
Bounded == {t \in Tally : \A d \in Dimension : t[d] <= Cap[d]}

\* Saturating addition and subtraction stay within the widths.
LEMMA AddBounded ==
    ASSUME NEW t \in Bounded, NEW o \in Bounded
    PROVE  AddTally(t, o) \in Bounded
  BY CapAssumption DEF AddTally, Bounded, Tally

\* Taking a hold off a tally keeps it between zero and its cap.
LEMMA SubBounded ==
    ASSUME NEW t \in Bounded, NEW o \in Tally
    PROVE  SubTally(t, o) \in Bounded
  BY CapAssumption DEF SubTally, Bounded, Tally

\* An estimate and a usage that passed validation are tallies: the one signed
\* dimension, usd, is not negative.
LEMMA EstimateBounded ==
    ASSUME NEW e \in Estimate, NonNegativeUsd(e)
    PROVE  FromEstimate(e) \in Bounded
  BY EstimateAssumption, CapAssumption DEF NonNegativeUsd, FromEstimate, Bounded, Tally

\* A valid usage report is a tally within the caps.
LEMMA UsageBounded ==
    ASSUME NEW u \in Usage, NonNegativeUsd(u)
    PROVE  u \in Bounded /\ FromUsage(u) \in Bounded
  <1>1. /\ u \in [Dimension -> Int]
        /\ \A d \in Dimension : u[d] <= Cap[d] /\ u[d] >= 0
    BY UsageAssumption DEF NonNegativeUsd
  <1>2. u \in Bounded
    BY <1>1, CapAssumption DEF Bounded, Tally
  <1>3. FromUsage(u) \in Bounded
    BY <1>1, CapAssumption DEF FromUsage, Bounded, Tally
  <1>4. QED
    BY <1>2, <1>3

\* The type invariant in terms of bounded tallies.
LEMMA TypeOKBounded ==
    TypeOK <=> /\ DOMAIN limits = Account
               /\ \A a \in Account : limits[a] \in Limit \cup {OpenLimit}
               /\ reserved \in [Account -> Bounded]
               /\ usage \in [Account -> Bounded]
               /\ reservations \in [ReservationId -> Reservation]
  BY DEF TypeOK, Bounded

\* Taking a reservation's tally off its accounts keeps the holds bounded.
LEMMA WithoutHoldBounded ==
    ASSUME TypeOK, NEW id \in ReservationId
    PROVE  WithoutHold(id) \in [Account -> Bounded]
  <1>1. reserved \in [Account -> Bounded] /\ reservations[id].tally \in Tally
    BY TypeOKBounded DEF Reservation
  <1>2. QED
    BY <1>1, SubBounded DEF WithoutHold

\* Every step preserves the type invariant.
LEMMA TypeStep == TypeOK /\ [Next]_vars => TypeOK'
  <1> SUFFICES ASSUME TypeOK, [Next]_vars PROVE TypeOK'
    OBVIOUS
  <1>t. /\ DOMAIN limits = Account
        /\ \A a \in Account : limits[a] \in Limit \cup {OpenLimit}
        /\ reserved \in [Account -> Bounded]
        /\ usage \in [Account -> Bounded]
        /\ reservations \in [ReservationId -> Reservation]
    BY TypeOKBounded
  <1>b. \A t \in Bounded : t \in Tally
    BY DEF Bounded
  <1>z. Zero \in Tally
    BY DEF Zero, Tally
  <1> DEFINE Good == /\ DOMAIN limits = Account
                     /\ \A a \in Account : limits[a] \in Limit \cup {OpenLimit}
                     /\ reserved \in [Account -> Bounded]
                     /\ usage \in [Account -> Bounded]
                     /\ reservations \in [ReservationId -> Reservation]
  <1>g. Good' => TypeOK'
    BY DEF TypeOK, Bounded
  <1>1. ASSUME NEW a \in Account, NEW l \in Limit, SetLimit(a, l) PROVE TypeOK'
    <2>1. /\ DOMAIN limits' = Account
          /\ \A b \in Account : limits'[b] \in Limit \cup {OpenLimit}
      BY <1>1, <1>t DEF SetLimit
    <2>2. QED
      BY <1>1, <1>t, <1>g, <2>1 DEF SetLimit
  <1>2. ASSUME NEW id \in ReservationId, NEW s \in Scope, NEW e \in Estimate,
               ReserveWithId(id, s, e)
        PROVE  TypeOK'
    <2>1. FromEstimate(e) \in Bounded
      BY <1>2, EstimateBounded DEF ReserveWithId
    <2>2. reserved' \in [Account -> Bounded]
      BY <1>2, <1>t, <2>1, AddBounded DEF ReserveWithId
    <2>3. Cascade(s) \subseteq Account
      BY DEF Account
    <2>4. [status |-> "Active", accounts |-> Cascade(s),
           tally |-> FromEstimate(e), actual |-> Zero] \in Reservation
      BY <1>b, <1>z, <2>1, <2>3 DEF Reservation
    <2>5. reservations' \in [ReservationId -> Reservation]
      BY <1>2, <1>t, <2>4 DEF ReserveWithId
    <2>6. QED
      BY <1>2, <1>t, <1>g, <2>2, <2>5 DEF ReserveWithId
  <1>3. ASSUME NEW id \in ReservationId, NEW u \in Usage, Reconcile(id, u) PROVE TypeOK'
    <2>1. u \in Tally /\ FromUsage(u) \in Bounded
      BY <1>3, <1>b, UsageBounded DEF Reconcile
    <2>2. reserved' \in [Account -> Bounded]
      BY <1>3, WithoutHoldBounded DEF Reconcile
    <2>3. usage' \in [Account -> Bounded]
      BY <1>3, <1>t, <2>1, AddBounded DEF Reconcile
    <2>4. reservations' \in [ReservationId -> Reservation]
      BY <1>3, <1>t, <2>1 DEF Reconcile, Reservation
    <2>5. QED
      BY <1>3, <1>t, <1>g, <2>2, <2>3, <2>4 DEF Reconcile
  <1>4. ASSUME NEW id \in ReservationId, Release(id) PROVE TypeOK'
    <2>1. reserved' \in [Account -> Bounded]
      BY <1>4, WithoutHoldBounded DEF Release
    <2>2. reservations' \in [ReservationId -> Reservation]
      BY <1>4, <1>t DEF Release, Reservation
    <2>3. QED
      BY <1>4, <1>t, <1>g, <2>1, <2>2 DEF Release
  <1>5. CASE UNCHANGED vars
    BY <1>5, <1>t, <1>g DEF vars
  <1>6. QED
    BY <1>1, <1>2, <1>3, <1>4, <1>5 DEF Next

\* No sequence of reserves, reconciles and releases drives a tally below zero
\* or past the width of its integer, for any estimates and usages callers send.
THEOREM TypeCorrect == Spec => []TypeOK
  <1>1. Init => TypeOK
    <2> SUFFICES ASSUME Init PROVE TypeOK
      OBVIOUS
    <2>1. Zero \in Bounded /\ Zero \in Tally
      BY CapAssumption DEF Zero, Bounded, Tally
    <2>2. NoReservation \in Reservation
      BY <2>1 DEF NoReservation, Reservation
    <2>3. QED
      BY <2>1, <2>2, TypeOKBounded DEF Init
  <1>2. QED
    BY <1>1, TypeStep, PTL DEF Spec

\* A closed reservation keeps its receipt for ever: it can be neither closed
\* again nor reserved again under the same id.
THEOREM ReceiptIsFinal == Spec => ClosedStaysClosed
  <1>1. TypeOK /\ [Next]_vars =>
          [\A id \in ReservationId :
              reservations[id].status \in {"Reconciled", "Released"} =>
                  reservations'[id] = reservations[id]]_vars
    <2> SUFFICES ASSUME TypeOK, Next, NEW id \in ReservationId,
                        reservations[id].status \in {"Reconciled", "Released"}
                 PROVE  reservations'[id] = reservations[id]
      OBVIOUS
    <2>1. reservations \in [ReservationId -> Reservation]
      BY DEF TypeOK
    <2>2. QED
      BY <2>1 DEF Next, SetLimit, ReserveWithId, Reconcile, Release
  <1>2. QED
    BY <1>1, TypeCorrect, PTL DEF Spec, ClosedStaysClosed

-----------------------------------------------------------------------------

\* The terms of both sums are naturals before a step.
LEMMA TermsAreNatural ==
    ASSUME TypeOK, NEW a \in Account, NEW d \in Dimension
    PROVE  HeldFor(a, d) \in [ReservationId -> Nat] /\ SpentBy(a, d) \in [ReservationId -> Nat]
  BY DEF TypeOK, Reservation, Tally, HeldFor, SpentBy

\* The same after the step.
LEMMA NextTermsAreNatural ==
    ASSUME TypeOK', NEW a \in Account, NEW d \in Dimension
    PROVE  HeldFor(a, d)' \in [ReservationId -> Nat] /\ SpentBy(a, d)' \in [ReservationId -> Nat]
  BY DEF TypeOK, Reservation, Tally, HeldFor, SpentBy

\* A step that rewrites one reservation moves both sums by its terms alone.
LEMMA OneTermChanges ==
    ASSUME TypeOK, TypeOK', NEW id \in ReservationId,
           \A j \in ReservationId : j # id => reservations'[j] = reservations[j],
           NEW a \in Account, NEW d \in Dimension
    PROVE  /\ ActiveHolds(a, d) \in Nat /\ ActiveHolds(a, d)' \in Nat
           /\ Spent(a, d) \in Nat /\ Spent(a, d)' \in Nat
           /\ ActiveHolds(a, d)' = ActiveHolds(a, d) - HeldFor(a, d)[id] + HeldFor(a, d)'[id]
           /\ Spent(a, d)' = Spent(a, d) - SpentBy(a, d)[id] + SpentBy(a, d)'[id]
  <1>1. /\ HeldFor(a, d) \in [ReservationId -> Nat] /\ SpentBy(a, d) \in [ReservationId -> Nat]
        /\ HeldFor(a, d)' \in [ReservationId -> Nat] /\ SpentBy(a, d)' \in [ReservationId -> Nat]
    BY TermsAreNatural, NextTermsAreNatural
  <1>2. \A j \in ReservationId : j # id => /\ HeldFor(a, d)'[j] = HeldFor(a, d)[j]
                                          /\ SpentBy(a, d)'[j] = SpentBy(a, d)[j]
    BY DEF HeldFor, SpentBy
  <1>3. /\ ActiveHolds(a, d) \in Nat /\ ActiveHolds(a, d)' \in Nat
        /\ Spent(a, d) \in Nat /\ Spent(a, d)' \in Nat
    BY <1>1, ReservationIdAssumption, SumIsNatural DEF ActiveHolds, Spent
  <1>4. ActiveHolds(a, d)' = ActiveHolds(a, d) - HeldFor(a, d)[id] + HeldFor(a, d)'[id]
    BY <1>1, <1>2, ReservationIdAssumption, SumUpdate DEF ActiveHolds
  <1>5. Spent(a, d)' = Spent(a, d) - SpentBy(a, d)[id] + SpentBy(a, d)'[id]
    BY <1>1, <1>2, ReservationIdAssumption, SumUpdate DEF Spent
  <1>6. QED
    BY <1>3, <1>4, <1>5

\* A step that leaves the reservations alone leaves both sums alone.
LEMMA SumsUnchanged ==
    ASSUME UNCHANGED reservations, NEW a \in Account, NEW d \in Dimension
    PROVE  ActiveHolds(a, d)' = ActiveHolds(a, d) /\ Spent(a, d)' = Spent(a, d)
  <1>1. HeldFor(a, d)' = HeldFor(a, d) /\ SpentBy(a, d)' = SpentBy(a, d)
    BY DEF HeldFor, SpentBy
  <1>2. QED
    BY <1>1 DEF ActiveHolds, Spent

\* A reserve adds the request to the holds of its cascade, and spends nothing.
LEMMA ReserveSums ==
    ASSUME TypeOK, TypeOK', NEW id \in ReservationId, NEW s \in Scope, NEW e \in Estimate,
           ReserveWithId(id, s, e), NEW a \in Account, NEW d \in Dimension
    PROVE  /\ ActiveHolds(a, d) \in Nat /\ Spent(a, d) \in Nat
           /\ FromEstimate(e)[d] \in Nat
           /\ Spent(a, d)' = Spent(a, d)
           /\ ActiveHolds(a, d)' =
                ActiveHolds(a, d) + (IF a \in Cascade(s) THEN FromEstimate(e)[d] ELSE 0)
  <1> DEFINE new == [status |-> "Active", accounts |-> Cascade(s),
                     tally |-> FromEstimate(e), actual |-> Zero]
  <1>1. /\ reservations[id].status = "Absent"
        /\ reservations' = [reservations EXCEPT ![id] = new]
        /\ reservations \in [ReservationId -> Reservation]
    BY DEF ReserveWithId, TypeOK
  <1>2. reservations'[id] = new /\ \A j \in ReservationId : j # id => reservations'[j] = reservations[j]
    BY <1>1
  <1>3. FromEstimate(e)[d] \in Nat
    BY EstimateBounded DEF ReserveWithId, Bounded, Tally
  <1>4. HeldFor(a, d)[id] = 0 /\ SpentBy(a, d)[id] = 0
    BY <1>1 DEF HeldFor, SpentBy
  <1>5. /\ HeldFor(a, d)'[id] = IF a \in Cascade(s) THEN FromEstimate(e)[d] ELSE 0
        /\ SpentBy(a, d)'[id] = 0
    BY <1>2 DEF HeldFor, SpentBy
  <1>6. /\ ActiveHolds(a, d) \in Nat /\ Spent(a, d) \in Nat
        /\ ActiveHolds(a, d)' = ActiveHolds(a, d) - HeldFor(a, d)[id] + HeldFor(a, d)'[id]
        /\ Spent(a, d)' = Spent(a, d) - SpentBy(a, d)[id] + SpentBy(a, d)'[id]
    BY <1>2, OneTermChanges
  <1>7. QED
    BY <1>3, <1>4, <1>5, <1>6

\* A reconcile takes the hold off its accounts, and spends what it reports.
LEMMA ReconcileSums ==
    ASSUME TypeOK, TypeOK', NEW id \in ReservationId, NEW u \in Usage, Reconcile(id, u),
           NEW a \in Account, NEW d \in Dimension
    PROVE  LET mine == a \in reservations[id].accounts
           IN  /\ ActiveHolds(a, d) \in Nat /\ ActiveHolds(a, d)' \in Nat /\ Spent(a, d) \in Nat
               /\ reservations[id].tally[d] \in Nat /\ FromUsage(u)[d] \in Nat
               /\ ActiveHolds(a, d) = ActiveHolds(a, d)'
                    + (IF mine THEN reservations[id].tally[d] ELSE 0)
               /\ Spent(a, d)' = Spent(a, d) + (IF mine THEN FromUsage(u)[d] ELSE 0)
  <1>1. /\ reservations \in [ReservationId -> Reservation] /\ reservations[id].tally[d] \in Nat
        /\ reservations[id].status = "Active" /\ NonNegativeUsd(u)
    BY DEF TypeOK, Reservation, Tally, Reconcile
  <1>2. /\ reservations'[id].status = "Reconciled" /\ reservations'[id].actual = u
        /\ reservations'[id].accounts = reservations[id].accounts
        /\ \A j \in ReservationId : j # id => reservations'[j] = reservations[j]
    BY <1>1 DEF Reservation, Reconcile
  <1>3. FromUsage(u)[d] \in Nat /\ u[d] \in Nat
    BY <1>1, UsageBounded DEF Bounded, Tally
  <1>4. /\ HeldFor(a, d)[id] = IF a \in reservations[id].accounts
                               THEN reservations[id].tally[d] ELSE 0
        /\ SpentBy(a, d)[id] = 0
    BY <1>1 DEF HeldFor, SpentBy
  <1>5. /\ HeldFor(a, d)'[id] = 0
        /\ SpentBy(a, d)'[id] = IF a \in reservations[id].accounts THEN FromUsage(u)[d] ELSE 0
    BY <1>2 DEF HeldFor, SpentBy, FromUsage
  <1>6. /\ ActiveHolds(a, d) \in Nat /\ ActiveHolds(a, d)' \in Nat /\ Spent(a, d) \in Nat
        /\ ActiveHolds(a, d)' = ActiveHolds(a, d) - HeldFor(a, d)[id] + HeldFor(a, d)'[id]
        /\ Spent(a, d)' = Spent(a, d) - SpentBy(a, d)[id] + SpentBy(a, d)'[id]
    BY <1>2, OneTermChanges
  <1>7. QED
    BY <1>1, <1>3, <1>4, <1>5, <1>6

\* A release takes the hold off its accounts, and spends nothing.
LEMMA ReleaseSums ==
    ASSUME TypeOK, TypeOK', NEW id \in ReservationId, Release(id),
           NEW a \in Account, NEW d \in Dimension
    PROVE  /\ ActiveHolds(a, d) \in Nat /\ ActiveHolds(a, d)' \in Nat /\ Spent(a, d) \in Nat
           /\ reservations[id].tally[d] \in Nat
           /\ ActiveHolds(a, d) = ActiveHolds(a, d)'
                + (IF a \in reservations[id].accounts THEN reservations[id].tally[d] ELSE 0)
           /\ Spent(a, d)' = Spent(a, d)
  <1>1. /\ reservations \in [ReservationId -> Reservation] /\ reservations[id].tally[d] \in Nat
        /\ reservations[id].status = "Active"
    BY DEF TypeOK, Reservation, Tally, Release
  <1>2. /\ reservations'[id].status = "Released"
        /\ \A j \in ReservationId : j # id => reservations'[j] = reservations[j]
    BY <1>1 DEF Reservation, Release
  <1>3. /\ HeldFor(a, d)[id] = IF a \in reservations[id].accounts
                               THEN reservations[id].tally[d] ELSE 0
        /\ SpentBy(a, d)[id] = 0 /\ HeldFor(a, d)'[id] = 0 /\ SpentBy(a, d)'[id] = 0
    BY <1>1, <1>2 DEF HeldFor, SpentBy
  <1>4. /\ ActiveHolds(a, d) \in Nat /\ ActiveHolds(a, d)' \in Nat /\ Spent(a, d) \in Nat
        /\ ActiveHolds(a, d)' = ActiveHolds(a, d) - HeldFor(a, d)[id] + HeldFor(a, d)'[id]
        /\ Spent(a, d)' = Spent(a, d) - SpentBy(a, d)[id] + SpentBy(a, d)'[id]
    BY <1>2, OneTermChanges
  <1>5. QED
    BY <1>1, <1>3, <1>4

-----------------------------------------------------------------------------

\* Nothing is held and nothing is spent before the first reserve.
LEMMA InitialSums ==
    ASSUME Init, NEW a \in Account, NEW d \in Dimension
    PROVE  ActiveHolds(a, d) = 0 /\ Spent(a, d) = 0 /\ reserved[a][d] = 0 /\ usage[a][d] = 0
  <1>1. \A id \in ReservationId : HeldFor(a, d)[id] = 0 /\ SpentBy(a, d)[id] = 0
    BY DEF Init, NoReservation, HeldFor, SpentBy
  <1>2. HeldFor(a, d) \in [ReservationId -> Nat] /\ SpentBy(a, d) \in [ReservationId -> Nat]
    <2> DEFINE h == HeldFor(a, d)
               p == SpentBy(a, d)
    <2>1. h = [id \in ReservationId |-> h[id]] /\ p = [id \in ReservationId |-> p[id]]
      BY DEF HeldFor, SpentBy
    <2>2. \A id \in ReservationId : h[id] = 0 /\ p[id] = 0
      BY <1>1
    <2> HIDE DEF h, p
    <2>3. h \in [ReservationId -> Nat] /\ p \in [ReservationId -> Nat]
      BY <2>1, <2>2
    <2>4. QED
      BY <2>3 DEF h, p
  <1>3. ActiveHolds(a, d) = 0 /\ Spent(a, d) = 0
    BY <1>1, <1>2, ReservationIdAssumption, SumOfZeroes DEF ActiveHolds, Spent
  <1>4. QED
    BY <1>3 DEF Init, Zero

\* The usage counter of an account and a dimension is the sum of its receipts,
\* cut off at its width.
Recorded(a, d) == usage[a][d] = IF Spent(a, d) > Cap[d] THEN Cap[d] ELSE Spent(a, d)

\* Every step keeps the counter in line with the receipts: a reconcile adds
\* what it reports to both, and nothing else touches either.
LEMMA RecordedStep ==
    ASSUME TypeOK, TypeOK', [Next]_vars, NEW a \in Account, NEW d \in Dimension, Recorded(a, d)
    PROVE  Recorded(a, d)'
  <1>1. CASE UNCHANGED <<usage, reservations>>
    BY <1>1, SumsUnchanged DEF Recorded
  <1>2. ASSUME NEW id \in ReservationId, NEW s \in Scope, NEW e \in Estimate,
               ReserveWithId(id, s, e)
        PROVE  Recorded(a, d)'
    <2>1. Spent(a, d)' = Spent(a, d) /\ usage' = usage
      BY <1>2, ReserveSums DEF ReserveWithId
    <2>2. QED
      BY <2>1 DEF Recorded
  <1>3. ASSUME NEW id \in ReservationId, NEW u \in Usage, Reconcile(id, u)
        PROVE  Recorded(a, d)'
    <2>1. /\ Spent(a, d) \in Nat /\ FromUsage(u)[d] \in Nat
          /\ Spent(a, d)' = Spent(a, d)
               + (IF a \in reservations[id].accounts THEN FromUsage(u)[d] ELSE 0)
      BY <1>3, ReconcileSums
    <2>2. usage'[a] = IF a \in reservations[id].accounts
                      THEN AddTally(usage[a], FromUsage(u)) ELSE usage[a]
      BY <1>3 DEF Reconcile
    <2>3. Cap[d] \in Nat
      BY CapAssumption
    <2>4. CASE a \in reservations[id].accounts
      <3>1. usage'[a][d] = IF usage[a][d] + FromUsage(u)[d] > Cap[d] THEN Cap[d]
                           ELSE usage[a][d] + FromUsage(u)[d]
        BY <2>2, <2>4 DEF AddTally
      <3>2. QED
        BY <2>1, <2>3, <2>4, <3>1 DEF Recorded
    <2>5. CASE a \notin reservations[id].accounts
      BY <2>1, <2>2, <2>5 DEF Recorded
    <2>6. QED
      BY <2>4, <2>5
  <1>4. ASSUME NEW id \in ReservationId, Release(id) PROVE Recorded(a, d)'
    <2>1. Spent(a, d)' = Spent(a, d) /\ usage' = usage
      BY <1>4, ReleaseSums DEF Release
    <2>2. QED
      BY <2>1 DEF Recorded
  <1>5. QED
    BY <1>1, <1>2, <1>3, <1>4 DEF Next, SetLimit, vars

\* The smaller of a set of two integers.
LEMMA MinOfTwo ==
    ASSUME NEW x \in Int, NEW y \in Int
    PROVE  Min({x, y}) = IF y > x THEN x ELSE y
  <1>1. \E m \in {x, y} : \A z \in {x, y} : m <= z
    OBVIOUS
  <1>2. Min({x, y}) \in {x, y} /\ \A z \in {x, y} : Min({x, y}) <= z
    BY <1>1 DEF Min
  <1>3. QED
    BY <1>2

\* No spending is lost or counted twice: at every moment the usage of an account
\* is the sum of what its reconciled reservations reported, up to the width of
\* the counter, however many reservations were opened and in whatever order
\* they were closed.
THEOREM UsageIsSumOfReceipts == Spec => []UsageMatchesReconciled
  <1> DEFINE Inv == \A a \in Account, d \in Dimension : Recorded(a, d)
  <1>1. Init => Inv
    BY InitialSums, CapAssumption DEF Recorded
  <1>2. TypeOK /\ TypeOK' /\ Inv /\ [Next]_vars => Inv'
    BY RecordedStep
  <1>3. TypeOK /\ Inv => UsageMatchesReconciled
    <2> SUFFICES ASSUME TypeOK, Inv, NEW a \in Account, NEW d \in Dimension
                 PROVE  usage[a][d] = Min({Cap[d], Spent(a, d)})
      BY DEF UsageMatchesReconciled
    <2>1. Cap[d] \in Int /\ Spent(a, d) \in Nat
      BY CapAssumption, TermsAreNatural, ReservationIdAssumption, SumIsNatural DEF Spent
    <2>2. Min({Cap[d], Spent(a, d)}) = IF Spent(a, d) > Cap[d] THEN Cap[d] ELSE Spent(a, d)
      BY <2>1, MinOfTwo
    <2>3. QED
      BY <2>2 DEF Recorded
  <1> HIDE DEF Inv
  <1>4. QED
    BY <1>1, <1>2, <1>3, TypeCorrect, PTL DEF Spec

-----------------------------------------------------------------------------

\* What an account is charged for a hold is never more than its active
\* reservations ask for, and all of it as long as their sum fits the counter.
Covered(a, d) == reserved[a][d] <= ActiveHolds(a, d)
Exact(a, d) == reserved[a][d] = ActiveHolds(a, d)

\* Every sum of active holds fits the counter it is kept in.
HoldsFit == \A a \in Account, d \in Dimension : ActiveHolds(a, d) <= Cap[d]

\* Every step keeps the holds covered, and exact where the new sum still fits.
LEMMA HoldStep ==
    ASSUME TypeOK, TypeOK', [Next]_vars, NEW a \in Account, NEW d \in Dimension
    PROVE  /\ Covered(a, d) => Covered(a, d)'
           /\ Exact(a, d) /\ ActiveHolds(a, d)' <= Cap[d] => Exact(a, d)'
  <1>0. reserved[a][d] \in Nat /\ Cap[d] \in Nat
    BY CapAssumption DEF TypeOK, Tally
  <1>1. CASE UNCHANGED <<reserved, reservations>>
    BY <1>1, SumsUnchanged DEF Covered, Exact
  <1>2. ASSUME NEW id \in ReservationId, NEW s \in Scope, NEW e \in Estimate,
               ReserveWithId(id, s, e)
        PROVE  /\ Covered(a, d) => Covered(a, d)'
               /\ Exact(a, d) /\ ActiveHolds(a, d)' <= Cap[d] => Exact(a, d)'
    <2> DEFINE asked == FromEstimate(e)[d]
    <2>1. /\ ActiveHolds(a, d) \in Nat /\ asked \in Nat
          /\ ActiveHolds(a, d)' = ActiveHolds(a, d) + (IF a \in Cascade(s) THEN asked ELSE 0)
      BY <1>2, ReserveSums
    <2>2. reserved'[a][d] = IF a \in Cascade(s)
                            THEN IF reserved[a][d] + asked > Cap[d] THEN Cap[d]
                                 ELSE reserved[a][d] + asked
                            ELSE reserved[a][d]
      BY <1>2 DEF ReserveWithId, AddTally
    <2> HIDE DEF asked
    <2>3. QED
      BY <1>0, <2>1, <2>2 DEF Covered, Exact
  <1>3. ASSUME NEW id \in ReservationId, reserved' = WithoutHold(id),
               reservations[id].tally[d] \in Nat,
               ActiveHolds(a, d) \in Nat, ActiveHolds(a, d)' \in Nat,
               ActiveHolds(a, d) = ActiveHolds(a, d)'
                  + (IF a \in reservations[id].accounts THEN reservations[id].tally[d] ELSE 0)
        PROVE  /\ Covered(a, d) => Covered(a, d)'
               /\ Exact(a, d) => Exact(a, d)'
    <2> DEFINE held == reservations[id].tally[d]
    <2>1. reserved'[a][d] = IF a \in reservations[id].accounts
                            THEN IF reserved[a][d] - held < 0 THEN 0 ELSE reserved[a][d] - held
                            ELSE reserved[a][d]
      BY <1>3 DEF WithoutHold, SubTally
    <2>2. held \in Nat /\ ActiveHolds(a, d) = ActiveHolds(a, d)'
              + (IF a \in reservations[id].accounts THEN held ELSE 0)
      BY <1>3
    <2> HIDE DEF held
    <2>3. QED
      BY <1>0, <1>3, <2>1, <2>2 DEF Covered, Exact
  <1>4. ASSUME NEW id \in ReservationId, NEW u \in Usage, Reconcile(id, u)
        PROVE  /\ Covered(a, d) => Covered(a, d)'
               /\ Exact(a, d) => Exact(a, d)'
    <2>1. reserved' = WithoutHold(id)
      BY <1>4 DEF Reconcile
    <2>2. QED
      BY <1>3, <1>4, <2>1, ReconcileSums
  <1>5. ASSUME NEW id \in ReservationId, Release(id)
        PROVE  /\ Covered(a, d) => Covered(a, d)'
               /\ Exact(a, d) => Exact(a, d)'
    <2>1. reserved' = WithoutHold(id)
      BY <1>5 DEF Release
    <2>2. QED
      BY <1>3, <1>5, <2>1, ReleaseSums
  <1>6. QED
    BY <1>1, <1>2, <1>4, <1>5 DEF Next, SetLimit, vars

\* No hold outlives its reservation: an account is never charged more than its
\* active reservations ask for, whatever saturates, so an account without
\* active reservations is charged nothing.
THEOREM HoldsNeverLeak ==
    Spec => [](\A a \in Account, d \in Dimension : reserved[a][d] <= ActiveHolds(a, d))
  <1> DEFINE Inv == \A a \in Account, d \in Dimension : reserved[a][d] <= ActiveHolds(a, d)
  <1>1. Init => Inv
    BY InitialSums
  <1>2. TypeOK /\ TypeOK' /\ Inv /\ [Next]_vars => Inv'
    BY HoldStep DEF Covered
  <1> HIDE DEF Inv
  <1>3. Spec => []Inv
    BY <1>1, <1>2, TypeCorrect, PTL DEF Spec
  <1>4. QED
    BY <1>3 DEF Inv

\* Active reservations count against limits until they are closed: as long as
\* the sums of the active holds fit their counters, what an account shows as
\* reserved is exactly what its active reservations ask for.
THEOREM HoldsAreExact == Spec /\ []HoldsFit => []HoldsMatchActiveReservations
  <1>1. Init => HoldsMatchActiveReservations
    BY InitialSums DEF HoldsMatchActiveReservations
  <1>2. TypeOK /\ TypeOK' /\ HoldsFit' /\ HoldsMatchActiveReservations /\ [Next]_vars
          => HoldsMatchActiveReservations'
    BY HoldStep DEF Exact, HoldsFit, HoldsMatchActiveReservations
  <1>3. QED
    BY <1>1, <1>2, TypeCorrect, PTL DEF Spec

\* A limit at the very top of a counter that saturates when it is checked is no
\* limit: the capped total never exceeds it.  The checks of usd and of the u32
\* dimensions cannot wrap, so there any limit works.
LimitsBite ==
    \A l \in Limit : \A d \in DOMAIN l :
        d = "usd" \/ d \in U32Dimension \/ l[d] < Cap[d]

\* A request that a limited account absorbs fits below its limit.
LEMMA AbsorbedFits ==
    ASSUME TypeOK, LimitsBite, NEW a \in Account, NEW d \in DOMAIN limits[a],
           NEW asked \in Bounded, WithinLimits(a, asked),
           NEW s \in Nat, usage[a][d] = IF s > Cap[d] THEN Cap[d] ELSE s
    PROVE  asked[d] = 0 \/ s + reserved[a][d] + asked[d] <= limits[a][d]
  <1>1. limits[a] \in Limit
    <2>1. limits[a] \in Limit \cup {OpenLimit} /\ DOMAIN OpenLimit = {}
      BY DEF TypeOK, OpenLimit
    <2>2. QED
      BY <2>1
  <1>2. /\ d \in Dimension /\ limits[a][d] \in Int /\ limits[a][d] <= Cap[d]
        /\ d = "usd" \/ d \in U32Dimension \/ limits[a][d] < Cap[d]
    BY <1>1, LimitAssumption DEF LimitsBite
  <1>3. /\ Cap[d] \in Nat /\ reserved[a][d] \in Nat /\ usage[a][d] \in Nat
        /\ asked[d] \in Nat
    BY <1>2, CapAssumption DEF TypeOK, Tally, Bounded
  <1>4. ~ Exceeds(d, limits[a][d], usage[a][d], reserved[a][d], asked[d])
    BY DEF WithinLimits
  <1> DEFINE lim == limits[a][d]
             use == usage[a][d]
             held == reserved[a][d]
             ask == asked[d]
             cap == Cap[d]
  <1>5. use + held + ask <= lim
    <2>1. CASE d = "usd"
      <3>1. ~ (use + held + ask > lim)
        BY <1>4, <2>1 DEF Exceeds, U32Dimension
      <3>2. QED
        BY <1>2, <1>3, <3>1
    <2>2. CASE d # "usd" /\ d \in U32Dimension
      <3>1. ~ (use + held + ask > lim)
        BY <1>4, <2>2 DEF Exceeds
      <3>2. QED
        BY <1>2, <1>3, <3>1
    <2>3. CASE d # "usd" /\ d \notin U32Dimension
      <3>1. ~ ((IF use + held + ask > cap THEN cap ELSE use + held + ask) > lim)
        BY <1>4, <2>3 DEF Exceeds
      <3>2. lim < cap
        BY <1>2, <2>3
      <3>3. QED
        BY <1>2, <1>3, <3>1, <3>2
    <2>4. QED
      BY <2>1, <2>2, <2>3
  <1>6. QED
    BY <1>2, <1>3, <1>5

\* Only a reconcile that reports more than its reservation held takes an account
\* further past a limit: reserves stop at it, releases and limit changes add
\* nothing.  It holds while the sums of holds fit their counters.
THEOREM OverrunsAlonePassLimits ==
    ASSUME LimitsBite
    PROVE  Spec /\ []HoldsFit => OnlyOverrunsPassLimits
  <1> DEFINE Overrun(a, d) ==
               \E id \in ReservationId :
                  /\ reservations[id].status = "Active"
                  /\ reservations'[id].status = "Reconciled"
                  /\ reservations'[id].actual[d] > reservations[id].tally[d]
             Grows(a, d) ==
               LET before == Spent(a, d) + ActiveHolds(a, d)
                   after == Spent(a, d)' + ActiveHolds(a, d)'
               IN  limits'[a] = limits[a] /\ after > before /\ after > limits[a][d]
             Step == \A a \in Account : \A d \in DOMAIN limits[a] : Grows(a, d) => Overrun(a, d)
  <1>1. ASSUME TypeOK, TypeOK', HoldsMatchActiveReservations, UsageMatchesReconciled, Next
        PROVE  Step
    <2> SUFFICES ASSUME NEW a \in Account, NEW d \in DOMAIN limits[a], Grows(a, d)
                 PROVE  Overrun(a, d)
      OBVIOUS
    <2>d. d \in Dimension
      <3>1. limits[a] \in Limit \cup {OpenLimit} /\ DOMAIN OpenLimit = {}
        BY <1>1 DEF TypeOK, OpenLimit
      <3>2. limits[a] \in Limit
        BY <3>1
      <3>3. QED
        BY <3>2, LimitAssumption
    <2>s. Spent(a, d) \in Nat /\ ActiveHolds(a, d) \in Nat
      BY <1>1, <2>d, TermsAreNatural, ReservationIdAssumption, SumIsNatural DEF Spent, ActiveHolds
    <2>1. ASSUME NEW b \in Account, NEW l \in Limit, SetLimit(b, l) PROVE FALSE
      <3>1. Spent(a, d)' = Spent(a, d) /\ ActiveHolds(a, d)' = ActiveHolds(a, d)
        BY <2>1, <2>d, SumsUnchanged DEF SetLimit
      <3>2. QED
        BY <2>s, <3>1
    <2>2. ASSUME NEW id \in ReservationId, NEW s \in Scope, NEW e \in Estimate,
                 ReserveWithId(id, s, e)
          PROVE  FALSE
      <3>1. /\ FromEstimate(e)[d] \in Nat /\ Spent(a, d)' = Spent(a, d)
            /\ ActiveHolds(a, d)' = ActiveHolds(a, d)
                 + (IF a \in Cascade(s) THEN FromEstimate(e)[d] ELSE 0)
        BY <1>1, <2>2, <2>d, ReserveSums
      <3>2. a \in Cascade(s) /\ FromEstimate(e)[d] # 0
        BY <2>s, <3>1
      <3>3. FromEstimate(e) \in Bounded /\ WithinLimits(a, FromEstimate(e))
        BY <2>2, <3>2, EstimateBounded DEF ReserveWithId
      <3>4. /\ usage[a][d] = IF Spent(a, d) > Cap[d] THEN Cap[d] ELSE Spent(a, d)
            /\ reserved[a][d] = ActiveHolds(a, d)
        <4>1. usage[a][d] = Min({Cap[d], Spent(a, d)}) /\ Cap[d] \in Int
          BY <1>1, <2>d, CapAssumption DEF UsageMatchesReconciled
        <4>2. QED
          BY <1>1, <2>d, <2>s, <4>1, MinOfTwo DEF HoldsMatchActiveReservations
      <3>5. Spent(a, d) + ActiveHolds(a, d) + FromEstimate(e)[d] <= limits[a][d]
        BY <1>1, <2>s, <3>2, <3>3, <3>4, AbsorbedFits
      <3>6. limits[a][d] \in Int
        <4>1. limits[a] \in Limit \cup {OpenLimit} /\ DOMAIN OpenLimit = {}
          BY <1>1 DEF TypeOK, OpenLimit
        <4>2. limits[a] \in Limit
          BY <4>1
        <4>3. QED
          BY <4>2, LimitAssumption
      <3>7. QED
        BY <2>s, <3>1, <3>2, <3>5, <3>6
    <2>3. ASSUME NEW id \in ReservationId, NEW u \in Usage, Reconcile(id, u)
          PROVE  Overrun(a, d)
      <3>1. /\ ActiveHolds(a, d)' \in Nat /\ reservations[id].tally[d] \in Nat
            /\ FromUsage(u)[d] \in Nat
            /\ ActiveHolds(a, d) = ActiveHolds(a, d)'
                 + (IF a \in reservations[id].accounts THEN reservations[id].tally[d] ELSE 0)
            /\ Spent(a, d)' = Spent(a, d)
                 + (IF a \in reservations[id].accounts THEN FromUsage(u)[d] ELSE 0)
        BY <1>1, <2>3, <2>d, ReconcileSums
      <3>2. FromUsage(u)[d] > reservations[id].tally[d]
        BY <2>s, <3>1
      <3>3. u[d] > reservations[id].tally[d]
        <4>1. CASE d = "concurrency_slots"
          <5>1. FromUsage(u)[d] = 0
            BY <2>d, <4>1 DEF FromUsage
          <5>2. QED
            BY <3>1, <3>2, <5>1
        <4>2. CASE d # "concurrency_slots"
          BY <2>d, <3>2, <4>2 DEF FromUsage
        <4>3. QED
          BY <4>1, <4>2
      <3>4. /\ reservations[id].status = "Active" /\ reservations'[id].status = "Reconciled"
            /\ reservations'[id].actual = u
        BY <1>1, <2>3 DEF TypeOK, Reservation, Reconcile
      <3>5. QED
        BY <3>3, <3>4
    <2>4. ASSUME NEW id \in ReservationId, Release(id) PROVE FALSE
      <3>1. /\ ActiveHolds(a, d)' \in Nat /\ reservations[id].tally[d] \in Nat
            /\ ActiveHolds(a, d) = ActiveHolds(a, d)'
                 + (IF a \in reservations[id].accounts THEN reservations[id].tally[d] ELSE 0)
            /\ Spent(a, d)' = Spent(a, d)
        BY <1>1, <2>4, <2>d, ReleaseSums
      <3>2. QED
        BY <2>s, <3>1
    <2>5. QED
      BY <1>1, <2>1, <2>2, <2>3, <2>4 DEF Next
  <1>2. TypeOK /\ TypeOK' /\ HoldsMatchActiveReservations /\ UsageMatchesReconciled /\ [Next]_vars
          => [Step]_vars
    BY <1>1
  <1> HIDE DEF Step
  <1>3. Spec /\ []HoldsFit => [][Step]_vars
    BY <1>2, TypeCorrect, HoldsAreExact, UsageIsSumOfReceipts, PTL DEF Spec
  <1>4. QED
    BY <1>3 DEF OnlyOverrunsPassLimits, Step
=============================================================================
