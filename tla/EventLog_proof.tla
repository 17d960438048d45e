--------------------------- MODULE EventLog_proof ---------------------------
(***************************************************************************)
(* The durable event log keeps the promise of EventDelivery, for any       *)
(* number of streams, readers and records, any filters and page sizes, and *)
(* the JSONL helper reads a stream that was never truncated as it does.    *)
(***************************************************************************)
EXTENDS EventLog, FiniteSetTheorems, WellFoundedInduction, TLAPS

\* A nonempty set of naturals has a least element.
LEMMA LeastNatural ==
  ASSUME NEW T \in SUBSET Nat, T # {}
  PROVE  \E m \in T : \A c \in T : m <= c
  <1> DEFINE R == OpToRel(<, Nat)
  <1>1. IsWellFoundedOn(R, Nat)
    BY NatLessThanWellFounded
  <1>2. PICK m \in T : \A c \in T : ~ (<<c, m>> \in R)
    <2> HIDE DEF R
    <2>1. QED
      BY <1>1, WFMin
  <1>3. \A c, d \in Nat : c < d => <<c, d>> \in R
    BY DEF OpToRel
  <1>4. ASSUME NEW c \in T PROVE m <= c
    <2>1. ~ (<<c, m>> \in R)
      BY <1>2
    <2> HIDE DEF R
    <2>2. m \in Nat /\ c \in Nat
      OBVIOUS
    <2>3. ~ (c < m)
      BY <1>3, <2>1, <2>2
    <2>4. QED
      BY <2>2, <2>3
  <1>5. QED
    BY <1>4

\* LastOf picks the greatest of a nonempty bounded set.
LEMMA LastOfIsGreatest ==
  ASSUME NEW n \in Nat, NEW S \in SUBSET (0 .. n), S # {}
  PROVE  LastOf(S) \in S /\ \A c \in S : c <= LastOf(S)
  <1> DEFINE Above == {k \in Nat : \A c \in S : c <= k}
  <1>1. n \in Above
    OBVIOUS
  <1>2. PICK m \in Above : \A k \in Above : m <= k
    <2>1. Above \in SUBSET Nat /\ Above # {}
      BY <1>1
    <2> HIDE DEF Above
    <2>2. QED
      BY <2>1, LeastNatural
  <1>3. m \in S
    <2>1. SUFFICES ASSUME m \notin S PROVE FALSE
      OBVIOUS
    <2>2. PICK c \in S : TRUE
      OBVIOUS
    <2>3. m # 0
      BY <2>1, <2>2
    <2>4. m - 1 \in Above
      BY <2>1, <2>3
    <2>5. QED
      BY <1>2, <2>4
  <1>4. \E x \in S : \A c \in S : c <= x
    BY <1>3
  <1>5. QED
    BY <1>4 DEF LastOf

\* The first few of a bounded set: none is passed over, and the set is not
\* empty unless the whole is.
LEMMA FirstOfIsPrefix ==
  ASSUME NEW n \in Nat, NEW S \in SUBSET (0 .. n), NEW limit \in Nat \ {0}
  PROVE  /\ FirstOf(S, limit) \subseteq S
         /\ \A c \in FirstOf(S, limit), d \in S : d <= c => d \in FirstOf(S, limit)
         /\ S # {} => FirstOf(S, limit) # {}
  <1> DEFINE Below(c) == {d \in S : d < c}
  <1>1. ASSUME NEW c \in Nat
        PROVE  IsFiniteSet(Below(c)) /\ Cardinality(Below(c)) \in Nat
    <2>1. IsFiniteSet(0 .. n)
      BY FS_Interval
    <2>2. Below(c) \in SUBSET (0 .. n)
      OBVIOUS
    <2>3. IsFiniteSet(Below(c))
      BY <2>1, <2>2, FS_Subset
    <2>4. QED
      BY <2>3, FS_CardinalityType
  <1>2. FirstOf(S, limit) = {c \in S : Cardinality(Below(c)) < limit}
    BY DEF FirstOf
  <1>3. ASSUME NEW c \in FirstOf(S, limit), NEW d \in S, d <= c
        PROVE  d \in FirstOf(S, limit)
    <2>0. c \in S /\ Cardinality(Below(c)) < limit
      BY <1>2
    <2>1. c \in Nat /\ d \in Nat /\ S \subseteq Nat
      BY <2>0
    <2>2. Below(d) \in SUBSET Below(c)
      <3>1. ASSUME NEW e \in S, e < d PROVE e < c
        BY <1>3, <2>1, <3>1
      <3>2. QED
        BY <3>1
    <2>3. Cardinality(Below(d)) <= Cardinality(Below(c))
      BY <1>1, <2>1, <2>2, FS_Subset
    <2>4. Cardinality(Below(d)) < limit
      <3> HIDE DEF Below
      <3>1. QED
        BY <1>1, <2>0, <2>1, <2>3
    <2>5. QED
      BY <1>2, <2>4
  <1>4. ASSUME S # {} PROVE FirstOf(S, limit) # {}
    <2>1. PICK m \in S : \A c \in S : m <= c
      BY <1>4, LeastNatural
    <2>2. Below(m) = {}
      <3>1. ASSUME NEW e \in S PROVE ~ (e < m)
        <4>1. e \in Nat /\ m \in Nat /\ m <= e
          BY <2>1
        <4>2. QED
          BY <4>1
      <3>2. QED
        BY <3>1
    <2>3. Cardinality(Below(m)) = 0
      BY <2>2, FS_EmptySet
    <2>4. QED
      BY <1>2, <2>3
  <1>5. QED
    BY <1>2, <1>3, <1>4

-----------------------------------------------------------------------------

\* The prefix of a stream that was truncated: the mapping of EventLog.
Gone(s) == IF log[s].earliest_retained = 0 THEN 0 ELSE log[s].earliest_retained - 1

Entries == UNION {[D -> Record] : D \in SUBSET Nat}

LogType ==
    /\ log \in [Stream -> [next_cursor : Nat, earliest_retained : Nat, entries : Entries]]
    /\ cursor \in [Reader -> Nat] /\ gap \in [Reader -> Nat]
    /\ appended \in [Stream -> Seq(Record)]
    /\ received \in [Reader -> SUBSET Nat] /\ missed \in [Reader -> SUBSET Nat]

\* What is retained is the rest of the stream: the entries from
\* earliest_retained to the head, each with the record that was appended.
Retained(s) ==
    /\ log[s].next_cursor = Len(appended[s])
    /\ log[s].earliest_retained <= log[s].next_cursor + 1
    /\ DOMAIN log[s].entries = {c \in 1 .. log[s].next_cursor : c >= log[s].earliest_retained}
    /\ \A c \in DOMAIN log[s].entries : log[s].entries[c] = appended[s][c]

\* A reader's cursor was issued by its stream, and a gap it was told of leads
\* forward, over records that are gone.
Following(r) ==
    /\ cursor[r] <= Len(appended[StreamOf[r]])
    /\ gap[r] # 0 => cursor[r] < gap[r] - 1 /\ gap[r] - 1 <= Gone(StreamOf[r])

LogInv == LogType /\ (\A s \in Stream : Retained(s)) /\ (\A r \in Reader : Following(r))

\* Empty streams and readers at their start satisfy the invariant.
LEMMA LogInit == Init => LogInv
  <1> SUFFICES ASSUME Init PROVE LogInv
    OBVIOUS
  <1>1. << >> \in [{} -> Record]
    OBVIOUS
  <1>2. << >> \in Entries
    BY <1>1 DEF Entries
  <1>3. EmptyStream \in [next_cursor : Nat, earliest_retained : Nat, entries : Entries]
    BY <1>2 DEF EmptyStream
  <1>4. LogType
    BY <1>3 DEF Init, LogType
  <1>5. ASSUME NEW s \in Stream PROVE Retained(s)
    <2>1. log[s] = EmptyStream /\ appended[s] = << >>
      BY DEF Init
    <2>2. log[s].next_cursor = 0 /\ log[s].earliest_retained = 0 /\ log[s].entries = << >>
      BY <2>1 DEF EmptyStream
    <2>3. DOMAIN log[s].entries = {} /\ Len(appended[s]) = 0
      BY <2>1, <2>2
    <2>4. QED
      BY <2>2, <2>3 DEF Retained
  <1>6. \A r \in Reader : Following(r)
    BY ReaderAssumption DEF Init, Following
  <1>7. QED
    BY <1>4, <1>5, <1>6 DEF LogInv

\* An appended record is the new head, and changes nothing below it.
LEMMA AppendStep ==
  ASSUME LogInv, NEW s \in Stream, NEW rec \in Record, AppendRecord(s, rec)
  PROVE  LogInv' /\ Delivery!Publish(s, rec)
  <1> DEFINE next == log[s].next_cursor + 1
             e == log[s].entries
             new == [c \in DOMAIN e \cup {next} |-> IF c = next THEN rec ELSE e[c]]
  <1>1. LogType /\ Retained(s) /\ next \in Nat
    BY DEF LogInv, LogType
  <1>2. PICK D \in SUBSET Nat : e \in [D -> Record]
    <2>1. e \in Entries
      BY <1>1 DEF LogType
    <2> HIDE DEF e
    <2>2. QED
      BY <2>1 DEF Entries
  <1>3. new \in [D \cup {next} -> Record] /\ D \cup {next} \in SUBSET Nat
    BY <1>1, <1>2
  <1>4. new \in Entries
    BY <1>3 DEF Entries
  <1>5. log' = [log EXCEPT ![s] = [next_cursor |-> next,
                                    earliest_retained |-> log[s].earliest_retained,
                                    entries |-> new]]
    <2>1. Appended(log[s], rec) = [next_cursor |-> next,
                                   earliest_retained |-> log[s].earliest_retained,
                                   entries |-> new]
      BY DEF Appended
    <2>2. QED
      BY <2>1 DEF AppendRecord
  <1>6. appended' = [appended EXCEPT ![s] = Append(appended[s], rec)]
    BY DEF AppendRecord
  <1>a. /\ log'[s].next_cursor = next
        /\ log'[s].earliest_retained = log[s].earliest_retained
        /\ log'[s].entries = new
        /\ \A t \in Stream : t # s => log'[t] = log[t] /\ appended'[t] = appended[t]
        /\ appended'[s] = Append(appended[s], rec)
    <2> HIDE DEF new, next
    <2>1. QED
      BY <1>1, <1>5, <1>6 DEF LogType
  <1>b. UNCHANGED <<cursor, gap, received, missed>>
    BY DEF AppendRecord
  <1>7. LogType'
    <2> HIDE DEF new, next
    <2>1. [next_cursor |-> next, earliest_retained |-> log[s].earliest_retained,
           entries |-> new]
            \in [next_cursor : Nat, earliest_retained : Nat, entries : Entries]
      BY <1>1, <1>4 DEF LogType
    <2>2. appended' \in [Stream -> Seq(Record)]
      BY <1>1, <1>6 DEF LogType
    <2>3. QED
      BY <1>1, <1>5, <1>b, <2>1, <2>2 DEF LogType
  <1>8. Retained(s)'
    <2>1. appended[s] \in Seq(Record) /\ Len(appended[s]) = log[s].next_cursor
      BY <1>1 DEF LogType, Retained
    <2>2. /\ Len(appended'[s]) = next
          /\ appended'[s][next] = rec
          /\ \A c \in 1 .. log[s].next_cursor : appended'[s][c] = appended[s][c]
      BY <1>a, <2>1
    <2>3. DOMAIN new = {c \in 1 .. next : c >= log[s].earliest_retained}
      BY <1>1 DEF Retained, LogType
    <2>4. \A c \in DOMAIN new : new[c] = appended'[s][c]
      BY <1>1, <2>2 DEF Retained
    <2>5. QED
      BY <1>1, <1>a, <2>2, <2>3, <2>4 DEF Retained, LogType
  <1>9. \A t \in Stream : Retained(t)'
    <2>1. ASSUME NEW t \in Stream, t # s PROVE Retained(t)'
      <3>1. Retained(t) /\ log'[t] = log[t] /\ appended'[t] = appended[t]
        BY <1>a, <2>1 DEF LogInv
      <3>2. QED
        BY <3>1 DEF Retained
    <2>2. QED
      BY <1>8, <2>1
  <1>10. \A t \in Stream : Gone(t)' = Gone(t) /\ Len(appended'[t]) >= Len(appended[t])
    <2> SUFFICES ASSUME NEW t \in Stream
                 PROVE  Gone(t)' = Gone(t) /\ Len(appended'[t]) >= Len(appended[t])
      OBVIOUS
    <2>1. log'[t].earliest_retained = log[t].earliest_retained
      BY <1>a
    <2>2. appended[t] \in Seq(Record) /\ (appended'[t] = appended[t]
                                          \/ appended'[t] = Append(appended[t], rec))
      BY <1>1, <1>a DEF LogType
    <2>3. Len(appended'[t]) >= Len(appended[t])
      <3> HIDE DEF new, next, e
      <3>1. QED
        BY <2>2
    <2>4. QED
      BY <2>1, <2>3 DEF Gone
  <1>11. \A r \in Reader : Following(r)'
    <2>1. \A r \in Reader : StreamOf[r] \in Stream
      BY ReaderAssumption
    <2>2. \A t \in Stream : Len(appended[t]) \in Nat /\ Len(appended'[t]) \in Nat
      BY <1>1, <1>7 DEF LogType
    <2>3. QED
      BY <1>1, <1>10, <1>b, <2>1, <2>2 DEF LogInv, Following, LogType
  <1>12. Delivery!Publish(s, rec)
    <2>1. \A t \in Stream : log'[t].earliest_retained = log[t].earliest_retained
      BY <1>a
    <2>2. QED
      BY <1>6, <1>b, <2>1 DEF Delivery!Publish
  <1>13. QED
    BY <1>7, <1>9, <1>11, <1>12 DEF LogInv

\* A truncation removes a prefix and says so.
LEMMA TruncateStep ==
  ASSUME LogInv, NEW s \in Stream, NEW bound \in Nat, TruncateBeforeOrAt(s, bound)
  PROVE  /\ LogInv'
         /\ \/ Delivery!Forget(s, bound) /\ bound \in 1 .. Len(appended[s])
            \/ UNCHANGED Delivery!vars
  <1> DEFINE e == log[s].entries
             kept == {d \in DOMAIN e : d > bound}
             new == [c \in kept |-> e[c]]
             earliest == IF bound >= log[s].earliest_retained THEN bound + 1
                         ELSE log[s].earliest_retained
  <1>1. LogType /\ Retained(s) /\ bound # 0 /\ bound <= log[s].next_cursor
    BY DEF LogInv, TruncateBeforeOrAt
  <1>2. PICK D \in SUBSET Nat : e \in [D -> Record]
    <2>1. e \in Entries
      BY <1>1 DEF LogType
    <2> HIDE DEF e
    <2>2. QED
      BY <2>1 DEF Entries
  <1>3. new \in Entries
    <2>1. new \in [kept -> Record] /\ kept \in SUBSET Nat
      BY <1>2
    <2>2. QED
      BY <2>1 DEF Entries
  <1>4. earliest \in Nat /\ log[s].next_cursor \in Nat /\ log[s].earliest_retained \in Nat
    BY <1>1 DEF LogType
  <1>5. log' = [log EXCEPT ![s] = [next_cursor |-> log[s].next_cursor,
                                    earliest_retained |-> earliest, entries |-> new]]
    BY DEF TruncateBeforeOrAt, Truncated
  <1>b. UNCHANGED <<cursor, gap, appended, received, missed>>
    BY DEF TruncateBeforeOrAt
  <1>a. /\ log'[s].next_cursor = log[s].next_cursor
        /\ log'[s].earliest_retained = earliest
        /\ log'[s].entries = new
        /\ \A t \in Stream : t # s => log'[t] = log[t]
    <2> HIDE DEF new, earliest
    <2>1. QED
      BY <1>1, <1>5 DEF LogType
  <1>6. LogType'
    <2> HIDE DEF new, earliest
    <2>1. [next_cursor |-> log[s].next_cursor, earliest_retained |-> earliest,
           entries |-> new]
            \in [next_cursor : Nat, earliest_retained : Nat, entries : Entries]
      BY <1>3, <1>4
    <2>2. QED
      BY <1>1, <1>5, <1>b, <2>1 DEF LogType
  <1>7. Retained(s)'
    <2>1. DOMAIN new = {c \in 1 .. log[s].next_cursor : c >= earliest}
      BY <1>1, <1>4 DEF Retained
    <2>2. \A c \in DOMAIN new : new[c] = appended[s][c]
      BY <1>1 DEF Retained
    <2>3. earliest <= log[s].next_cursor + 1
      BY <1>1, <1>4 DEF Retained
    <2>4. QED
      BY <1>1, <1>a, <1>b, <2>1, <2>2, <2>3 DEF Retained
  <1>8. \A t \in Stream : Retained(t)'
    <2>1. ASSUME NEW t \in Stream, t # s PROVE Retained(t)'
      <3>1. Retained(t) /\ log'[t] = log[t] /\ appended'[t] = appended[t]
        BY <1>a, <1>b, <2>1 DEF LogInv
      <3>2. QED
        BY <3>1 DEF Retained
    <2>2. QED
      BY <1>7, <2>1
  <1>9. \A t \in Stream : Gone(t) \in Nat /\ Gone(t)' \in Nat /\ Gone(t) <= Gone(t)'
    <2> SUFFICES ASSUME NEW t \in Stream
                 PROVE  Gone(t) \in Nat /\ Gone(t)' \in Nat /\ Gone(t) <= Gone(t)'
      OBVIOUS
    <2>1. log[t].earliest_retained \in Nat
      BY <1>1 DEF LogType
    <2>2. log'[t].earliest_retained \in Nat
          /\ log[t].earliest_retained <= log'[t].earliest_retained
      <3>1. CASE t = s
        BY <1>4, <1>a, <3>1
      <3>2. CASE t # s
        BY <1>a, <2>1, <3>2
      <3>3. QED
        BY <3>1, <3>2
    <2> HIDE DEF new, earliest, kept, e
    <2>3. QED
      BY <2>1, <2>2 DEF Gone
  <1>10. \A r \in Reader : Following(r)'
    <2> SUFFICES ASSUME NEW r \in Reader PROVE Following(r)'
      OBVIOUS
    <2>1. StreamOf[r] \in Stream /\ Following(r) /\ gap[r] \in Nat /\ cursor[r] \in Nat
      BY <1>1, ReaderAssumption DEF LogInv, LogType
    <2>2. UNCHANGED <<cursor[r], gap[r], appended[StreamOf[r]]>>
      BY <1>b
    <2> HIDE DEF new, earliest, kept, e
    <2>3. QED
      BY <1>9, <2>1, <2>2 DEF Following
  <1>11. \/ Delivery!Forget(s, bound) /\ bound \in 1 .. Len(appended[s])
         \/ UNCHANGED Delivery!vars
    <2> DEFINE f == [t \in Stream |-> IF log[t].earliest_retained = 0 THEN 0
                                      ELSE log[t].earliest_retained - 1]
               g == [t \in Stream |-> IF log'[t].earliest_retained = 0 THEN 0
                                      ELSE log'[t].earliest_retained - 1]
    <2>1. CASE bound >= log[s].earliest_retained
      <3>1. g = [f EXCEPT ![s] = bound]
        <4>1. earliest = bound + 1
          BY <2>1
        <4>2. g[s] = bound
          BY <1>1, <1>a, <4>1
        <4>3. \A t \in Stream : t # s => g[t] = f[t]
          BY <1>a
        <4>4. QED
          BY <4>2, <4>3
      <3>2. bound \in f[s] + 1 .. Len(appended[s]) /\ bound \in 1 .. Len(appended[s])
        BY <1>1, <1>4, <2>1 DEF Retained
      <3>3. QED
        BY <1>b, <3>1, <3>2 DEF Delivery!Forget
    <2>2. CASE ~ (bound >= log[s].earliest_retained)
      <3>1. \A t \in Stream : log'[t].earliest_retained = log[t].earliest_retained
        BY <1>a, <2>2
      <3>2. QED
        BY <1>b, <3>1 DEF Delivery!vars
    <2>3. QED
      BY <2>1, <2>2
  <1>12. QED
    BY <1>6, <1>8, <1>10, <1>11 DEF LogInv

\* A page holds what the reader wants of the stretch its cursor moves over,
\* all of it and nothing else.
LEMMA PageIsExact ==
  ASSUME LogInv, NEW r \in Reader, NEW limit \in Nat \ {0},
         ~ BeyondHead(log[StreamOf[r]], cursor[r]),
         ~ BehindRetained(log[StreamOf[r]], cursor[r])
  PROVE  LET reply == ReadAfter(log[StreamOf[r]], cursor[r], limit, Filter[r])
         IN  /\ ~ reply.gap
             /\ reply.next_cursor \in cursor[r] .. Len(appended[StreamOf[r]])
             /\ DOMAIN reply.page = Wanted(r, cursor[r] + 1 .. reply.next_cursor)
  <1> DEFINE st == log[StreamOf[r]]
             after == cursor[r]
             h == Len(appended[StreamOf[r]])
             past == {c \in DOMAIN st.entries : c > after}
             match == {c \in past : st.entries[c] \in Filter[r]}
             page == FirstOf(match, limit)
             next == IF page # {} THEN LastOf(page)
                     ELSE IF past # {} THEN LastOf(past) ELSE after
  <1>1. StreamOf[r] \in Stream /\ LogType /\ Retained(StreamOf[r]) /\ Following(r)
    BY ReaderAssumption DEF LogInv
  <1>2. /\ after \in Nat /\ h \in Nat /\ after <= h /\ st.next_cursor = h
        /\ st.earliest_retained \in Nat
    BY <1>1 DEF LogType, Retained, Following
  <1>3. past = after + 1 .. h
    <2>1. DOMAIN st.entries = {c \in 1 .. h : c >= st.earliest_retained}
      BY <1>1, <1>2 DEF Retained
    <2>2. st.earliest_retained = 0 \/ after >= st.earliest_retained - 1
      BY <1>2 DEF BehindRetained
    <2>3. QED
      BY <1>2, <2>1, <2>2
  <1>4. match = Wanted(r, after + 1 .. h)
    <2>1. \A c \in past : st.entries[c] = appended[StreamOf[r]][c]
      BY <1>1 DEF Retained
    <2> HIDE DEF st, after, h
    <2>2. match = {c \in past : appended[StreamOf[r]][c] \in Filter[r]}
      BY <2>1
    <2>3. QED
      BY <1>3, <2>2 DEF Wanted
  <1>5. past \in SUBSET (0 .. h) /\ match \in SUBSET (0 .. h)
    <2>1. past \in SUBSET (0 .. h)
      <3> HIDE DEF past, st, after, h
      <3>1. QED
        BY <1>2, <1>3
    <2>2. QED
      BY <2>1
  <1>6. /\ page \subseteq match
        /\ \A c \in page, d \in match : d <= c => d \in page
        /\ match # {} => page # {}
    <2> HIDE DEF match, h
    <2>1. QED
      BY <1>2, <1>5, FirstOfIsPrefix
  <1>7. next \in after .. h /\ page = {c \in match : c <= next}
    <2>0. match \subseteq past /\ past \subseteq Nat
      BY <1>5
    <2>1. CASE page # {}
      <3>1. page \in SUBSET (0 .. h)
        BY <1>5, <1>6
      <3>2. next = LastOf(page)
        BY <2>1
      <3> HIDE DEF next, page, match, past, after, h, st
      <3>3. next \in page /\ \A c \in page : c <= next
        BY <1>2, <2>1, <3>1, <3>2, LastOfIsGreatest
      <3>4. next \in after .. h
        BY <1>2, <1>3, <1>6, <2>0, <3>3
      <3>5. QED
        BY <1>6, <3>3, <3>4
    <2>2. CASE page = {} /\ past # {}
      <3>2. next = LastOf(past)
        BY <2>2
      <3> HIDE DEF next, page, match, past, after, h, st
      <3>3. next \in past
        BY <1>2, <1>5, <2>2, <3>2, LastOfIsGreatest
      <3>4. next \in after .. h
        BY <1>2, <1>3, <3>3
      <3>5. QED
        BY <1>6, <2>2, <3>4
    <2>3. CASE page = {} /\ past = {}
      <3>2. next = after
        BY <2>3
      <3> HIDE DEF next, page, match, past, after, h, st
      <3>5. QED
        BY <1>2, <1>6, <2>3, <3>2
    <2>4. QED
      BY <2>1, <2>2, <2>3
  <1>8. page = Wanted(r, after + 1 .. next)
    <2> HIDE DEF next, page, match, past, after, h, st
    <2>1. QED
      BY <1>2, <1>4, <1>7 DEF Wanted
  <1>9. ReadAfter(st, after, limit, Filter[r]) = Replay([c \in page |-> st.entries[c]], next)
    BY DEF ReadAfter
  <1> DEFINE reply == ReadAfter(st, after, limit, Filter[r])
  <1>10. ~ reply.gap /\ reply.next_cursor = next /\ DOMAIN reply.page = page
    <2> HIDE DEF next, page, st
    <2>1. QED
      BY <1>9 DEF Replay
  <1>11. QED
    <2>1. /\ reply.next_cursor \in after .. h
          /\ DOMAIN reply.page = Wanted(r, after + 1 .. reply.next_cursor)
      <3> HIDE DEF next, page, st, h, after, reply
      <3>1. QED
        BY <1>7, <1>8, <1>10
    <2>2. QED
      BY <1>10, <2>1

\* A read delivers exactly the stretch it moves over, or leaves the reader
\* where it is and tells of a gap.
LEMMA ReadStep ==
  ASSUME LogInv, NEW r \in Reader, NEW limit \in Nat \ {0}, ReadAfterCursor(r, limit)
  PROVE  /\ LogInv'
         /\ \/ \E to \in 1 .. Len(appended[StreamOf[r]]) : Delivery!Deliver(r, to)
            \/ UNCHANGED Delivery!vars
  <1> DEFINE s == StreamOf[r]
             reply == ReadAfter(log[s], cursor[r], limit, Filter[r])
  <1>1. s \in Stream /\ LogType /\ Retained(s) /\ Following(r)
    BY ReaderAssumption DEF LogInv
  <1>2. /\ cursor[r] \in Nat /\ Len(appended[s]) \in Nat /\ cursor[r] <= Len(appended[s])
        /\ log[s].next_cursor = Len(appended[s]) /\ log[s].earliest_retained \in Nat
    BY <1>1 DEF LogType, Retained, Following
  <1>3. ~ BeyondHead(log[s], cursor[r])
    BY <1>2 DEF BeyondHead
  <1>4. UNCHANGED <<log, appended, missed>>
    BY DEF ReadAfterCursor
  <1>5. \A t \in Stream : Retained(t)' /\ Gone(t)' = Gone(t)
    BY <1>4 DEF LogInv, Retained, Gone
  <1>6. CASE BehindRetained(log[s], cursor[r])
    <2>1. reply = Gap(log[s].earliest_retained)
      BY <1>3, <1>6 DEF ReadAfter
    <2>2. reply.gap /\ reply.earliest = log[s].earliest_retained
      <3> HIDE DEF reply
      <3>1. QED
        BY <2>1 DEF Gap
    <2>3. gap' = [gap EXCEPT ![r] = log[s].earliest_retained] /\ UNCHANGED <<cursor, received>>
      BY <2>2 DEF ReadAfterCursor
    <2> HIDE DEF reply
    <2>4. LogType'
      BY <1>1, <1>2, <1>4, <2>3 DEF LogType
    <2>5. Following(r)'
      <3>1. gap'[r] = log[s].earliest_retained
        BY <1>1, <2>3 DEF LogType
      <3>2. cursor[r] < gap'[r] - 1 /\ gap'[r] - 1 = Gone(s)
        BY <1>2, <1>6, <3>1 DEF BehindRetained, Gone
      <3>3. Gone(s) \in Nat
        BY <1>2 DEF Gone
      <3>4. QED
        BY <1>1, <1>2, <1>4, <1>5, <2>3, <3>2, <3>3 DEF Following
    <2>6. ASSUME NEW q \in Reader, q # r PROVE Following(q)'
      <3>1. Following(q) /\ gap'[q] = gap[q] /\ StreamOf[q] \in Stream
        BY <1>1, <2>3, <2>6, ReaderAssumption DEF LogInv, LogType
      <3>2. QED
        BY <1>4, <1>5, <2>3, <3>1 DEF Following
    <2>7. UNCHANGED Delivery!vars
      BY <1>4, <2>3 DEF Delivery!vars
    <2>8. QED
      BY <1>5, <2>4, <2>5, <2>6, <2>7 DEF LogInv
  <1>7. CASE ~ BehindRetained(log[s], cursor[r])
    <2> DEFINE next == reply.next_cursor
    <2>1. /\ ~ reply.gap
          /\ next \in cursor[r] .. Len(appended[s])
          /\ DOMAIN reply.page = Wanted(r, cursor[r] + 1 .. next)
      BY <1>3, <1>7, PageIsExact
    <2>2. /\ cursor' = [cursor EXCEPT ![r] = next]
          /\ received' = [received EXCEPT ![r] = @ \cup Wanted(r, cursor[r] + 1 .. next)]
          /\ UNCHANGED gap /\ gap[r] = 0
      BY <2>1 DEF ReadAfterCursor
    <2> HIDE DEF reply, next
    <2>3. next \in Nat /\ Wanted(r, cursor[r] + 1 .. next) \in SUBSET Nat
      BY <1>2, <2>1 DEF Wanted
    <2>4. LogType'
      BY <1>1, <1>4, <2>2, <2>3 DEF LogType
    <2>5. Following(r)'
      <3>1. cursor'[r] = next /\ gap'[r] = 0
        BY <1>1, <2>2 DEF LogType
      <3>2. QED
        BY <1>2, <1>4, <2>1, <3>1 DEF Following
    <2>6. ASSUME NEW q \in Reader, q # r PROVE Following(q)'
      <3>1. Following(q) /\ cursor'[q] = cursor[q] /\ StreamOf[q] \in Stream
        BY <1>1, <2>2, <2>6, ReaderAssumption DEF LogInv, LogType
      <3>2. QED
        BY <1>4, <1>5, <2>2, <3>1 DEF Following
    <2>7. CASE next = cursor[r]
      <3>1. Wanted(r, cursor[r] + 1 .. next) = {}
        BY <1>2, <2>7 DEF Wanted
      <3>2. UNCHANGED <<cursor, received>>
        BY <1>1, <2>2, <2>7, <3>1 DEF LogType
      <3>3. UNCHANGED Delivery!vars
        BY <1>4, <3>2 DEF Delivery!vars
      <3>4. QED
        BY <1>5, <2>4, <2>5, <2>6, <3>3 DEF LogInv
    <2>8. CASE next # cursor[r]
      <3>1. next \in cursor[r] + 1 .. Len(appended[s]) /\ next \in 1 .. Len(appended[s])
        BY <1>2, <2>1, <2>8
      <3>2. log[s].earliest_retained = 0 \/ cursor[r] >= log[s].earliest_retained - 1
        BY <1>2, <1>7 DEF BehindRetained
      <3>3. Wanted(r, cursor[r] + 1 .. next) = Delivery!Wanted(r, cursor[r] + 1 .. next)
        BY DEF Wanted, Delivery!Wanted
      <3>4. Delivery!Deliver(r, next)
        <4> DEFINE f == [t \in Stream |-> IF log[t].earliest_retained = 0 THEN 0
                                          ELSE log[t].earliest_retained - 1]
        <4>1. cursor[r] >= f[s]
          BY <1>1, <1>2, <3>2
        <4>2. UNCHANGED <<appended, f, missed>>
          BY <1>4
        <4>3. received' = [received EXCEPT ![r] =
                             @ \cup Delivery!Wanted(r, cursor[r] + 1 .. next)]
          BY <2>2, <3>3
        <4> HIDE DEF f
        <4>4. QED
          BY <2>2, <3>1, <4>1, <4>2, <4>3 DEF Delivery!Deliver, f
      <3>5. QED
        BY <1>5, <2>4, <2>5, <2>6, <3>1, <3>4 DEF LogInv
    <2>9. QED
      BY <2>7, <2>8
  <1>8. QED
    BY <1>6, <1>7

\* A rebase moves over records that are gone, and counts them as missed.
LEMMA RebaseStep ==
  ASSUME LogInv, NEW r \in Reader, Rebase(r)
  PROVE  /\ LogInv'
         /\ \E to \in 1 .. Len(appended[StreamOf[r]]) : Delivery!Lose(r, to)
  <1> DEFINE s == StreamOf[r]
             to == gap[r] - 1
  <1>1. s \in Stream /\ LogType /\ Retained(s) /\ Following(r) /\ gap[r] # 0
    BY ReaderAssumption DEF LogInv, Rebase
  <1>2. /\ cursor[r] \in Nat /\ Len(appended[s]) \in Nat /\ gap[r] \in Nat
        /\ log[s].next_cursor = Len(appended[s]) /\ log[s].earliest_retained \in Nat
        /\ log[s].earliest_retained <= log[s].next_cursor + 1
        /\ cursor[r] < to /\ to <= Gone(s)
    BY <1>1 DEF LogType, Retained, Following
  <1>3. to \in cursor[r] + 1 .. Gone(s) /\ to \in 1 .. Len(appended[s]) /\ to \in Nat
    <2> HIDE DEF s
    <2>1. Gone(s) \in Nat /\ Gone(s) <= Len(appended[s])
      BY <1>2 DEF Gone
    <2>2. to \in Nat /\ to >= 1
      BY <1>2
    <2>3. QED
      BY <1>2, <2>1, <2>2
  <1>4. /\ cursor' = [cursor EXCEPT ![r] = to] /\ gap' = [gap EXCEPT ![r] = 0]
        /\ missed' = [missed EXCEPT ![r] = @ \cup Wanted(r, cursor[r] + 1 .. to)]
        /\ UNCHANGED <<log, appended, received>>
    BY DEF Rebase
  <1> HIDE DEF to
  <1>5. LogType'
    <2>1. Wanted(r, cursor[r] + 1 .. to) \in SUBSET Nat
      BY <1>2, <1>3 DEF Wanted
    <2>2. QED
      BY <1>1, <1>3, <1>4, <2>1 DEF LogType
  <1>6. \A t \in Stream : Retained(t)' /\ Gone(t)' = Gone(t)
    BY <1>4 DEF LogInv, Retained, Gone
  <1>7. \A q \in Reader : Following(q)'
    <2>1. Following(r)'
      <3>1. cursor'[r] = to /\ gap'[r] = 0
        BY <1>1, <1>4 DEF LogType
      <3>2. QED
        BY <1>2, <1>3, <1>4, <3>1 DEF Following
    <2>2. ASSUME NEW q \in Reader, q # r PROVE Following(q)'
      <3>1. /\ Following(q) /\ cursor'[q] = cursor[q] /\ gap'[q] = gap[q]
            /\ StreamOf[q] \in Stream
        BY <1>1, <1>4, <2>2, ReaderAssumption DEF LogInv, LogType
      <3>2. QED
        BY <1>4, <1>6, <3>1 DEF Following
    <2>3. QED
      BY <2>1, <2>2
  <1>8. Delivery!Lose(r, to)
    <2>1. Wanted(r, cursor[r] + 1 .. to) = Delivery!Wanted(r, cursor[r] + 1 .. to)
      BY DEF Wanted, Delivery!Wanted
    <2>2. QED
      BY <1>1, <1>3, <1>4, <2>1 DEF Delivery!Lose, Gone
  <1>9. QED
    BY <1>3, <1>5, <1>6, <1>7, <1>8 DEF LogInv

\* Every step of the log keeps the invariant and maps to a step of
\* EventDelivery, or to none.
LEMMA LogStep == LogInv /\ [Next]_vars => LogInv' /\ [Delivery!Next]_(Delivery!vars)
  <1> SUFFICES ASSUME LogInv, [Next]_vars
               PROVE  LogInv' /\ (Delivery!Next \/ UNCHANGED Delivery!vars)
    OBVIOUS
  <1>1. ASSUME NEW s \in Stream, NEW rec \in Record, AppendRecord(s, rec)
        PROVE  LogInv' /\ Delivery!Next
    BY <1>1, AppendStep DEF Delivery!Next
  <1>2. ASSUME NEW s \in Stream, NEW bound \in 0 .. MaxEvents, TruncateBeforeOrAt(s, bound)
        PROVE  LogInv' /\ (Delivery!Next \/ UNCHANGED Delivery!vars)
    <2>1. bound \in Nat
      OBVIOUS
    <2>2. QED
      BY <1>2, <2>1, TruncateStep DEF Delivery!Next
  <1>3. ASSUME NEW r \in Reader, NEW limit \in 1 .. MaxLimit, ReadAfterCursor(r, limit)
        PROVE  LogInv' /\ (Delivery!Next \/ UNCHANGED Delivery!vars)
    <2>1. limit \in Nat \ {0}
      OBVIOUS
    <2>2. QED
      BY <1>3, <2>1, ReadStep DEF Delivery!Next
  <1>4. ASSUME NEW r \in Reader, Rebase(r) PROVE LogInv' /\ Delivery!Next
    BY <1>4, RebaseStep DEF Delivery!Next
  <1>5. CASE UNCHANGED vars
    <2>1. LogInv'
      BY <1>5 DEF LogInv, LogType, Retained, Following, Gone, vars
    <2>2. UNCHANGED Delivery!vars
      BY <1>5 DEF Delivery!vars, vars
    <2>3. QED
      BY <2>1, <2>2
  <1>6. QED
    BY <1>1, <1>2, <1>3, <1>4, <1>5 DEF Next

\* The log in memory implements EventDelivery: a reader that follows
\* next_cursor receives every record it wants, once and in order, or is told
\* with a ReplayGap that a truncation took it away.
THEOREM LogImplementsDelivery == Spec => ImplementsDelivery
  <1>1. LogInv /\ Init => Delivery!Init
    BY DEF LogInv, Init, EmptyStream, Delivery!Init
  <1>2. QED
    BY <1>1, LogInit, LogStep, PTL DEF Spec, ImplementsDelivery, Delivery!Spec

\* A truncation never bricks a stream: earliest_retained stays at or below the
\* next cursor to be issued, and the rest of the state keeps its shape.
THEOREM LogTypeCorrect == Spec => []TypeOK
  <1>1. LogInv => TypeOK
    BY DEF LogInv, LogType, Retained, TypeOK, StreamOK
  <1>2. LogInv /\ [Next]_vars => LogInv'
    BY LogStep
  <1>3. QED
    BY <1>1, <1>2, LogInit, PTL DEF Spec

\* On a stream that was never truncated the lines of the file are the entries,
\* and an empty page means that nothing lies past the cursor.
LEMMA JsonlPage ==
  ASSUME LogInv, NEW s \in Stream, log[s].earliest_retained = 0,
         NEW after \in Nat, NEW limit \in Nat \ {0}
  PROVE  ReplayJsonl(appended[s], after, limit) = ReadAfter(log[s], after, limit, Record)
  <1> DEFINE st == log[s]
             lines == appended[s]
             past == {c \in DOMAIN st.entries : c > after}
             match == {c \in past : st.entries[c] \in Record}
             page == FirstOf(past, limit)
  <1>1. /\ lines \in Seq(Record) /\ st.next_cursor = Len(lines) /\ Len(lines) \in Nat
        /\ DOMAIN st.entries = {c \in 1 .. Len(lines) : c >= st.earliest_retained}
        /\ \A c \in DOMAIN st.entries : st.entries[c] = lines[c]
    BY DEF LogInv, LogType, Retained
  <1>2. DOMAIN st.entries = DOMAIN lines /\ DOMAIN lines = 1 .. Len(lines)
    BY <1>1
  <1> HIDE DEF st, lines
  <1>3. match = past
    BY <1>1, <1>2
  <1>4. past = {c \in DOMAIN lines : c > after} /\ past \in SUBSET (0 .. Len(lines))
    BY <1>1, <1>2
  <1>5. page \subseteq past /\ (past # {} => page # {})
    <2> HIDE DEF past
    <2>1. QED
      BY <1>1, <1>4, FirstOfIsPrefix
  <1>6. [c \in page |-> st.entries[c]] = [c \in page |-> lines[c]]
    BY <1>1, <1>5
  <1>7. ~ BehindRetained(st, after)
    BY DEF BehindRetained, st
  <1>8. BeyondHead(st, after) <=> after > Len(lines)
    BY <1>1 DEF BeyondHead
  <1>9. ReadAfter(st, after, limit, Record) =
          IF after > Len(lines) THEN Gap(Len(lines))
          ELSE Replay([c \in page |-> lines[c]], IF page # {} THEN LastOf(page) ELSE after)
    <2>1. ReadAfter(st, after, limit, Record) =
            IF BeyondHead(st, after) THEN Gap(st.next_cursor)
            ELSE IF BehindRetained(st, after) THEN Gap(st.earliest_retained)
            ELSE Replay([c \in FirstOf(match, limit) |-> st.entries[c]],
                        IF FirstOf(match, limit) # {} THEN LastOf(FirstOf(match, limit))
                        ELSE IF past # {} THEN LastOf(past) ELSE after)
      BY DEF ReadAfter
    <2>2. FirstOf(match, limit) = page
      BY <1>3
    <2> HIDE DEF past, match, page
    <2>3. QED
      BY <1>1, <1>5, <1>6, <1>7, <1>8, <2>1, <2>2
  <1>10. ReplayJsonl(lines, after, limit) =
          IF after > Len(lines) THEN Gap(Len(lines))
          ELSE Replay([c \in page |-> lines[c]], IF page # {} THEN LastOf(page) ELSE after)
    BY <1>4 DEF ReplayJsonl
  <1>11. QED
    BY <1>9, <1>10 DEF st, lines

\* The helper that replays JSONL bytes answers every read of a stream that was
\* never truncated exactly as the log in memory does: the same page, the same
\* next cursor, the same gap past the head.
THEOREM LogAgreesWithJsonl == Spec => []JsonlAgrees
  <1>1. LogInv => JsonlAgrees
    <2> SUFFICES ASSUME LogInv, NEW s \in Stream, log[s].earliest_retained = 0,
                        NEW after \in 0 .. log[s].next_cursor + 1, NEW limit \in 1 .. MaxLimit
                 PROVE  ReplayJsonl(appended[s], after, limit)
                          = ReadAfter(log[s], after, limit, Record)
      BY DEF JsonlAgrees
    <2>1. after \in Nat /\ limit \in Nat \ {0}
      OBVIOUS
    <2>2. QED
      BY <2>1, JsonlPage
  <1>2. LogInv /\ [Next]_vars => LogInv'
    BY LogStep
  <1>3. QED
    BY <1>1, <1>2, LogInit, PTL DEF Spec
=============================================================================
