------------------------------ MODULE EventLog ------------------------------
(***************************************************************************)
(* The durable event and audit logs of ironclaw_events: one StreamState    *)
(* per stream, append, bounded filtered replay after a cursor, truncation  *)
(* by a retention policy, and readers that follow next_cursor and rebase   *)
(* when they are told of a gap.  Every operation runs under the log's      *)
(* mutex.  A stream that is absent behaves as one that is empty.           *)
(***************************************************************************)
EXTENDS Naturals, Sequences, FiniteSets

CONSTANTS
    Stream,     \* EventStreamKeys: (tenant, user, agent)
    Record,     \* what ReadScope can tell apart in a record
    Reader,
    StreamOf,   \* [Reader -> Stream]
    Filter,     \* [Reader -> SUBSET Record]: what its ReadScope matches
    MaxLimit,   \* page sizes readers ask for
    MaxEvents   \* bound on the length of a stream

ASSUME ReaderAssumption ==
    StreamOf \in [Reader -> Stream] /\ Filter \in [Reader -> SUBSET Record]
ASSUME BoundAssumption == MaxLimit \in Nat \ {0} /\ MaxEvents \in Nat

VARIABLES
    log,        \* [Stream -> StreamState]
    cursor,     \* [Reader -> Nat]: the cursor of its next read
    gap,        \* [Reader -> Nat]: earliest of a ReplayGap it was answered, or 0
    appended,   \* history: everything appended to a stream
    received,   \* history: cursors of the records a reader got
    missed      \* history: cursors of the records it rebased past

vars == <<log, cursor, gap, appended, received, missed>>

\* entries maps the cursors that are retained to their records.
EmptyStream == [next_cursor |-> 0, earliest_retained |-> 0, entries |-> << >>]

Init ==
    /\ log = [s \in Stream |-> EmptyStream]
    /\ cursor = [r \in Reader |-> 0] /\ gap = [r \in Reader |-> 0]
    /\ appended = [s \in Stream |-> << >>]
    /\ received = [r \in Reader |-> {}] /\ missed = [r \in Reader |-> {}]

-----------------------------------------------------------------------------
(* StreamState. *)

Appended(st, rec) ==
    LET next == st.next_cursor + 1
    IN  [next_cursor |-> next,
         earliest_retained |-> st.earliest_retained,
         entries |-> [c \in DOMAIN st.entries \cup {next} |->
                          IF c = next THEN rec ELSE st.entries[c]]]

\* The largest of a finite set of cursors.
LastOf(S) == CHOOSE m \in S : \A c \in S : c <= m

\* The first limit of a set of cursors.
FirstOf(S, limit) == {c \in S : Cardinality({d \in S : d < c}) < limit}

\* Mutant: the head is not checked.
BeyondHeadNever(st, after) == FALSE

\* A cursor this stream has not issued.
BeyondHead(st, after) == after > st.next_cursor

\* Mutant: a reader that is just behind what is retained is let through.
BehindRetainedLax(st, after) ==
    st.earliest_retained > 0 /\ after + 1 < st.earliest_retained - 1

\* Mutant: a reader that is exactly at what is retained is turned away.
BehindRetainedStrict(st, after) ==
    st.earliest_retained > 0 /\ after <= st.earliest_retained - 1

\* A cursor whose successor was truncated.
BehindRetained(st, after) ==
    st.earliest_retained > 0 /\ after < st.earliest_retained - 1

Gap(earliest) == [gap |-> TRUE, earliest |-> earliest]
Replay(page, next) == [gap |-> FALSE, page |-> page, next_cursor |-> next]

\* read_after: scans past the cursor up to the last record of the page; a page
\* that stays empty moves the cursor over everything scanned.
ReadAfter(st, after, limit, want) ==
    LET past == {c \in DOMAIN st.entries : c > after}
        page == FirstOf({c \in past : st.entries[c] \in want}, limit)
    IN  IF BeyondHead(st, after) THEN Gap(st.next_cursor)
        ELSE IF BehindRetained(st, after) THEN Gap(st.earliest_retained)
        ELSE Replay([c \in page |-> st.entries[c]],
                    IF page # {} THEN LastOf(page)
                    ELSE IF past # {} THEN LastOf(past) ELSE after)

\* truncate_before_or_at with a bound the stream has issued.
Truncated(st, bound) ==
    [next_cursor |-> st.next_cursor,
     earliest_retained |-> IF bound >= st.earliest_retained THEN bound + 1
                           ELSE st.earliest_retained,
     entries |-> [c \in {d \in DOMAIN st.entries : d > bound} |-> st.entries[c]]]

\* replay_jsonl over the lines of an uncompacted file: the cursor is the
\* number of the line.
ReplayJsonl(lines, after, limit) ==
    LET page == FirstOf({c \in DOMAIN lines : c > after}, limit)
    IN  IF after > Len(lines) THEN Gap(Len(lines))
        ELSE Replay([c \in page |-> lines[c]], IF page # {} THEN LastOf(page) ELSE after)

-----------------------------------------------------------------------------
(* The log's operations, and a reader that uses them. *)

AppendRecord(s, rec) ==
    /\ log[s].next_cursor < MaxEvents
    /\ log' = [log EXCEPT ![s] = Appended(@, rec)]
    /\ appended' = [appended EXCEPT ![s] = Append(@, rec)]
    /\ UNCHANGED <<cursor, gap, received, missed>>

\* Mutant: a bound past the head is accepted.
TruncateUnguarded(s, bound) ==
    /\ bound # 0
    /\ log' = [log EXCEPT ![s] = Truncated(@, bound)]
    /\ UNCHANGED <<cursor, gap, appended, received, missed>>

\* A bound of zero is a no-op, and one past the head is rejected.
TruncateBeforeOrAt(s, bound) ==
    /\ bound # 0 /\ bound <= log[s].next_cursor
    /\ log' = [log EXCEPT ![s] = Truncated(@, bound)]
    /\ UNCHANGED <<cursor, gap, appended, received, missed>>

\* A reader follows next_cursor; it does not read on before it answered a gap.
ReadAfterCursor(r, limit) ==
    LET reply == ReadAfter(log[StreamOf[r]], cursor[r], limit, Filter[r])
    IN  /\ gap[r] = 0
        /\ \/ /\ reply.gap
              /\ gap' = [gap EXCEPT ![r] = reply.earliest]
              /\ UNCHANGED <<cursor, received>>
           \/ /\ ~ reply.gap
              /\ cursor' = [cursor EXCEPT ![r] = reply.next_cursor]
              /\ received' = [received EXCEPT ![r] = @ \cup DOMAIN reply.page]
              /\ UNCHANGED gap
        /\ UNCHANGED <<log, appended, missed>>

\* The records of its stream that a reader wants.
Wanted(r, stretch) == {c \in stretch : appended[StreamOf[r]][c] \in Filter[r]}

\* The reader resumes in front of the earliest record it was told of.
Rebase(r) ==
    /\ gap[r] # 0
    /\ cursor' = [cursor EXCEPT ![r] = gap[r] - 1]
    /\ gap' = [gap EXCEPT ![r] = 0]
    /\ missed' = [missed EXCEPT ![r] = @ \cup Wanted(r, cursor[r] + 1 .. gap[r] - 1)]
    /\ UNCHANGED <<log, appended, received>>

Next ==
    \/ \E s \in Stream, rec \in Record : AppendRecord(s, rec)
    \/ \E s \in Stream, bound \in 0 .. MaxEvents : TruncateBeforeOrAt(s, bound)
    \/ \E r \in Reader : \E limit \in 1 .. MaxLimit : ReadAfterCursor(r, limit)
    \/ \E r \in Reader : Rebase(r)

\* A reader keeps polling, and rebases when it has to.
Fairness ==
    \A r \in Reader : /\ WF_vars(\E limit \in 1 .. MaxLimit : ReadAfterCursor(r, limit))
                      /\ WF_vars(Rebase(r))

Spec == Init /\ [][Next]_vars
LiveSpec == Spec /\ Fairness

-----------------------------------------------------------------------------

\* The shape of the state.  earliest_retained never passes the cursor that is
\* issued next, or every replay would be answered with a gap that points at a
\* cursor the stream has never issued.
StreamOK(st) ==
    /\ st.next_cursor \in Nat
    /\ st.earliest_retained \in 0 .. st.next_cursor + 1

TypeOK ==
    /\ \A s \in Stream : StreamOK(log[s])
    /\ cursor \in [Reader -> Nat] /\ gap \in [Reader -> Nat]
    /\ appended \in [Stream -> Seq(Record)]
    /\ received \in [Reader -> SUBSET Nat] /\ missed \in [Reader -> SUBSET Nat]

\* The log delivers: truncation, page limits, filters and rebasing readers
\* together keep the promise of EventDelivery, that a reader following its
\* cursor gets every record it wants once, in order, or is told of the loss.
Delivery == INSTANCE EventDelivery
    WITH published <- appended,
         forgotten <- [s \in Stream |-> IF log[s].earliest_retained = 0 THEN 0
                                        ELSE log[s].earliest_retained - 1],
         position <- cursor

ImplementsDelivery == Delivery!Spec

\* The byte-level helper for JSONL files answers like the log in memory, as its
\* comments promise, as long as nothing was truncated.
JsonlAgrees ==
    \A s \in Stream : log[s].earliest_retained = 0 =>
        \A after \in 0 .. log[s].next_cursor + 1, limit \in 1 .. MaxLimit :
            ReplayJsonl(appended[s], after, limit) = ReadAfter(log[s], after, limit, Record)

\* Whatever is appended reaches every reader that wants it, or the reader
\* learns that it was truncated.
CatchesUp ==
    \A r \in Reader : \A c \in 1 .. MaxEvents :
        c \in DOMAIN appended[StreamOf[r]] /\ appended[StreamOf[r]][c] \in Filter[r]
            ~> c \in received[r] \cup missed[r]
=============================================================================
