---------------------------- MODULE EventDelivery ----------------------------
(***************************************************************************)
(* What the durable event log promises a reader that follows its cursor.   *)
(* Each stream is one growing history.  A reader moves forward through it  *)
(* and receives every record its filter wants between its old and its new  *)
(* position; the log may forget a prefix of a history, and a reader that   *)
(* was still in it is told so and moves on, knowing what it missed.        *)
(***************************************************************************)
EXTENDS Naturals, Sequences

CONSTANTS Stream, Record, Reader, StreamOf, Filter

VARIABLES
    published,  \* [Stream -> Seq(Record)]
    forgotten,  \* [Stream -> Nat]: the length of the prefix that is gone
    position,   \* [Reader -> Nat]: how far a reader got
    received,   \* [Reader -> SUBSET Nat]: positions of the records it received
    missed      \* [Reader -> SUBSET Nat]: and of those it was told it lost

vars == <<published, forgotten, position, received, missed>>

\* The records a reader wants in a stretch of its stream.
Wanted(r, stretch) == {c \in stretch : published[StreamOf[r]][c] \in Filter[r]}

Init ==
    /\ published = [s \in Stream |-> << >>]
    /\ forgotten = [s \in Stream |-> 0]
    /\ position = [r \in Reader |-> 0]
    /\ received = [r \in Reader |-> {}] /\ missed = [r \in Reader |-> {}]

Publish(s, rec) ==
    /\ published' = [published EXCEPT ![s] = Append(@, rec)]
    /\ UNCHANGED <<forgotten, position, received, missed>>

Forget(s, to) ==
    /\ to \in forgotten[s] + 1 .. Len(published[s])
    /\ forgotten' = [forgotten EXCEPT ![s] = to]
    /\ UNCHANGED <<published, position, received, missed>>

\* Nothing wanted is skipped, nothing is received twice.
Deliver(r, to) ==
    /\ position[r] >= forgotten[StreamOf[r]]
    /\ to \in position[r] + 1 .. Len(published[StreamOf[r]])
    /\ position' = [position EXCEPT ![r] = to]
    /\ received' = [received EXCEPT ![r] = @ \cup Wanted(r, position[r] + 1 .. to)]
    /\ UNCHANGED <<published, forgotten, missed>>

Lose(r, to) ==
    /\ to \in position[r] + 1 .. forgotten[StreamOf[r]]
    /\ position' = [position EXCEPT ![r] = to]
    /\ missed' = [missed EXCEPT ![r] = @ \cup Wanted(r, position[r] + 1 .. to)]
    /\ UNCHANGED <<published, forgotten, received>>

Next ==
    \/ \E s \in Stream, rec \in Record : Publish(s, rec)
    \/ \E s \in Stream : \E to \in 1 .. Len(published[s]) : Forget(s, to)
    \/ \E r \in Reader : \E to \in 1 .. Len(published[StreamOf[r]]) :
          Deliver(r, to) \/ Lose(r, to)

Spec == Init /\ [][Next]_vars
=============================================================================
