------------------------ MODULE MCResourceGovernor ------------------------
(* Instances of ResourceGovernor for TLC. *)
EXTENDS ResourceGovernor, TLC

ReservationSymmetry == Permutations(ReservationId)

\* Two projects of one user share their tenant and user accounts; the second
\* scope has a thread but no mission.
MCScope ==
    {[tenant |-> "t", user |-> "u", project |-> "p", agent |-> NoId,
      mission |-> NoId, thread |-> NoId],
     [tenant |-> "t", user |-> "u", project |-> NoId, agent |-> NoId,
      mission |-> NoId, thread |-> "h"]}

MCDimension == {"usd", "concurrency_slots"}

\* Wide enough that three holds of at most 2 never saturate.
MCCap == [d \in MCDimension |-> 6]

MCEstimate ==
    {[usd |-> 2, concurrency_slots |-> 1], [usd |-> 1], [usd |-> -1]}

MCUsage ==
    {[usd |-> 1, concurrency_slots |-> 1], [usd |-> 3, concurrency_slots |-> 0],
     [usd |-> -1, concurrency_slots |-> 0]}

MCLimit == {[usd |-> 2], [concurrency_slots |-> 1]}
=============================================================================
