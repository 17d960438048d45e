----------------------------- MODULE MCEventLog -----------------------------
(* An instance of EventLog for TLC: one reader of everything in its stream, *)
(* and one that filters.                                                   *)
EXTENDS EventLog, TLC

CONSTANTS stream, all, some, a, b

MCStreamOf == (all :> stream) @@ (some :> stream)
MCFilter == (all :> {a, b}) @@ (some :> {b})
=============================================================================
