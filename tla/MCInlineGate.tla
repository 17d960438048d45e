---------------------------- MODULE MCInlineGate ----------------------------
(* Instances of InlineGate for TLC. *)
EXTENDS InlineGate

CONSTANTS thread   \* the one thread of the instance

MCThread == {thread}
MCThreadOf == [r \in Request |-> thread]
=============================================================================
