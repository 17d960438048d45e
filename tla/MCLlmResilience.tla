-------------------------- MODULE MCLlmResilience --------------------------
(* An instance of LlmResilience for TLC. *)
EXTENDS LlmResilience
=============================================================================
