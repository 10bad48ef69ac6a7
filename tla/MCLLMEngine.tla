---------------------------- MODULE MCLLMEngine ----------------------------
(* Instances of LLMEngine for TLC. *)
EXTENDS LLMEngine
=============================================================================
