---------------------------- MODULE MCLLMStream -----------------------------
(* A stream of two content blocks.                                          *)
EXTENDS LLMStream
=============================================================================
