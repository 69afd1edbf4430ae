--------------------------- MODULE MC_AudioCtx ----------------------------
(* Instances of AudioCtx for TLC. *)
EXTENDS AudioCtx
===========================================================================
