---------------------------- MODULE MC_CbRing -----------------------------
(* Instances of CbRing for TLC. *)
EXTENDS CbRing
===========================================================================
