---------------------------- MODULE MCClearWalk -----------------------------
(* Two memory types, each suitable or not and allowed or not.               *)
EXTENDS ClearWalk
=============================================================================
