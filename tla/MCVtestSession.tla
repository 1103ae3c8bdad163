--------------------------- MODULE MCVtestSession ---------------------------
(* All three programs, against servers of protocol 1 to 4, with empty and   *)
(* non-empty capsets.                                                       *)
EXTENDS VtestSession
=============================================================================
