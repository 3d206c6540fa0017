---------------------------- MODULE MCSDWorkItem ----------------------------
(* The instance of SDWorkItem for TLC: two threads, two events, Size = 3.  *)
EXTENDS SDWorkItem
=============================================================================
