---------------------------- MODULE MCSDBusQueue ----------------------------
(* SDBusQueue for TLC: the constants are given by the configurations. *)
EXTENDS SDBusQueue
=============================================================================
