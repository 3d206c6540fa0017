------------------------- MODULE MCPMActivityTimer -------------------------
(* Instances of PMActivityTimer for TLC. *)
EXTENDS PMActivityTimer

TwoInUse == <<1, 2, 0>>
=============================================================================
