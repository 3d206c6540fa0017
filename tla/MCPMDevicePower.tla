-------------------------- MODULE MCPMDevicePower --------------------------
(* Instances of PMDevicePower for TLC. *)
EXTENDS PMDevicePower, TLC

On == [ceiling |-> 0, apps |-> "all"]
Idling == [ceiling |-> 3, apps |-> "forced"]
Off == [ceiling |-> 4, apps |-> "none"]
AllStates == {On, Idling, Off}
OnOff == {On, Off}
SetOrUnset == {-1, 0, 3}
NoSet == {}

Always == [dx |-> 0, in |-> AllStates, force |-> TRUE]
WhenOn == [dx |-> 1, in |-> {On}, force |-> FALSE]

OnlyOn == {On}
NoRequirement == {}
Both == {Always, WhenOn}
JustAlways == {Always}
JustWhenOn == {WhenOn}
ThreadSymmetry == Permutations(Thread)
=============================================================================
