-------------------------- MODULE MCPMDeviceList ---------------------------
(* Instances of PMDeviceList for TLC. *)
EXTENDS PMDeviceList, TLC
CONSTANTS network, block,           \* classes
          bus, card, disk           \* devices
BothClasses == <<network, block>>
ThreeNames == {bus, card, disk}
BusOfBoth == (bus :> network) @@ (card :> block) @@ (disk :> block)
BlockSymmetry == Permutations(Block)
=============================================================================
