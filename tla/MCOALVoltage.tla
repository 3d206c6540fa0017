---------------------------- MODULE MCOALVoltage ----------------------------
EXTENDS OALVoltage

ThreeAndTwo == [v \in Vdd |-> IF v = "vdd1" THEN 3 ELSE 2]

(* Wake-up times in the shape of the code's table: they fall with the OPM  *)
(* and with the depth of the sleep.                                        *)
Table == [m \in OPM |-> [s \in LatencyState |->
    CASE s = CHIP_OFF -> IF m = 0 THEN 8 ELSE IF m = 1 THEN 7 ELSE 6
      [] s = CHIP_OSWR -> IF m = 0 THEN 5 ELSE IF m = 1 THEN 4 ELSE 3
      [] s = CHIP_CSWR -> 2
      [] OTHER -> 1]]

E(v, o) == [vdd |-> v, opp |-> o]
InRange ==
    {<<E("vdd1", 3), E("vdd2", 2)>>, <<E("vdd1", 1), E("vdd2", 1)>>, <<E("vdd1", 2)>>}
TooHigh == InRange \cup {<<E("vdd1", 4)>>}

Boot == [d \in {"mpu", "core", "per", "neon", "dss"} |->
            IF d \in {"core", "dss"} THEN "retention" ELSE "off"]
D(d, st, logic) == [domain |-> d, state |-> st, logic |-> logic]
CoreAndDss ==
    {D("core", "on", "on"), D("core", "off", "off"), D("dss", "off", "on"), D("dss", "retention", "on")}
=============================================================================
