-------------------------- MODULE MCMonitorClient --------------------------
(* MonitorClient with the two depths of a configuration, of which the       *)
(* second is refused while the first is not there, and a status register    *)
(* whose bit the device sets and the user clears.                          *)
EXTENDS MonitorClient
CONSTANTS depth, pre, status
MCOrder == <<depth, pre>>
MCNothing == [a \in Addr |-> {}]
MCBad == {<<pre, {0}, {}>>}
Depths(d, p) == [a \in ConfigRegs |-> IF a = depth THEN d ELSE p]
MCDefault == Depths({0}, {})
MCConfigs == {Depths({0}, {}), Depths({0}, {0})}
MCWrites == {<<status, {0}, Bit>>}
=============================================================================
