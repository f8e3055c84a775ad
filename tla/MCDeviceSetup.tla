---------------------------- MODULE MCDeviceSetup ---------------------------
(* The instances of DeviceSetup that TLC checks: a dual-family adapter with *)
(* a second IPv4 address and one of another family, and a small IPv4 one.   *)
EXTENDS DeviceSetup

MCFamily == [a1 |-> "v4", a2 |-> "v6", a3 |-> "v4", b1 |-> "v4", x1 |-> "other",
             x2 |-> "oversize"]
MCAdapterOf == [a1 |-> 1, a2 |-> 1, a3 |-> 1, b1 |-> 2, x1 |-> 1, x2 |-> 2]
MCAddrs == DOMAIN MCFamily
MCCap == <<[cqe |-> 3, reads |-> 1, inline |-> 2], [cqe |-> 1, reads |-> 1, inline |-> 0]>>
MCDefault == [cqe |-> 2, batch |-> 1]
=============================================================================
