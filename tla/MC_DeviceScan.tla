---------------------------- MODULE MC_DeviceScan ----------------------------
(***************************************************************************)
(* DeviceScan for TLC: two tasks that may overlap, two devices in range.   *)
(***************************************************************************)
EXTENDS DeviceScan

CONSTANTS t1, t2, token, other

MCTasks == {t1, t2}
MCAddresses == {token, other}
=============================================================================
