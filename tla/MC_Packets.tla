----------------------------- MODULE MC_Packets -----------------------------
(***************************************************************************)
(* Packets for TLC: the sizes at the ends of the range of random blocks,   *)
(* the shortest and the longest signatures of a 256 bit key, extreme       *)
(* values of the RSSI.  PacketsProofs has the sizes in between.            *)
(***************************************************************************)
EXTENDS Packets

MCRandomSizes == {64, 79, 95, 96}
MCSignatureSizes == {8, 71, 72}
MCRssis == {-128, -77, -1, 127}
=============================================================================
