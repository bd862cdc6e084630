----------------------------- MODULE MC_MainLoop -----------------------------
(***************************************************************************)
(* MainLoop for TLC: a buffer of three values, of which one is far away,   *)
(* one near and one the 0 that stands for an empty buffer.                 *)
(***************************************************************************)
EXTENDS MainLoop

CONSTANTS c1

MCCoroutines == {c1}
MCValues == {-90, -60, 0}
MCThreshold == -77
==============================================================================
