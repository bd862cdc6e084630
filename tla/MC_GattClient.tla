--------------------------- MODULE MC_GattClient ---------------------------
(***************************************************************************)
(* GattClient for TLC: two objects for the token, so that one is made      *)
(* while the other is closed, and two coroutines of the demander.          *)
(***************************************************************************)
EXTENDS GattClient

CONSTANTS o1, o2, c1, c2, r1, r2

MCObjects == {o1, o2}
MCCoroutines == {c1, c2}
MCReceivers == {r1, r2}
=============================================================================
