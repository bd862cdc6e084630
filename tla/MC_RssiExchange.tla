--------------------------- MODULE MC_RssiExchange ---------------------------
(***************************************************************************)
(* RssiExchange for TLC: two demands, two coroutines in flight.            *)
(***************************************************************************)
EXTENDS RssiExchange

CONSTANTS n1, n2, c1, c2

MCNonces == {n1, n2}
MCCoroutines == {c1, c2}
=============================================================================
