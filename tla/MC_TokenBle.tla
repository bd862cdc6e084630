---------------------------- MODULE MC_TokenBle ----------------------------
(***************************************************************************)
(* TokenBle for TLC: three handles, so that a second and a third peer can  *)
(* connect and a handle is used again while events of its earlier link     *)
(* wait.                                                                   *)
(***************************************************************************)
EXTENDS TokenBle

CONSTANTS h1, h2, h3

MCHandles == {h1, h2, h3}
=============================================================================
