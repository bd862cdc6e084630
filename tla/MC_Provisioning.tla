--------------------------- MODULE MC_Provisioning ---------------------------
(***************************************************************************)
(* Provisioning for TLC, with the sizes of the program: DER encodings of   *)
(* 256 bit keys and the packets of full speed USB.                         *)
(***************************************************************************)
EXTENDS Provisioning

MCKeySize == [clientPublic |-> 91, serverPublic |-> 91, serverPrivate |-> 51]
=============================================================================
