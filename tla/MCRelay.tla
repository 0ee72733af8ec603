------------------------------ MODULE MCRelay ------------------------------
(***************************************************************************)
(* Relay for TLC: the two Conns are model values.                          *)
(***************************************************************************)
EXTENDS Relay, TLC
=============================================================================
