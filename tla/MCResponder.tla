------------------------------ MODULE MCResponder ------------------------------
(***************************************************************************)
(* wlan0, which the hotspot suppresses, and one interface that can be      *)
(* plugged; two sets of addresses.                                         *)
(***************************************************************************)
EXTENDS Responder
=============================================================================
