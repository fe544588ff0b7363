---------------------------- MODULE MCProvisioning ----------------------------
(***************************************************************************)
(* Two requests, each of any kind: enough for two set-ups, two pages, or a *)
(* set-up and the page that follows it, to overlap in every way. The state *)
(* space needs no other bound.                                             *)
(***************************************************************************)
EXTENDS Provisioning

CONSTANTS r1, r2

TwoRequests == {r1, r2}
=============================================================================
