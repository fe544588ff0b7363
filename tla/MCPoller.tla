------------------------------- MODULE MCPoller -------------------------------
(***************************************************************************)
(* A unit is 15 s, rounded up: refresh 45 s, the bound of one call, pets,  *)
(* WatchdogSec 30 and the deadlines of cmd/trainboard; the backoff keeps   *)
(* two different steps. The grace is shortened to six units: two rounds of *)
(* polls fit into it.                                                      *)
(***************************************************************************)
EXTENDS Poller

MCComponent == {"poller", "render"}
MCDeadline == [c \in MCComponent |-> IF c = "poller" THEN 2 * Interval + 3 ELSE 1]
MCErrorBackoffSteps == <<1, 1, 2>>
=============================================================================
