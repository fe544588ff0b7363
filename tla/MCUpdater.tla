------------------------------ MODULE MCUpdater ------------------------------
(***************************************************************************)
(* Instances of Updater for TLC.                                           *)
(***************************************************************************)
EXTENDS Updater

\* Two releases: the second one's manifest raises the floor to itself, the
\* first one's leaves it alone.
MCMinVersion == [v \in 1 .. MaxVersion |-> IF v = 1 THEN 0 ELSE v - 1]
=============================================================================
