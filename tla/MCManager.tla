------------------------------ MODULE MCManager ------------------------------
(***************************************************************************)
(* The connectivity manager on its one radio. The state space is finite    *)
(* without bounds: every counter of the code is a clock that a Beat resets.*)
(***************************************************************************)
EXTENDS Manager

\* Every disturbance at once.
AllHazards == HazardKind
=============================================================================
