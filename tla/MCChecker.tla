------------------------------ MODULE MCChecker ------------------------------
(***************************************************************************)
(* Instances of Checker for TLC.                                           *)
(***************************************************************************)
EXTENDS Checker

\* Release 2 raises the floor to itself; the others leave it alone.
MCMinVersion == [v \in 1 .. MaxVersion |-> IF v = 2 THEN 2 ELSE 0]
=============================================================================
