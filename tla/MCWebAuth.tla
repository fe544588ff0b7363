------------------------------ MODULE MCWebAuth ------------------------------
(***************************************************************************)
(* Instances of WebAuth for TLC.                                           *)
(***************************************************************************)
EXTENDS WebAuth, TLC

\* The auth bucket holds one token, refilled in a minute; the action bucket
\* two.
MCPerMinute == [b \in {"auth", "action"} |-> IF b = "auth" THEN 1 ELSE 2]

\* Tabs and passwords are interchangeable.
MCSymmetry == Permutations(Tab) \cup Permutations(Password)
=============================================================================
