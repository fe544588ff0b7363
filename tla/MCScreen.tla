------------------------------- MODULE MCScreen -------------------------------
(***************************************************************************)
(* The poller publishes departures, or the one kind of error that a        *)
(* connectivity fault may be laid over.                                    *)
(***************************************************************************)
EXTENDS Screen

MCPublishes ==
  {[state |-> "departures", fault |-> None], [state |-> "error", fault |-> "E01"]}
=============================================================================
