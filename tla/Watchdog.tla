------------------------------- MODULE Watchdog -------------------------------
(***************************************************************************)
(* The watchdog aggregator (internal/obs/watchdog.go) between the          *)
(* components that beat and systemd, which kills the process when it is    *)
(* not petted. Time is discrete: a component that beats often enough to be *)
(* always fresh has age 0.                                                 *)
(***************************************************************************)
EXTENDS Integers

CONSTANTS
  Component,    \* the names registered in cmd/trainboard
  Deadline,     \* how old the last beat of each may be
  PetInterval,  \* watchdogInterval
  WatchdogSec   \* of the systemd unit

ASSUME WatchdogAssumption ==
  /\ Deadline \in [Component -> Nat]
  /\ PetInterval \in Nat \ {0}
  /\ WatchdogSec \in Nat /\ PetInterval < WatchdogSec

VARIABLES
  beatAge,  \* time since each component's last beat
  tickIn,   \* until the ticker of Watchdog.Run fires
  petAge    \* time since systemd was last petted

wdVars == <<beatAge, tickIn, petAge>>

WDTypeOK ==
  /\ beatAge \in [Component -> Nat]
  /\ tickIn \in 0 .. PetInterval
  /\ petAge \in 0 .. WatchdogSec

\* Everything registered is fresh; systemd counts from the start.
WDInit ==
  beatAge = [c \in Component |-> 0] /\ tickIn = PetInterval /\ petAge = 0

WDRestart ==
  beatAge' = [c \in Component |-> 0] /\ tickIn' = PetInterval /\ petAge' = 0

\* Mutant: one live component is enough.
HealthyAny == \E c \in Component : beatAge[c] <= Deadline[c]

Healthy == \A c \in Component : beatAge[c] <= Deadline[c]

\* Run at a tick: pet, or silently withhold the pet.
PetTick ==
  /\ tickIn = 0
  /\ tickIn' = PetInterval
  /\ petAge' = IF Healthy THEN 0 ELSE petAge
  /\ UNCHANGED beatAge

\* One unit of time, for everything but the components' own beats.
WDMayPass == tickIn > 0 /\ petAge < WatchdogSec
WDPass == tickIn' = tickIn - 1 /\ petAge' = petAge + 1
=============================================================================
