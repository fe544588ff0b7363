SPECIFICATION Spec
CONSTANTS
  Component <- MCComponent
  Deadline <- MCDeadline
  PetInterval = 1
  WatchdogSec = 2
  Interval = 3
  CallTimeout = 2
  StaleGrace = 6
  ErrorBackoffSteps <- MCErrorBackoffSteps
  AgeBound = 16
INVARIANTS BoardAge ErrorEarned PokeHeard BackInTime NoNeedlessKill WedgeEnds
