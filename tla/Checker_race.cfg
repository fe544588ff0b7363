SPECIFICATION Spec
CONSTANTS
  MaxVersion = 2
  MinVersion <- MCMinVersion
  Web = {w1}
  Tick = tick
  NoCaller = nobody
  Initial = 0
  Good = {2}
  AutoApply = TRUE
  DisableChecks = FALSE
INVARIANT NeverReapplied
