SPECIFICATION FairSpec
CONSTANTS
  MaxVersion = 2
  MinVersion <- MCMinVersion
  Web = {w1}
  Tick = tick
  NoCaller = nobody
  Initial = 0
  Good = {1}
  AutoApply = TRUE
  DisableChecks = FALSE
INVARIANTS OnePipeline GateRespected OnlyForward
PROPERTY Converges
