SPECIFICATION FairSpec
CONSTANTS
  MaxVersion = 3
  MinVersion <- MCMinVersion
  Initial = 0
  Loadable = {0, 1, 2}
  Healthy = {0, 2}
  Crashing = {1}
  Hazards = {"PowerCut", "BadConfig", "ExecFails"}
INVARIANT ThreeStrikes
PROPERTY Converges
