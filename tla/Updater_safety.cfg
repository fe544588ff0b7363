SPECIFICATION Spec
CONSTANTS
  MaxVersion = 3
  MinVersion <- MCMinVersion
  Initial = 0
  Loadable = {0, 1, 2}
  Healthy = {0, 1}
  Crashing = {2}
  Hazards = {"PowerCut", "SaveFails", "BadConfig", "ExecFails"}
INVARIANT KnownGoodProven
PROPERTIES Guarantee NeverOlder AlwaysBootable
