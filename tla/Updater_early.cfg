SPECIFICATION Spec
CONSTANTS
  MaxVersion = 2
  MinVersion <- MCMinVersion
  Initial = 0
  Loadable = {0, 1, 2}
  Healthy = {0, 1}
  Crashing = {2}
  Hazards = {"EarlyOperator"}
INVARIANT KnownGoodProven
