SPECIFICATION Spec
CONSTANTS
  Tab = {t1, t2}
  Password = {old, new}
  Unset = unset
  Minute = 2
  PerMinute <- MCPerMinute
  TTL = 1
  Horizon = 2
  MaxSession = 2
INVARIANTS RateBounded SignedOutStaysOut
PROPERTY NotLockedOut
SYMMETRY MCSymmetry
