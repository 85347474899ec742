CONSTANTS
  Files = {f1}
  Contents = {old, new}
  Absent = absent
  MaxEdits = 2
  Reverts = FALSE
  Nothing = nothing
SPECIFICATION SpecFreshness
INVARIANT CachedScanCurrent
CHECK_DEADLOCK FALSE
