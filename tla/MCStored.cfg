CONSTANTS
  old = old
  new = new
  newer = newer
  Processes = {old, new, newer}
  Last = 3
  Version <- MCVersion
  Kind <- MCKind
  Nobody = Nobody
  MaxCrashes = 1
  MaxFaults = 1
  f1 = f1
  f2 = f2
  first = first
  second = second
  Files = {f1, f2}
  Contents = {first, second}
  Absent = absent
  MaxEdits = 2
  Reverts = FALSE
  Nothing = nothing
SPECIFICATION SpecStored
INVARIANTS AppliedExactlyOnce ServesMigrated ColumnRaceIsBenign ChangesReachIndexes KeptIsCurrent
PROPERTIES DatabaseOpens ContextIsFresh
CHECK_DEADLOCK FALSE
