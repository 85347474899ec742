SPECIFICATION FairSpec
CONSTANTS
  fetch = fetch
  build = build
  test = test
  Tasks = {fetch, build, test}
  DependsOn <- Join
  MaxRetries <- NoRetries
  Timed = {fetch}
  Full = 2
  Reports = {}
  Submitters = {s1, s2}
  Calls = {"Cancel", "CheckTimeouts", "Destroy"}
INVARIANT JobsAreOwned
PROPERTY ReadyTasksRun
CHECK_DEADLOCK FALSE
