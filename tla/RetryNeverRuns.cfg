SPECIFICATION FairSpec
CONSTANTS
  fetch = fetch
  build = build
  test = test
  Tasks = {fetch, build}
  DependsOn <- Pair
  MaxRetries <- RetryOnFetch
  Timed = {}
  Full = 2
  Reports = {}
  Submitters = {s1}
  Calls = {"Retry"}
PROPERTY ReadyTasksRun
CHECK_DEADLOCK FALSE
