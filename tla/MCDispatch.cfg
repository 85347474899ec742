CONSTANTS
  fetch = fetch
  build = build
  test = test
  Tasks = {fetch, build}
  DependsOn <- Pair
  MaxRetries <- OneRetry
  Timed = {}
  Full = 2
  Reports <- MCReports
  Submitters = {s1}
  Calls = {"Cancel", "Pause", "Retry", "Destroy"}
  null = null
  plugin = plugin
  twin = twin
  coreNull = coreNull
  pluginId = pluginId
  t1 = t1
  t2 = t2
  Main = Main
  Unset = Unset
  Native <- MCNative
  Plugins <- MCPlugins
  Ids <- MCIds
  IdOf <- MCIdOf
  Pings <- MCPings
  HttpThreads <- MCThreads
  CommandNames = {"ping", "delete"}
  Dangerous = {"delete"}
  Trusted <- MCTrusted
  Levels = {"Assisted", "RestrictedAutonomous"}
  MaxRequests = 2
SPECIFICATION SpecDispatch
INVARIANTS DependenciesFirst OneWorker DecisionsAreKept BackendsAreThere
PROPERTIES CompletedByPresentAttempt ApprovedRuns
CHECK_DEADLOCK FALSE
