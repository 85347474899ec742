CONSTANTS
  Files = {"a", "b"}
  Firewalled = {"b"}
  Texts <- MCTexts
  InitialDisk <- MCDisk
  Names = {"T", "x"}
  None = None
  MaxMessages = 3
  MaxEdits = 1
  MaxInbox = 2
  codeFile = codeFile
  nextFile = nextFile
  secret = secret
  C1 = C1
  C2 = C2
  J = J
  B = B
  someName = someName
  i1 = i1
  i2 = i2
  Missing = Missing
  Absent = Absent
  ProjectFiles <- MCFiles
  Denied = {secret}
  Contents = {C1, C2, J, B}
  Encoding <- MCEncoding
  AtStart <- MCAtStart
  Configurations <- MCConfigurations
  Calls <- MCCalls
  NamedFiles <- MCNames
  Identifier <- MCIdentifier
  Finds <- MCFinds
  MaxRequests = 2
  MaxFileEdits = 1
  F = F
  G = G
  H = H
  W1 = W1
  W2 = W2
  Rules = Rules
  Commit = Commit
  NoFile = NoFile
  Projects <- MCProjects
  MaxSymbols = 4
  MaxFiles = 1
  MaxKeywords = 4
  SpecificMatches = 1
  MaxEdges = 2
  MaxCallSites = 1
  Budgets = {300, 1200}
  Threads = {t1, t2}
  Root = Root
  Main = Main
  Paths = {Root, path}
  Branches = {Main, topic}
  Tracked = {codeFile, nextFile}
  NoContent = NoContent
  NotThere = NotThere
  MaxSaves = 2
  MaxCommits = 3
  MaxCalls = 4
  Nothing = Nothing
  Inputs <- TextInputs
  Trees <- SmallFiles
SPECIFICATION SpecAssistant
CHECK_DEADLOCK FALSE
INVARIANTS DocumentsFollowClient RenameIsWhole ShownIsAllowed ToolsAreConfined UnchangedWasDelivered ResponseIsSound BranchDiffIsOwn TextIsExact IndexesAgree
PROPERTIES OnlyTheGraphAges NoWorkIsLost
VIEW View
