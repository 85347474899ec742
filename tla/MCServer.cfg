CONSTANTS
  Operations = {o1}
  Clients = {c1, c2, c3}
  MaxAttempts = 3
  Restarts = TRUE
  Askers = {c1, c2}
  Server = Server
  Programs <- MCPrograms
  PipeRoom = 1
  MaxOutput = 2
  Files <- MCFiles
  Longer <- MCLonger
  Sources <- MCSources
  Contents = {A, B}
  Rows <- MCRows
  Disks <- MCDisks
  Diffs <- MCDiffs
  Absent = Absent
  None = None
  A = A
  B = B
  MaxEdits = 2
  Reverts = FALSE
SPECIFICATION SpecServer
INVARIANTS OutcomeIsTrue IndexesAreTrue AnswerIsWhole
PROPERTIES NeverRunAgain CallsReturn ImpactIsAnswered
CHECK_DEADLOCK FALSE
