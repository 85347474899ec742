SPECIFICATION SpecGit
CONSTANTS
  Threads = {t1, t2}
  Root = Root
  Main = Main
  Paths = {Root, path}
  Branches = {Main, topic}
  Tracked = {f, g}
  NoContent = NoContent
  NotThere = NotThere
  MaxSaves = 2
  MaxCommits = 3
  MaxCalls = 5

PROPERTY CheckoutKeepsWork
CHECK_DEADLOCK FALSE
SYMMETRY Alike
