CONSTANTS
  SessionIds = {s1}
  Adapters = {a1, a2}
  Resources = {r1}
  Users = {u1}
  Pollers = {p1}
  Client = cli
  NoAdapter = none
  SerialRestarts = TRUE
SYMMETRY Symmetry
SPECIFICATION Spec
PROPERTY CleanExitIsTerminated
