CONSTANTS
  SessionIds = {s1, s2}
  Adapters = {a1, a2}
  Resources = {r1}
  Users = {u1, u2}
  Pollers = {p1}
  Client = cli
  NoAdapter = none
  SerialRestarts = TRUE
SYMMETRY Symmetry
SPECIFICATION Spec
INVARIANT SessionsAreTrue
