CONSTANTS
  s1 = s1
  s2 = s2
  s3 = s3
  r1 = r1
  r2 = r2
  c1 = c1
  c2 = c2
  Sessions = {s1, s2, s3}
  Resources = {r1, r2}
  Callers = {c1, c2}
SPECIFICATION SpecScope
INVARIANTS ExclusiveExcludes NoMissedPromotion NoSilentGrant
PROPERTIES ImplementsLocks NoStarvation
