SPECIFICATION FairSpec
CONSTANTS
  None = None
  ForLiveness = TRUE
  TheWarmPool = TheWarmPool
  b1 = b1
  b2 = b2
  s1 = s1
  s2 = s2
  g1 = g1
  x1 = x1
  x2 = x2
  x3 = x3
PROPERTIES
  SandboxesServed
CHECK_DEADLOCK FALSE
