SPECIFICATION Spec
CONSTANTS
  None = None
  ForLiveness = FALSE
  TheWarmPool = TheWarmPool
  b1 = b1
  b2 = b2
  s1 = s1
  s2 = s2
  g1 = g1
  x1 = x1
  x2 = x2
  x3 = x3
INVARIANTS
  TypeOK DeviceHeld ServesOne GivenRight AnswersTrue
PROPERTIES
  StepsAllowed
SYMMETRY Symmetry
CHECK_DEADLOCK FALSE
