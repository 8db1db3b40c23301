SPECIFICATION Spec
CONSTANTS
  m1 = m1
  m2 = m2
  n0 = n0
  n1 = n1
  n2 = n2
  None = None
  Migrations = {m1, m2}
  Nodes = {n0, n1, n2}
  Source = n0
  Target <- Apart
  HasGPU = TRUE
  Pins = {n0}
  Faults = {"timeout", "delete", "contention", "evict", "gitops", "deleteGuest", "slowPass"}
INVARIANTS
  TypeOK
  NotLeftStopped
  OneMoves
  StaysTogether
PROPERTIES
  CompletedThere
SYMMETRY Exchange
CHECK_DEADLOCK FALSE
