SPECIFICATION Spec
CONSTANTS
  None = None
  ForLiveness = FALSE
INVARIANTS
  TypeOK Exclusive OneVM FleetServes Reports MovesAsChecked
PROPERTIES
  NobodyRobbed
CHECK_DEADLOCK FALSE
