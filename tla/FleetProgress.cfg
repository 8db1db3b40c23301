SPECIFICATION FairSpec
CONSTANTS
  None = None
  ForLiveness = TRUE
PROPERTIES
  FleetSettles
CHECK_DEADLOCK FALSE
