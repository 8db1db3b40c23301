SPECIFICATION FairSpec
CONSTANTS
  None = None
  ForLiveness = TRUE
PROPERTIES
  StorageSettles
CHECK_DEADLOCK FALSE
