SPECIFICATION Spec
CONSTANTS
  None = None
  ForLiveness = FALSE
INVARIANTS
  TypeOK SnapshotsWhole NothingLeft RestoredRight SourcesThere DisksHold
PROPERTIES
  NothingTaken
CHECK_DEADLOCK FALSE
