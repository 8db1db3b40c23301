SPECIFICATION Spec
CONSTANTS
  MTLS = TRUE
  MaxSends = 2
  CanCancel = TRUE
  Prompt = TRUE
  RunPolicy = "Running"
  Events <- MigrationEvents
INVARIANTS
  TypeOK
  GuestKept
  OneCopy
  RecordsTrue
PROPERTIES
  NoGoingBack
  KeepsPromise
CHECK_DEADLOCK FALSE
