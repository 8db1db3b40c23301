SPECIFICATION FairSpec
CONSTANTS
  MTLS = FALSE
  MaxSends = 1
  CanCancel = TRUE
  Prompt = TRUE
  RunPolicy = "Always"
  Events <- EndEvents
INVARIANTS
  FailsForReal
PROPERTIES
  Ends
  Converges
CHECK_DEADLOCK FALSE
