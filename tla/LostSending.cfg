SPECIFICATION Spec
CONSTANTS
  MTLS = FALSE
  MaxSends = 1
  CanCancel = TRUE
  Prompt = TRUE
  RunPolicy = "Running"
  Events = {"cancel", "lostWrite"}
INVARIANTS
  GuestKept
CHECK_DEADLOCK FALSE
