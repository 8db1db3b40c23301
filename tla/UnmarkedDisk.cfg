SPECIFICATION Spec
CONSTANTS
  g1 = g1
  g2 = g2
  k1 = k1
  k2 = k2
  Guests = {g1, g2}
  Keys = {k1}
  NoGuest = NoGuest
  KeyOf <- SameImage
  Need <- OneBlock
  PoolSize = 2
  MaxIDRetries = 2
  MaxID = 4
  MaxCrashes = 1
  CrashPoints <- EveryEffect
  Plans = {{"reboot"}}
INVARIANTS
  WrittenIsCreated
CHECK_DEADLOCK FALSE
