SPECIFICATION Spec
CONSTANTS
  g1 = g1
  g2 = g2
  k1 = k1
  k2 = k2
  Guests = {g1, g2}
  Keys = {k1, k2}
  NoGuest = NoGuest
  KeyOf <- TwoImages
  Need <- MixedBlocks
  PoolSize = 2
  MaxIDRetries = 2
  MaxID = 3
  MaxCrashes = 1
  CrashPoints = {"create", "write", "markReady", "snap", "delete"}
  Plans = {{"registryLost"}, {"delete"}, {"ioError"}, {"mapFails", "mknodesFails", "podCollected"}}
INVARIANTS
  OwnWholeDisk
  WritesKept
  NeverOverfilled
CHECK_DEADLOCK FALSE
