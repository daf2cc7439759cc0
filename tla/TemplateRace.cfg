SPECIFICATION CacheSpec
CONSTANTS
  Download = {d1, d2}
  Size = 2
  Version = {"old", "new"}
  Expected = "old"
  HasChecksum = TRUE
  MaxParallel = 2
  MaxCrashes = 0
  NoFile = NoFile
  Hole = Hole
INVARIANT
  CachedIsAlwaysVerified
CHECK_DEADLOCK FALSE
