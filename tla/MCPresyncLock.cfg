SPECIFICATION FairSpec
CONSTANTS
  MaxRuns = 2
  MaxBorn = 1
  MaxBoots = 1
  BundleWide = TRUE
  Modes = {"scheduled"}
  Trouble = {"clear", "probe", "slow", "spoil"}
INVARIANTS LockIsNeeded
PROPERTIES NoSyncDuringRead ArchiveGoesOn
CHECK_DEADLOCK FALSE
