SPECIFICATION Spec
CONSTANTS
  MaxRuns = 2
  MaxBorn = 2
  MaxBoots = 0
  BundleWide = FALSE
  Modes = {"scheduled", "attended"}
  Trouble = {"store", "clear"}
INVARIANTS AsksOnlyItsOwn ToldIsTrue LeftoverIsRecognised LeftByRuleIsTheirs
CHECK_DEADLOCK FALSE
