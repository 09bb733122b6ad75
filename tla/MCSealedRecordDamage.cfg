SPECIFICATION Spec
CONSTANTS
  None = None
  Bad = Bad
  Units = {u1}
  MaxRev = 3
  MaxRuns = 3
  MaxDraws = 4
  MaxGen = 3
  MaxDamage = 2
  Captures = {"update", "drop"}
  Trouble = {"cut"}
  Damages = {"pointer", "chunk", "shard", "top", "envelope"}
  Restores = {}
PROPERTIES FullSaveHeals OneLossIsSurvived
CHECK_DEADLOCK FALSE
