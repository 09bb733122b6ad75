SPECIFICATION Spec
CONSTANTS
  None = None
  Bad = Bad
  Units = {u1}
  MaxRev = 3
  MaxRuns = 3
  MaxDraws = 5
  MaxGen = 4
  MaxDamage = 0
  Captures = {"update", "drop"}
  Trouble = {}
  Damages = {}
  Restores = {}
INVARIANTS NamedFilesIntact
CHECK_DEADLOCK FALSE
