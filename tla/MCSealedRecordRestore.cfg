SPECIFICATION Spec
CONSTANTS
  None = None
  Bad = Bad
  Units = {u1}
  MaxRev = 2
  MaxRuns = 4
  MaxDraws = 5
  MaxGen = 4
  MaxDamage = 0
  Captures = {"update"}
  Trouble = {"remove"}
  Damages = {}
  Restores = {"record"}
INVARIANTS AcceptedIsIntact
CHECK_DEADLOCK FALSE
