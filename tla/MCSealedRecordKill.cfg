SPECIFICATION Spec
CONSTANTS
  None = None
  Bad = Bad
  Units = {u1}
  MaxRev = 3
  MaxRuns = 3
  MaxDraws = 5
  MaxGen = 3
  MaxDamage = 0
  Captures = {"update"}
  Trouble = {"write", "remove", "lock"}
  Damages = {}
  Restores = {}
INVARIANTS TypeOK NamedFilesIntact ListedFilesIntact KillNeverLocksOut
PROPERTIES LandsAsNewest
CHECK_DEADLOCK FALSE
