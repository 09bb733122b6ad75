SPECIFICATION Spec
CONSTANTS
  Procs = {p, q}
  p = p
  q = q
  Tries = 2
  MaxProbes = 1
  MaxUpsets = 1
  Upsets = {"removed", "replaced", "overwritten"}
  MaxSecrets = 4
  MaxTroubles = 1
  MaxOutside = 1
  Now = 20
  Trouble = {"write"}
SYMMETRY Symmetry
INVARIANTS RefusedByRivalOnly HolderIsLeftAlone
PROPERTIES Promise ReportIsTrue OneLossIsSurvived
CHECK_DEADLOCK FALSE
