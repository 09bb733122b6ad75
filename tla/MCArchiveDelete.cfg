SPECIFICATION Spec
CONSTANTS
  Computers = {a, b}
  a = a
  b = b
  Mail = {m}
  m = m
  Kinds = {"plain", "encrypted"}
  MaxRuns = 2
  MaxBackups = 1
  MaxFolders = 2
  Trouble = {"held", "log", "full"}
SYMMETRY Symmetry
INVARIANTS HalfIsMarked RemovesWhatItShowed
PROPERTIES BackupsKeepOut KeyOutlivesVault CompleteIsTrue NoArchiveAmongTheirs
CHECK_DEADLOCK FALSE
