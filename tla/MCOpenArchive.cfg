SPECIFICATION Spec
CONSTANTS
  Requests = {p, q}
  p = p
  q = q
  MaxCommits = 2
  MaxEvents = 2
  MaxKeys = 3
  Locks = {"person", "idle", "switch", "shutdown", "forget", "delete"}
  Losses = {"none", "chunk", "unit"}
SYMMETRY Symmetry
INVARIANTS LockIsFinal
PROPERTIES AnswersAreTrue
CHECK_DEADLOCK FALSE
