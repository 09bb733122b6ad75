SPECIFICATION FairSpec
CONSTANTS
  Derivers = {d1, d2}
  Readers = {r1, r2, r3}
  Budget = 3
  Sizes <- MCSizes
INVARIANTS PeakIsBounded NoLostWakeup
PROPERTIES DerivationGetsTurn CancelledReadLeaves
