\* Appends one at a time, killed or without power at any point.
SPECIFICATION Spec
CONSTANTS
  Writers = {w1, w2}
  Events = {"a", "b"}
  NoEvent = "none"
  Serial = TRUE
  MaxLines = 4
  MaxFaults = 3
  MaxShort = 0
SYMMETRY WriterSymmetry
INVARIANTS
  ChainVerifies
  StatusAfterMerge
  TamperingShows
PROPERTY
  KeepsItsPromise
CHECK_DEADLOCK FALSE
