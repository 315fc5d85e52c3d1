\* Appends by two processes at once.
SPECIFICATION Spec
CONSTANTS
  Writers = {w1, w2}
  Events = {"a", "b"}
  NoEvent = "none"
  Serial = FALSE
  MaxLines = 2
  MaxFaults = 2
  MaxShort = 0
SYMMETRY WriterSymmetry
INVARIANT
  ToldIsKept
CHECK_DEADLOCK FALSE
