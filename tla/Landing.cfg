\* Three processes merge two tasks while people and agents go on.
SPECIFICATION Spec
CONSTANTS
  Mergers = {"m1", "m2", "m3"}
  TaskOf <- MCTaskOf
  Changes = {"c1", "c2"}
  Broken = {"c2"}
  NoHash = "none"
  MaxMoves = 2
INVARIANTS
  RefusedLeavesNothing
  LandsWhatPassed
  StatusFindsHead
PROPERTY
  BaseOnlyGrows
CHECK_DEADLOCK FALSE
