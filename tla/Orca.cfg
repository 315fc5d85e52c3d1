SPECIFICATION Spec
CONSTANTS
  Handles = {w1, w2}
  Leftover = leftover
  NoHandle = none
  Changes = {"outside", "restored", "pass", "fail"}
  Settings <- MCSettings
  MaxCommits = 2
  MaxLate = 1
SYMMETRY Symmetry
INVARIANTS
  NoWorkerForgotten
  AdvancesOnWhatWasEnforced
  VerdictIsOfItsCommit
CHECK_DEADLOCK FALSE
