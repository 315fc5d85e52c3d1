SPECIFICATION FoldSpec
CONSTANTS
  Actors = {"dev", "auditor"}
  Handles = {"w1"}
  MergeHandle = "merge"
  NoHandle = "no handle"
  Commits = {"c1", "c2"}
  NoCommit = "no commit"
  Sample <- MCSample
  MaxLength = 4
INVARIANTS
  OpenStageIsUnclosedStart
  VerdictOfThisAttempt
PROPERTY
  MovesAreAuthorised
CHECK_DEADLOCK FALSE
