\* A branch that moves between the checks and the merge.  With the commented line
\* in place of the invariant, a merge that is reported failed once it happened.
SPECIFICATION Spec
CONSTANTS
  Mergers = {"m1"}
  TaskOf <- MCTaskOf
  Changes = {"c1", "c2"}
  Broken = {"c2"}
  NoHash = "none"
  MaxMoves = 1
INVARIANT MergedWasChecked
\* INVARIANT FailureLeavesNothing
CHECK_DEADLOCK FALSE
