SPECIFICATION Spec
CONSTANTS
  Actors <- MCActors
  Handles = {w1, w2, w3}
  MergeHandle = merge
  NoHandle = none
  Commits = {"c1", "c2"}
  NoCommit = "no commit"
  Runtimes = {"implement", "audit"}
  AgentOf <- MCAgentOf
  HumanEdges <- NoEdges
  VerdictAt <- MCVerdictAt
  GateInjected = TRUE
  HasVcs = TRUE
  HasMerged = FALSE
  Enforcing = TRUE
  StartProof = TRUE
  StatusProof = TRUE
  MergeProof = TRUE
  MaxStarts = 2
  MaxAttempts = 1
  Concurrent = TRUE
  Decisions <- DecisionsBack
  StartStage = "implement"
  MaxRuns = 2
  MaxCrashes = 1
  MaxDecisions = 1
SYMMETRY HandleSymmetry
PROPERTY
  MovesByFinishingCurrentStage
CHECK_DEADLOCK FALSE
