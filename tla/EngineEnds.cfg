SPECIFICATION FairSpec
CONSTANTS
  Actors <- MCActors
  Handles = {w1, w2}
  MergeHandle = merge
  NoHandle = none
  Commits = {"c1"}
  NoCommit = "no commit"
  Runtimes = {"implement", "audit"}
  AgentOf <- MCAgentOf
  HumanEdges <- NoEdges
  VerdictAt <- MCVerdictAt
  GateInjected = TRUE
  HasVcs = TRUE
  HasMerged = FALSE
  Enforcing = TRUE
  StartProof = FALSE
  StatusProof = FALSE
  MergeProof = FALSE
  MaxStarts = 1
  MaxAttempts = 1
  Concurrent = TRUE
  Decisions <- OverrideToImplement
  StartStage = "implement"
  MaxRuns = 2
  MaxCrashes = 1
  MaxDecisions = 1
PROPERTY
  RunsEnd
CHECK_DEADLOCK FALSE
