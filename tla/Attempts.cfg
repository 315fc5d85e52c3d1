\* Logs of six events of two stages and two runtimes.
SPECIFICATION Spec
CONSTANTS
  Signals = {"proof", "paths", "outside", "intent", "rules", "stuck"}
  Values = {"v1", "v2"}
  NoValue = "none"
  NoRule = "no rule"
  Stages = {"audit", "integrate"}
  Runtimes = {"codex", "fake"}
  NoRuntime = "no runtime"
  RuntimeOf <- MCRuntimeOf
  Docs <- MCDocs
  Observed <- MCObserved
  MaxEvents = 6
INVARIANTS
  NoTryRepeated
  SameFailureStops
  ViolationsStop
  NothingGivenUnearned
PROPERTY
  LevelMovesForAReason
CHECK_DEADLOCK FALSE
