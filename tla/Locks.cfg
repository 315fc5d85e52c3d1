SPECIFICATION Spec
CONSTANTS
  Ghost = Ghost
  NoOwner = NoOwner
  Procs = {p1, p2, p3}
  MaxTries = 3
  MaxDeaths = 1
SYMMETRY Symmetry
CHECK_DEADLOCK FALSE
INVARIANTS
  MutualExclusion
  SomeoneAcquires
  NextAcquirerIsNotBlocked
PROPERTY
  OnlyStaleLocksAreTaken
