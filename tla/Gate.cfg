\* Three pull requests, one of documentation, the last verified twice.
SPECIFICATION Spec
CONSTANTS
  Names <- MCNames
  Wildcards = {}
  Covers <- MCCovers
  NoScope = "no scope"
  Pulls = {"a", "b", "c"}
  Tasks = {"t1", "t2"}
  Offers <- MCOffers
  Bases <- MCBases
  Markdown = {}
  Absent = Absent
  Nothing = Nothing
  MaxRuns <- MCMaxRuns
INVARIANTS
  AuthorisedBeforehand
  OneIntentOnePull
  ProofsRan
PROPERTY
  EveryGateEnds
CHECK_DEADLOCK FALSE
