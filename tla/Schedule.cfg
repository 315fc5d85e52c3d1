\* Two schedulers, given tasks in opposite orders, one of them killed.
SPECIFICATION Spec
CONSTANTS
  Names <- MCNames
  Wildcards <- MCWildcards
  Covers <- MCCovers
  NoScope = NoScope
  Schedulers = {s1, s2}
  Blocking = {s1}
  Tasks <- MCTasks
  Intents <- MCIntents
  Orders <- MCOrders
  Nobody = Nobody
  MaxKills = 1
  MaxDepth = 3
INVARIANTS
  OverlapIsSound
  NoSharedFile
  OneLivingDriver
  LocksReleased
PROPERTIES
  EverySchedulerEnds
CHECK_DEADLOCK FALSE
