\* A scheduler killed while its run goes on, and the next scheduler.
SPECIFICATION Spec
CONSTANTS
  Names <- MCNames
  Wildcards <- MCWildcards
  Covers <- MCCovers
  NoScope = NoScope
  Schedulers = {s1, s2}
  Blocking = {s1, s2}
  Tasks <- MCTasks
  Intents <- MCIntents
  Orders <- MCOrders
  Nobody = Nobody
  MaxKills = 1
  MaxDepth = 2
INVARIANT OneRunPerTask
CHECK_DEADLOCK FALSE
