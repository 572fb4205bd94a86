SPECIFICATION Spec
CONSTANTS
  Requests = {r1}
  Records = 2
INVARIANTS TasksHaveStores  RestoredAll
PROPERTIES StopEnds
