\* Two requests of one task, its automatic retries and its repeated dispatch.
CONSTANTS
  Tasks = {t1}
  NativeTasks = {t1}
  RequestIds = {a, b}
  Pipelines = {"claude", "goose"}
  EditKinds = {}
  MaxAutoRetries = 1
  StartTimeout = 1
  PlacementWaitMax = 1
  RunLease = 1
  MaxClaims = 1
  MaxEdits = 0
SPECIFICATION Spec
SYMMETRY RequestSymmetry
INVARIANTS
  MutexHeldByLiveRun
  RetryBudgetKept
PROPERTIES
  SettledIsFinal
  ImplementsTaskMutex
