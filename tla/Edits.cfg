\* A native item closed and edited while its runs come and go.
CONSTANTS
  Tasks = {t1}
  NativeTasks = {t1}
  RequestIds = {a, b}
  Pipelines = {"claude"}
  EditKinds = {"close", "edit"}
  MaxAutoRetries = 0
  StartTimeout = 1
  PlacementWaitMax = 1
  RunLease = 1
  MaxClaims = 1
  MaxEdits = 1
SPECIFICATION Spec
SYMMETRY RequestSymmetry
INVARIANTS
  ClosedTaskIdle
PROPERTIES
  WorkFrozenUnderRun
