\* Claude, Codex and recipe runs: claims released, made again and gone silent, late
\* callbacks of earlier claims, credential operations, pending completions, cleanup.
CONSTANTS
  Tasks = {t1}
  NativeTasks = {t1}
  RequestIds = {a}
  Pipelines = {"claude", "codex", "goose", "goose-codex"}
  EditKinds = {}
  MaxAutoRetries = 1
  StartTimeout = 2
  PlacementWaitMax = 3
  RunLease = 2
  MaxClaims = 2
  MaxEdits = 0
SPECIFICATION FairSpec
INVARIANTS
  ResultFromClaimant
  PlacementWaitCapped
  CleanupDebtKept
  RetriesSucceedLostRun
PROPERTIES
  AcceptedCompletionKept
  TaskNotWedged
  AcceptedCompletionSettles
