\* Runs of each class for codex, two of them background, and one for claude.
CONSTANTS
  u1 = u1
  n1 = n1
  b1 = b1
  b2 = b2
  c1 = c1
  Runs = {u1, n1, b1, b2, c1}
  Pipelines = {"claude", "codex"}
  PipelineOf <- MCPipelineOf
  PriorityOf <- MCPriorityOf
  Ceiling <- MCCeiling
  Grants <- MCGrants
  Deferrable = {b1}
  Limitable = {c1}
  Cancelable = {b1}
SPECIFICATION FairSpec
INVARIANTS
  HeadServedByTurn
PROPERTY NoRunStarves
