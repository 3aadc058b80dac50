\* The same reports, delivered by two drains at once.
CONSTANTS
  Drains = {d1, d2}
  MaxRuns = 2
SPECIFICATION Spec
CHECK_DEADLOCK FALSE
INVARIANTS
  LabelFollowsLatestRun
