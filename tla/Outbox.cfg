\* A report and a delivery monitor, two concurrent drains, under the drains' fairness.
CONSTANTS
  Entries = {1, 2}
  Monitors = {2}
  Reports = {1}
  Drains = {d1, d2}
  OutboxLease = 1
  RetireAfter = 3
  BackoffBase = 1
  BackoffCap = 2
  Fallback = 2
  StaleAge = 1
  DrainLimit = 2
  MaxEvents = 1
SPECIFICATION FairSpec
INVARIANTS
  RetirementEarned
  FailuresSpaced
PROPERTIES
  OwnerUndisturbed
  SettledForGood
  EveryEntrySettles
