\* Two overlapping ticks over two minutes, with four changes and a crash.
CONSTANTS
  Configs = {"hourly", "daily"}
  DueAt <- MCDueAt
  Ticks = {k1, k2}
  MaxTime = 2
  MaxChanges = 4
  MaxFaults = 1
SPECIFICATION FairSpec
CHECK_DEADLOCK FALSE
INVARIANTS
  ReservationMatchesItem
PROPERTIES
  ReservationsCurrent
  OccurrenceNotDropped
  ReservationsSettle
  DueSlotsServed
