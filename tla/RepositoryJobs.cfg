\* A job due in one minute and invoked by hand, two handlers in flight.
CONSTANTS
  Digests = {d1}
  Requests = {"r1"}
  Due = {1}
  Handlers = {h1, h2}
  Window = 1
  Fresh = 1
  Backstop = 1
  PodLimit = 1
  MaxTime = 1
  MaxChanges = 2
SPECIFICATION FairSpec
INVARIANTS
  OneWorkerAtATime
  PointerNamesOpenOccurrence
  BaselineVerified
PROPERTIES
  VetoStands
  SettledIsReconciled
