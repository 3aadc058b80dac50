\* One run, its calls and two overlapping ticks or calls.
CONSTANTS
  Runs = {r1}
  Handlers = {h1, h2}
  Attempts = 2
  MaxSequence = 3
  MaxOps = 1
  MaxFaults = 2
SPECIFICATION FairSpec
CHECK_DEADLOCK FALSE
PROPERTIES
  OperationsResolve
