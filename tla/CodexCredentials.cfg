\* Two runs share the subscription; a request or a tick may crash or stall.
CONSTANTS
  Runs = {r1, r2}
  Handlers = {h1, h2}
  Attempts = 2
  MaxSequence = 3
  MaxOps = 2
  MaxFaults = 1
SPECIFICATION Spec
SYMMETRY Symmetric
CHECK_DEADLOCK FALSE
INVARIANTS
  RetiredForGood
  RotationRemembered
PROPERTIES
  FencedWritesNeverLand
  LiveLeaseNotStolen
