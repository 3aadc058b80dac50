\* Two queued runs, two slots, one fault.
CONSTANTS
  Runs = {r1, r2}
  MaxConcurrent = 2
  MaxFaults = 1
SPECIFICATION FairSpec
INVARIANTS
  ExitMeansStopped
  AdmissionBounded
PROPERTIES
  SlotsComeBack
  EndsAreReported
