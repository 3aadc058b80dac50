\* Two claude runs hit the provider's limit one after the other.
CONSTANTS
  Runs = {r1, r2}
  Probe = 1
  Reset = 3
SPECIFICATION Spec
PROPERTIES
  RetirementKeepsCooldown
