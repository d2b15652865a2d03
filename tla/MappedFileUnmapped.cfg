SPECIFICATION Spec
CONSTANTS
  GrowBytes = 4
  Needs = {1, 2, 3, 7}
  Reserves = {0, 4, 9}
  MaxBytes = 16
  MaxFaults = 3
CHECK_DEADLOCK FALSE
INVARIANTS
  EnsureMeansMapped
