\* Three requests, of which two or three may carry the same token.
CONSTANTS
  Request = {r1, r2, r3}
  Token = {k1, k2, k3}
  MaxPending = 1
  MaxHourly = 2
  MaxAttempts = 2
  MaxStalls = 1
  MaxFaults = 2
SPECIFICATION Spec
SYMMETRY Symmetry
INVARIANTS OneJobPerToken SlotsWithinLimit LimitsHold
CHECK_DEADLOCK FALSE
