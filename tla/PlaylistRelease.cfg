\* As PlaylistSlots.cfg, with two requests and nothing that fails but attempts.
CONSTANTS
  Request = {r1, r2}
  Token = {k1, k2}
  MaxPending = 1
  MaxHourly = 2
  MaxAttempts = 2
  MaxStalls = 1
  MaxFaults = 0
SPECIFICATION Spec
SYMMETRY Symmetry
INVARIANT SlotKeptUntilFinal
CHECK_DEADLOCK FALSE
