\* Three overlapping calls; the window is twice the timeout, as in env.ts.
CONSTANTS
  Call = {c1, c2, c3}
  Threshold = 3
  ResetTimeout = 2
  Window = 4
SPECIFICATION FairBreakerSpec
INVARIANTS ClosedBelowThreshold
PROPERTIES OnlyProbesClose ClosesAfterOutage
