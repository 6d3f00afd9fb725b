\* Two uploads that may hold the same play; two faults.
CONSTANTS
  Upload = {u1, u2}
  Record = {p1}
  None = None
  MaxAttempts = 2
  MaxStalls = 1
  MaxFaults = 2
SPECIFICATION FairSpec
INVARIANTS DoneMeansStored ProgressAgrees
PROPERTIES CompletedStays RowEnds
CHECK_DEADLOCK FALSE
