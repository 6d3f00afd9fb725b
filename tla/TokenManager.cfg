\* Three callers, a login or a rotation or both, one fault.
CONSTANTS
  Caller = {c1, c2, c3}
  MaxFailures = 2
  MaxTokens = 3
  MaxCount = 3
  MaxFaults = 1
SPECIFICATION Spec
SYMMETRY Symmetry
INVARIANTS RefreshExclusive StoredTokenWorks NoFalseRevocation

\* Callers stop at the bounds MaxCount and MaxTokens.
CHECK_DEADLOCK FALSE
