SPECIFICATION FairSpec
CONSTANTS
    c1 = c1
    c2 = c2
    Choices = {c1, c2}
    Default <- FirstChoice
    Nothing = Nothing
    Stocks <- EnoughAndFew
    Totals <- FewOrMixed
    MaxClosed = 1
    MaxCalls = 3
    MaxFaults = 1
INVARIANTS CreatedAsValidated RefusedWasWarned
PROPERTIES WaitEnds
CHECK_DEADLOCK FALSE
