CONSTANTS
    Fixtures <- MCLosses
    MaxFixtures = 2
    Resamples = 6
    AlphaPercent = 60
    MeanScale = 12
SPECIFICATION Spec
CHECK_DEADLOCK FALSE
INVARIANT
    ClauseOneNeedsAWin
