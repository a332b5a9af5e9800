CONSTANTS
    Fixtures <- MCFixtures
    MaxFixtures = 2
    Resamples = 6
    AlphaPercent = 60
    MeanScale = 12
SPECIFICATION Spec
CHECK_DEADLOCK FALSE
INVARIANTS
    VerdictNeedsRecording
    SignificanceNeedsTheInterval
    PassIsNoArtifact
