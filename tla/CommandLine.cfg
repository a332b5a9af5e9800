CONSTANTS
    p1 = p1
    p2 = p2
    Procs = {p1, p2}
    f1 = f1
    f2 = f2
    Ids = {f1, f2}
    Horizons = {1}
    g1 = g1
    g2 = g2
    Signals = {g1, g2}
    Ttls <- MCTtls
    Tallies <- MCTallies
    DayLength = 2
    MaxClock = 2
    MaxCommands = 3
    MaxFaults = 1
    Width = 4
SPECIFICATION CLSpec
SYMMETRY Symmetry
CHECK_DEADLOCK FALSE
INVARIANTS
    ResolutionSticks
    OneResolution
    StaleMeansExpired
    FaultCostsAtMostTwo
    FalseAcceptanceEarnsNothing
PROPERTIES
    SupersedingIsNoEscape
    AckSilencesOneSurfacing
