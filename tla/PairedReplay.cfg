CONSTANTS
    a = a
    b = b
    s1 = s1
    Props = {a, b}
    Claims = {a}
    Sources = {s1}
    Voters = {s1}
    Cycles = {1, 2}
    Values = {"T", "F"}
    Edges <- MCEdges
    Successions <- MCSuccessions
    Goals = {a}
    Priorities = {1}
    ClaimOrder <- MCClaimOrder
    SourceWeight <- MCSourceWeight
    SelfTrust <- MCSelfTrust
    MaxRounds = 10
    InitialAgents = {}
    RoleWeighted = FALSE
    UseSwarmConsensus = FALSE
    MaxEvidence = 4
    MaxParallel = 1
    TraceSelectors <- MCSelectors
    OtherCycles = {1}
    StaleAge = 2
    TraceStatuses <- MCStatuses
    Labelings <- MCLabelings
    MaxEvents = 4
SPECIFICATION ReplaySpec
CHECK_DEADLOCK FALSE
INVARIANTS
    SilenceIsForGood
    ChargeHasCause
    UnrecoveredIsContradictory
    EveryPairIsAccountedFor
    AcceptAgreesWithReport
PROPERTIES
    SupportNeverUnaccepts
