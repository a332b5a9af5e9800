CONSTANTS
    a = a
    b = b
    s1 = s1
    s2 = s2
    s3 = s3
    Props = {a}
    Sources = {s1, s2, s3}
    Voters = {s1, s2, s3}
    Cycles = {1}
    Values = {"T", "F"}
    Edges = {}
    Successions = {}
    Goals = {}
    Priorities = {1}
    ClaimOrder <- MCClaimOrder
    SourceWeight <- MCSourceWeight
    SelfTrust <- MCSelfTrust
    MaxRounds = 10
    InitialAgents = {s1}
    RoleWeighted = TRUE
    UseSwarmConsensus = TRUE
    MaxEvidence = 3
    MaxParallel = 1
SPECIFICATION Spec
SYMMETRY Newcomers
INVARIANTS
    RecomputeMatchesOracle
    RevisedBeliefIsEarned
PROPERTIES
    LedgerSpec
