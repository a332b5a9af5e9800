CONSTANTS
    a = a
    b = b
    s1 = s1
    s2 = s2
    s3 = s3
    Props = {a, b}
    Sources = {s2}
    Voters = {}
    Cycles = {1}
    Values = {"T", "F"}
    Edges <- MCFeedback
    Successions <- MCSuccessions
    Goals = {b}
    Priorities = {1}
    ClaimOrder <- MCClaimOrder
    SourceWeight <- MCSourceWeight
    SelfTrust <- MCSelfTrust
    MaxRounds = 10
    InitialAgents = {}
    RoleWeighted = FALSE
    UseSwarmConsensus = FALSE
    MaxEvidence = 2
    MaxParallel = 1
SPECIFICATION Spec
INVARIANT FoundedOnEvidence
