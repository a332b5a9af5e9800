CONSTANTS
    r1 = r1
    r2 = r2
    Replicas = {r1, r2}
    Agents = {"s1", "s2", "s3", "newcomer"}
    ClaimOrder <- MCClaimOrder
    Emissions <- MCEmissions
    StalenessK = 1
    LastRound = 2
    MaxTombstones = 2
    EvenWeight = 100
SPECIFICATION Spec
SYMMETRY Symmetry
INVARIANTS
    CarriedMatchesFlat
    TombstoneIsNeverPresent
    AbstentionCannotMute
    OpposedVoiceCannotMute
