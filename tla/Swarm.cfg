CONSTANTS
    guardian = guardian
    critic = critic
    integrator = integrator
    stranger = stranger
    claim = claim
    Ids = {guardian, critic, integrator}
    Propositions = {claim}
    Initial <- MCInitial
    Messages <- MCMessages
    SelfTrust <- MCSelfTrust
    MessageTrust <- MCMessageTrust
    MaxAdded = 3
    MaxSent = 2
SPECIFICATION SwarmSpec
INVARIANTS
    OrderMattersOnlyForUnknown
    ConsensusBetweenVotes
