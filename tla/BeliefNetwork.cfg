CONSTANTS
    a = a
    b = b
    c = c
    Props <- MCProps
    Edges <- MCEdges
    MaxParallel = 1
    MaxRounds = 10
SPECIFICATION Spec
INVARIANTS
    TypeOK
    Founded
    DerivationChain
PROPERTIES
    NeverLoweredNorFlipped
    EndsAtFixpoint
