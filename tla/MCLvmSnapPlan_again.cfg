CONSTANTS
    n1 = n1
    a1 = a1
    a2 = a2
    b = b
    Ms = ms
    Peers = {n1}
    LVs = {a1, a2, b}
    Kickstart = {b}
    NodeOf <- Homes
    Rank <- PeersFirst
    RestartFirst = TRUE
    MayForce = FALSE
SPECIFICATION Spec
INVARIANT OnlyMissingIsMissing
