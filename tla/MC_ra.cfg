SPECIFICATION FairSpec
CONSTANTS
    g1 = g1
    g2 = g2
    ula = ula
    wide = wide
    long = long
    NoPrefix = NoPrefix
    Prefixes <- MCPrefixes
    Class <- MCClass
    InBounds <- MCInBounds
    Overlong <- MCOverlong
    RequireGlobal = FALSE
    Advertisements <- Every
    Lifetimes = {0, 1, 2}
    Longest = 2
    CheckInterval = 2
    MaxSolicitations = 1
    Capacity = 1
INVARIANTS LeaseBound LoopPicksWinner
PROPERTIES ReceiverSpec SilenceGivesUp
