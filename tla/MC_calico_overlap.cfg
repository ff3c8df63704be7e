SPECIFICATION FairSpec
CONSTANTS
    None = None
    ByteBits = 2
    Bytes = 4
    Delegated <- MCTwoPrefixes
    Layouts <- MCOneLayout
    SiblingsFit <- MCTwoPrefixes
    UserCIDR <- MCUserCIDR
    RejectsOverlap = TRUE
    MaxHistory = 1
    MaxRotations = 2
    MaxEdits = 0
    MaxFaults = 0
PROPERTY SiblingsFollow
CHECK_DEADLOCK FALSE
