SPECIFICATION BackendsSpec
CONSTANTS
    None = None
    CIDRKeys = {"cidr-global"}
    RangeKeys = {"range-global"}
    BadKey = "global"
    ByteBits = 2
    Bytes = 4
    Delegated <- MCDelegated
    Layouts <- MCAllLayouts
    SiblingsFit <- MCTwoPrefixes
    UserCIDR <- MCUserCIDR
    UserEntries <- MCUserEntries
    RejectsOverlap = FALSE
    MaxHistory = 1
    MaxRotations = 3
    MaxEdits = 2
    MaxFaults = 1
INVARIANTS WindowsExact OffsetsCarried NothingStranded
PROPERTIES DrainingKept SiblingsFollow KeysFollow
CHECK_DEADLOCK FALSE
