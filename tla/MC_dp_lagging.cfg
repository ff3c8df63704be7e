SPECIFICATION FairSpec
CONSTANTS
    p1 = p1  p2 = p2  p3 = p3  p4 = p4  a1 = a1  a2 = a2  plain = plain  cut = cut
    NoPrefix = NoPrefix  NoLayout = NoLayout  NoReceiver = NoReceiver
    Prefixes <- TwoPrefixes
    Acquisitions = {a1}
    Accepts <- FilterOfA2
    Layouts = {cut}
    SubnetsFit <- FitSubnets
    RangesFit <- FitRanges
    Histories = {0}
    CacheMayLag = TRUE
    MaxFaults = 0
INVARIANTS HistoryDisjoint DerivedFollowsCurrent
PROPERTIES Converges OrphanReceiverCleaned
