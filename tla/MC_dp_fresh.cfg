SPECIFICATION Spec
CONSTANTS
    p1 = p1  p2 = p2  p3 = p3  p4 = p4  a1 = a1  a2 = a2  plain = plain  cut = cut
    NoPrefix = NoPrefix  NoLayout = NoLayout  NoReceiver = NoReceiver
    Prefixes <- FourPrefixes
    Acquisitions = {a1, a2}
    Accepts <- FilterOfA2
    Layouts = {plain}
    SubnetsFit <- FitSubnets
    RangesFit <- FitRanges
    Histories = {0}
    CacheMayLag = FALSE
    MaxFaults = 1
SYMMETRY DrainingPrefixes
PROPERTY DrainsReplaced
