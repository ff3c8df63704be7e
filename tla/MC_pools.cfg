SPECIFICATION FairSpec
CONSTANTS
    o1 = o1
    o2 = o2
    p = p
    q = q
    r = r
    subnets = subnets
    Lists = {subnets}
    outer = outer
    inner = inner
    a = a
    None = None
    Objects = {o1}
    Names = {o1}
    NameOf <- Distinct
    DPs = {a}
    Prefixes <- MCPrefixes
    Statics <- MCStatics
    Inside <- MCInside
    Bindings <- MCBindings
    OptIn = {outer}
    MaxHistory = 2
    MaxEdits = 2
    MaxRotations = 2
    MaxFaults = 1
    MaxLost = 1
CHECK_DEADLOCK FALSE
INVARIANTS PinsKept NothingLeaks
PROPERTIES PoolsFollow ConditionTells
