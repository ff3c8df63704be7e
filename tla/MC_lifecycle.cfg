SPECIFICATION FairSpec
CONSTANTS
    eth0 = eth0
    eth1 = eth1
    any = any
    strict = strict
    bad = bad
    None = None
    Unnamed = Unnamed
    n1 = n1
    n2 = n2
    n3 = n3
    Names = {n1, n2, n3}
    Interfaces <- MCInterfaces
    Policies <- MCPolicies
    BadPolicy = bad
    Offered <- MCOffered
    MaxEdits = 4
    MaxFailedStarts = 2
CHECK_DEADLOCK FALSE
INVARIANTS ClaimsAreUses PoolIsShared
PROPERTY EverybodyServed
