SPECIFICATION FairSpec
CONSTANTS
    p1 = p1
    p2 = p2
    bogon = bogon
    NoPrefix = NoPrefix
    Prefixes <- MCPrefixes
    Acceptable <- MCAcceptable
    Replies <- MCReplies
    AgeLimit = 14
    BackoffMin = 2
    BackoffMax = 5
    RenewRetryInterval = 2
    ExchangeTimeout = 2
    MaxSleep = 2
    Capacity = 2
INVARIANT LeaseBound
PROPERTIES NoBusyLoop ReceiverSpec Recovers
