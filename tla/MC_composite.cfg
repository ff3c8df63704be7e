SPECIFICATION FairComposite
CONSTANTS
    Prefixes = {p, q}
    NoPrefix = NoPrefix
    SubCapacity = 1
    Capacity = 2
    MaxFailures = 3
PROPERTIES ReceiverSpec FallbackTakesOver ReconcilerLearns
