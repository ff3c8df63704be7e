SPECIFICATION FairSpec
CONSTANTS
    p = p
    q = q
    h = h
    n = n
    www = www
    None = None
    Needed = TRUE
    Prefixes = {p, q}
    Hosts = {h}
    Statics = {n}
    Hostnames = {www}
    Suffix = h
    RangeFits = {q}
    Modes = {"suffix", "inferred", "named"}
    Providers = {"cilium", "kube-vip", "unknown"}
    Configs <- Migration
    MaxHistory = 1
    MaxEdits = 2
    MaxRotations = 2
CHECK_DEADLOCK FALSE
INVARIANTS PinsKept EntriesOwned NudgeFollows
PROPERTIES DNSFollowsAddress RequestFollows TargetFollows
