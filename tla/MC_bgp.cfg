SPECIFICATION FairSpec
CONSTANTS
    lan = lan
    dmz = dmz
    web = web
    c1 = c1
    l1 = l1
    None = None
    Unreadable = Unreadable
    Subnets = {lan, dmz}
    Selectors = {web}
    Communities = {c1}
    Pools = {l1}
    MaxFaults = 2
    MaxEdits = 1
    MaxCreations = 2
CHECK_DEADLOCK FALSE
PROPERTIES AdvertisementsFollow ConditionTells
