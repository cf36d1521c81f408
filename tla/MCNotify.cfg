SPECIFICATION FairSpec
CONSTANTS
    z1 = z1
    z2 = z2
    a1 = a1
    a2 = a2
    r1 = r1
    r2 = r2
    ZoneNames = {z1, z2}
    Catalog = Catalog
    Secondaries <- TwoSecondaries
    Requests = {r1, r2}
    Configs <- AllConfigs
    Retries = 1
    MaxChanges = 2
INVARIANT NothingForgotten
PROPERTIES EveryChangeAnnounced EveryChangeHeard
CHECK_DEADLOCK FALSE
