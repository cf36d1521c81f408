SPECIFICATION FairSpec
CONSTANTS
    s1 = s1
    s2 = s2
    Secondaries = {s1}
    ZoneNames <- CollidingNames
    MaxZone = 1
    MaxSerial = 12
    MaxChanges = 2
    NoRow = NoRow
PROPERTY CatalogConverges
