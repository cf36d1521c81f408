SPECIFICATION FairSpec
CONSTANTS
    s1 = s1
    s2 = s2
    Secondaries = {s1, s2}
    ZoneNames <- PlainNames
    MaxZone = 2
    MaxSerial = 4
    MaxChanges = 2
    NoRow = NoRow
INVARIANT SerialNamesOneList
PROPERTIES CatalogAdvances CatalogConverges
