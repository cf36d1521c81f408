SPECIFICATION ClientSpec
CONSTANTS
    MaxLabelLen = 2
    MaxDomainLen = 5
    MaxCharStr = 2
    MaxU16 = 65535
    MaxEmailLen = 7
    MaxLocalLen = 3
    MaxTokens = 4
    Tokens <- MCTokens
    Zone <- MCZone
    ZoneSpellings <- MCZoneSpellings
    TxtRequests <- MCTxtRequests
    Hosted <- MCHosted
    Emails <- MCEmails
    ZoneNames = {1, 2, 3}
    RowNames = {1, 2}
    Apex = 1
    FirstZones <- MCFirstZones
    FirstRows <- MCFirstRows
    FirstSnaps <- MCFirstSnaps
    Limits = {{}, {1}, {2}}
    Filters = {{1}, {1, 2}}
    DefaultPage = 2
    MaxWrites = 2
    Procs = {1, 2}
    Permissions = {{2}, {1, 2}}
    Clis = {c1, c2}
    Commands = {"stop", "restart"}
    MaxImages = 3
SYMMETRY SymmetricClis
INVARIANTS
    RunningReachable
    WalkComplete
    SpellingDenotes
    StoredFitsWire
    FilterFindsRow
PROPERTIES
    
    ReadsBackSame
CHECK_DEADLOCK FALSE
