SPECIFICATION ServingSpec
SYMMETRY Symmetric
CONSTANTS
    www = www
    v1 = v1
    nullmx = nullmx
    ns1 = ns1
    n1 = n1
    n2 = n2
    t1 = t1
    NoZone = NoZone
    NoTx = NoTx
    NoCopy = NoCopy
    NoEntry = NoEntry
    Apex = "@"
    Owners <- MCOwners
    Values <- MCValues
    NullMx = nullmx
    NameServers = {ns1}
    Ttls = {1}
    Timers = {t1}
    MaxSerial = 3
    Headroom = 1
    Requests <- MCRequests
    Batches <- MCBatches
    MaxOps = 2
    Secondaries = {n1, n2}
    MaxZones = 2
    MaxLoad = 2
    MaxMessage = 10
    QuestionSize = 2
    SoaSize = 3
    Stores <- MCStores
    CatalogStores <- MCCatalogStores
    ClientSerials = {0, 1, 2, 3, 5, 7}
    AclEntries = {"a", "host"}
    Resolutions <- MCResolutions
    Clients = {"a", "b"}
    MaxQueries = 2
    Entries = {"x", "y"}
    Lookups <- MCLookups
    Servers = {"a1", "a2", "a3"}
    MaxProbed = 2
INVARIANTS
    StatusTruthful
    OneBody
    CompleteWhenDone
    CacheFresh
    CopyIsOneVersion
    RecreationDetected
PROPERTY
    CopiesAdvance
