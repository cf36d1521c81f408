SPECIFICATION TransferSpec
SYMMETRY Symmetric
CONSTANTS
    www = www
    v1 = v1
    nullmx = nullmx
    ns1 = ns1
    n1 = n1
    n2 = n2
    t1 = t1
    NoZone = NoZone
    NoTx = NoTx
    NoCopy = NoCopy
    NoEntry = NoEntry
    Apex = "@"
    Owners <- MCOwners
    Values <- MCValues
    NullMx = nullmx
    NameServers = {ns1}
    Ttls = {1}
    Timers = {t1}
    MaxSerial = 3
    Headroom = 1
    Requests <- MCRequests
    Batches <- MCBatches
    MaxOps = 2
    Secondaries = {n1, n2}
    MaxZones = 1
    MaxLoad = 2
INVARIANT
    CacheMatchesSerial
