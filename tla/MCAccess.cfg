SPECIFICATION Spec
CONSTANTS
    NoRdata = "none"
    BadRdata = "bad"
    BadLabel = "bad label"
    MaxTtl = 1
    NullMx = "null"
    Managers = {m1, m2}
    Labels = {"a", "b", "xa", "y", "z"}
    ZoneNames <- MCZoneNames
    CredNames = {"k", "l"}
    Secrets = {1, 2}
    Owners <- MCOwners
    Requests <- MCRequests
    Messages <- MCMessages
    Grantable <- MCGrantable
    PrimaryNs = "ns"
    ZoneTtl = 1
    FirstZone <- MCFirstZone
    ScopedName = "k"
    GlobalName = "l"
    MaxManage = 3
    NoRow = NoRow
SYMMETRY Symmetry
INVARIANTS
    PoliciesSound
    ReadsWithinGrant
PROPERTIES
    WritesWithinGrant
CHECK_DEADLOCK FALSE
