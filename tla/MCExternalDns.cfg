SPECIFICATION Spec
CONSTANTS
    ZoneOrder <- MCZoneOrder
    GrantChoices <- MCGrantChoices
    Managed <- MCManaged
    Encoded <- MCEncoded
    DesiredSets <- MCDesiredSets
    ForeignRows <- MCForeignRows
    ZoneTtl = 1
    NullMx = "null"
    MaxTtl = 3
    MaxSerial = 4
    MaxSwitches = 1
    MaxForeign = 1
    MaxFaults = 1
    MaxRetries = 1
INVARIANTS
    SyncedPlansNothing
PROPERTIES
    Converges
    RetryChangesNothing
    TouchesOnlyItsOwn
    AllOrNothing
