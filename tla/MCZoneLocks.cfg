SPECIFICATION Spec
CONSTANTS
    r1 = r1
    r2 = r2
    r3 = r3
    Requests = {r1, r2, r3}
    Workload <- FullWorkload
    ZoneNames = {5, 10, 20, 30}
    InitZones <- TwoZones
    InitRecords <- OneRecordEach
    PolicyZone <- PolicyPerZone
    Pool = 4
    Backends = {"mysql", "postgres", "sqlite"}
    MaxId = 5
INVARIANTS
    NoLostUpdate
    NamesUnique
    NoWaitCycle
PROPERTIES
    CommitsOnCurrentRows
SYMMETRY RequestSymmetry
