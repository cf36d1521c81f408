SPECIFICATION Spec
CONSTANTS
    r1 = r1
    r2 = r2
    r3 = r3
    Requests = {r1, r2, r3}
    Workload <- RenameWorkload
    ZoneNames = {5, 10, 20, 30}
    InitZones <- TwoZones
    InitRecords <- OneRecordEach
    PolicyZone <- PolicyPerZone
    Pool = 3
    Backends = {"sqlite"}
    MaxId = 5
INVARIANT NoWaitCycle
