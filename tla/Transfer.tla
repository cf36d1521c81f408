------------------------------ MODULE Transfer ------------------------------
(***************************************************************************)
(* Zone transfers (bindizr-dns/src/server): secondaries ask for AXFR or    *)
(* IXFR while the writers of ZoneStore run.  A handler reads the zone row, *)
(* the change log, the snapshots and the records in separate queries, with *)
(* no transaction around them, so a writer may commit, or the zone may be  *)
(* deleted and created again, between any two of its steps.                *)
(*                                                                         *)
(* A secondary is external (BIND9): it asks at any time, has one transfer  *)
(* in flight, and installs an answer it received completely.               *)
(***************************************************************************)
EXTENDS ZoneStore

CONSTANTS
    Secondaries,  \* the servers that transfer the zone
    MaxZones,     \* bound: how often the zone is created
    MaxLoad,      \* bound: that number times the secondaries in use
    NoCopy,       \* a secondary that has not transferred the zone yet
    NoEntry       \* no cache entry for a zone id

ASSUME ZonesAssumption == MaxZones \in Nat

VARIABLES
    zoneId,  \* the id of the zone row, the newest the zones table assigned
    cache,   \* zone_cache: zone id -> [serial, records] or NoEntry
    conns,   \* per secondary, the state of the handler that serves it
    copies,  \* per secondary, the zone it holds; id is the row it came from
    top,     \* history: the highest serial any row of this name has had
    above    \* history: every row was created above the serials before it

transferVars == <<zoneId, cache, conns, copies, top, above>>

ZoneIds == 1..MaxZones

Idle == [pc |-> "idle"]

Fallback == [pc |-> "axfr"]

\* Rows of a zone id exist only while that row is the zone.
Live(id) == zone # NoZone /\ id = zoneId

\* What a handler keeps of find_by_name.
ZoneRead(pc) == [pc |-> pc, id |-> zoneId, zone |-> zone]

\* Secondaries that hold a copy or have a transfer in flight.
InUse == {n \in Secondaries : conns[n] # Idle \/ copies[n] # NoCopy}

SetConn(n, conn) == conns' = [conns EXCEPT ![n] = conn]

\* A transfer that ends with the SOA and the records of an answer.
Answer(id, row, rs) == [pc |-> "answer", copy |-> [id |-> id, zone |-> row, records |-> rs]]

ServerStep == UNCHANGED <<vars, zoneId, copies, top, above>>

-----------------------------------------------------------------------------
(* handle_axfr and zone_cache::list_records                                *)

\* The zone row is read first; without one the answer is NOTAUTH.
AxfrReadZone(n) ==
    /\ conns[n].pc \in {"idle", "axfr"}
    /\ zoneId * Cardinality(InUse \cup {n}) <= MaxLoad
    /\ SetConn(n, IF zone = NoZone THEN Idle ELSE ZoneRead("lookup"))
    /\ ServerStep /\ UNCHANGED cache

CacheHit(entry, serial) == entry # NoEntry /\ entry.serial = serial

\* Mutant of AxfrLookup: any entry is served, under the entry's own serial.
AxfrLookupStale(n) ==
    LET c     == conns[n]
        entry == cache[c.id]
    IN  /\ c.pc = "lookup"
        /\ SetConn(n, IF entry # NoEntry
                        THEN Answer(c.id, [c.zone EXCEPT !.serial = entry.serial], entry.records)
                        ELSE [pc |-> "load", id |-> c.id, zone |-> c.zone])
        /\ ServerStep /\ UNCHANGED cache

AxfrLookup(n) ==
    LET c     == conns[n]
        entry == cache[c.id]
    IN  /\ c.pc = "lookup"
        /\ SetConn(n, IF CacheHit(entry, c.zone.serial)
                        THEN Answer(c.id, c.zone, entry.records)
                        ELSE [pc |-> "load", id |-> c.id, zone |-> c.zone])
        /\ ServerStep /\ UNCHANGED cache

\* The records are read as they are now, not as of the serial read before.
AxfrLoad(n) ==
    LET c == conns[n]
    IN  /\ c.pc = "load"
        /\ SetConn(n, [pc |-> "store", id |-> c.id, zone |-> c.zone,
                       records |-> IF Live(c.id) THEN records ELSE {}])
        /\ ServerStep /\ UNCHANGED cache

AxfrStore(n) ==
    LET c == conns[n]
    IN  /\ c.pc = "store"
        /\ cache' = [cache EXCEPT ![c.id] = [serial |-> c.zone.serial, records |-> c.records]]
        /\ SetConn(n, Answer(c.id, c.zone, c.records))
        /\ ServerStep

\* Other zones push the entry out. A disabled cache behaves as one whose
\* entries are always gone before the lookup, and so does a restarted process.
Evict(id) ==
    /\ cache[id] # NoEntry
    /\ cache' = [cache EXCEPT ![id] = NoEntry]
    /\ ServerStep /\ UNCHANGED conns

-----------------------------------------------------------------------------
(* handle_ixfr                                                             *)

\* The client's serial decides: equal, ahead (a full transfer), or behind.
IxfrReadZone(n) ==
    /\ conns[n].pc = "idle"
    /\ copies[n] # NoCopy
    /\ zone # NoZone
    /\ LET client == copies[n].zone.serial
       IN  SetConn(n, CASE client = zone.serial -> ZoneRead("current")
                        [] client > zone.serial -> Fallback
                        [] client < zone.serial -> ZoneRead("changes"))
    /\ ServerStep /\ UNCHANGED cache

\* One SOA, if its snapshot is still there.
IxfrUpToDate(n) ==
    LET c == conns[n]
    IN  /\ c.pc = "current"
        /\ SetConn(n, IF Live(c.id) /\ c.zone.serial \in DOMAIN snapshots THEN Idle ELSE Fallback)
        /\ ServerStep /\ UNCHANGED cache

\* list_changes_between_serials, grouped by serial: (from, to].
ChangesBetween(id, from, to) ==
    [s \in {u \in DOMAIN changes : Live(id) /\ from < u /\ u <= to /\ changes[u] # <<>>}
        |-> changes[s]]

\* No history, or a history that stops before the current serial, falls back.
IxfrReadChanges(n) ==
    LET c     == conns[n]
        delta == ChangesBetween(c.id, copies[n].zone.serial, c.zone.serial)
    IN  /\ c.pc = "changes"
        /\ SetConn(n, IF c.zone.serial \notin DOMAIN delta THEN Fallback
                      ELSE [pc |-> "snapshots", id |-> c.id, zone |-> c.zone, delta |-> delta])
        /\ ServerStep /\ UNCHANGED cache

RowsOf(log, op) == UNION {log[i].records : i \in {j \in DOMAIN log : log[j].op = op}}

\* Mutant of ApplySection: the additions are streamed before the deletions.
ApplySectionAddsFirst(rs, log) == (rs \cup RowsOf(log, "ADD")) \ RowsOf(log, "DEL")

\* stream_ixfr_body, one serial: every DEL row, then every ADD row. The SOA
\* rows of the log are not sent; the SOAs come from the snapshots.
ApplySection(rs, log) == (rs \ RowsOf(log, "DEL")) \cup RowsOf(log, "ADD")

\* The sections of the serials in turn.
ApplyDelta(rs, delta) ==
    LET after[s \in 0..MaxSerial] ==
            IF s = 0 THEN rs
            ELSE IF s \in DOMAIN delta THEN ApplySection(after[s - 1], delta[s]) ELSE after[s - 1]
    IN  after[MaxSerial]

\* Mutant of IxfrReadSnapshots: the snapshot of the client's serial is not needed.
IxfrReadSnapshotsNew(n) ==
    LET c    == conns[n]
        base == copies[n]
    IN  /\ c.pc = "snapshots"
        /\ SetConn(n, IF ~(Live(c.id) /\ DOMAIN c.delta \subseteq DOMAIN snapshots) THEN Fallback
                      ELSE Answer(base.id,
                                  [serial |-> c.zone.serial, soa |-> snapshots[c.zone.serial]],
                                  ApplyDelta(base.records, c.delta)))
        /\ ServerStep /\ UNCHANGED cache

\* Every step of the chain needs its old and its new snapshot.
IxfrReadSnapshots(n) ==
    LET c       == conns[n]
        base    == copies[n]
        serials == {base.zone.serial} \cup DOMAIN c.delta
    IN  /\ c.pc = "snapshots"
        /\ SetConn(n, IF ~(Live(c.id) /\ serials \subseteq DOMAIN snapshots) THEN Fallback
                      ELSE Answer(base.id,
                                  [serial |-> c.zone.serial, soa |-> snapshots[c.zone.serial]],
                                  ApplyDelta(base.records, c.delta)))
        /\ ServerStep /\ UNCHANGED cache

-----------------------------------------------------------------------------
\* The secondary installs a complete answer.
Receive(n) ==
    /\ conns[n].pc = "answer"
    /\ copies' = [copies EXCEPT ![n] = conns[n].copy]
    /\ SetConn(n, Idle)
    /\ UNCHANGED <<vars, zoneId, cache, top, above>>

\* A connection fails, a query fails, or a partly sent answer is abandoned.
Lose(n) ==
    /\ conns[n].pc # "idle"
    /\ SetConn(n, Idle)
    /\ ServerStep /\ UNCHANGED cache

\* Mutant of ZoneIdAfter: a deleted row's id is assigned again.
ZoneIdAfterReuse == IF zoneId = 0 THEN 1 ELSE zoneId

\* The ids of the zones table are never reused.
ZoneIdAfter == IF zone = NoZone /\ zone' # NoZone THEN zoneId + 1 ELSE zoneId

Write ==
    /\ Next
    /\ zoneId' = ZoneIdAfter
    /\ zoneId' <= MaxZones
    /\ zoneId' * Cardinality(InUse) <= MaxLoad
    /\ top' = IF zone' = NoZone \/ zone'.serial <= top THEN top ELSE zone'.serial
    /\ above' = (above /\ (zoneId' # zoneId => zone'.serial > top))
    /\ UNCHANGED <<cache, conns, copies>>

TransferInit ==
    /\ Init
    /\ zoneId = 0
    /\ cache = [id \in ZoneIds |-> NoEntry]
    /\ conns = [n \in Secondaries |-> Idle]
    /\ copies = [n \in Secondaries |-> NoCopy]
    /\ top = 0
    /\ above = TRUE

AxfrNext(n) == AxfrReadZone(n) \/ AxfrLookup(n) \/ AxfrLoad(n) \/ AxfrStore(n)

IxfrNext(n) == IxfrReadZone(n) \/ IxfrUpToDate(n) \/ IxfrReadChanges(n) \/ IxfrReadSnapshots(n)

TransferNext ==
    \/ Write
    \/ \E n \in Secondaries : AxfrNext(n) \/ IxfrNext(n) \/ Receive(n) \/ Lose(n)
    \/ \E id \in ZoneIds : Evict(id)

TransferSpec == TransferInit /\ [][TransferNext]_<<vars, transferVars>>

-----------------------------------------------------------------------------
(* Properties                                                              *)

\* "an entry matching the zone's current serial is always fresh" (zone_cache):
\* what a lookup at the current serial returns is what the database holds.
CacheFresh ==
    zone # NoZone /\ cache[zoneId] # NoEntry =>
        (cache[zoneId].serial = zone.serial => cache[zoneId].records = records)

\* A cache entry holds the records of the serial it is stored under, as
\* list_records says of concurrent misses: "both store the same serial's data".
CacheMatchesSerial ==
    zone # NoZone /\ cache[zoneId] # NoEntry =>
        cache[zoneId].records = RecordsAt(cache[zoneId].serial)

\* Some serial's rows add a record and delete it again, as an RFC 2136 update
\* may; the two sections of an IXFR step cannot carry that order.
AddsThenDeletes(log) ==
    \E i, j \in DOMAIN log :
        i < j /\ log[i].op = "ADD" /\ log[j].op = "DEL" /\ log[i].records \cap log[j].records # {}

Reorderable == \A s \in DOMAIN changes : ~AddsThenDeletes(changes[s])

\* A secondary that holds this zone, as opposed to a deleted one of its name.
Holds(n) == copies[n] # NoCopy /\ zone # NoZone /\ copies[n].id = zoneId

\* A secondary at the zone's current serial holds the zone's content, however
\* many transfers, full or incremental, and however torn, brought it there.
SyncedExact ==
    \A n \in Secondaries :
        Holds(n) /\ copies[n].zone.serial = zone.serial =>
            copies[n].zone = zone /\ copies[n].records = records

\* A secondary never holds a mixture: its SOA is that of its serial and its
\* records are those of one version, of its serial or of a later one (the zone
\* row and the records of an AXFR are read apart).
CopyIsOneVersion ==
    Reorderable =>
        \A n \in Secondaries :
            Holds(n) =>
                /\ copies[n].zone.serial \in DOMAIN snapshots
                /\ copies[n].zone.soa = snapshots[copies[n].zone.serial]
                /\ \E s \in copies[n].zone.serial..zone.serial : copies[n].records = RecordsAt(s)

\* A zone created again above every serial its name has had replaces the old
\* one: a secondary with the deleted zone's content is behind the new zone and
\* never told it is current, nor moved on by increments of the new zone.
RecreationDetected ==
    above /\ zone # NoZone =>
        \A n \in Secondaries :
            copies[n] # NoCopy /\ copies[n].id # zoneId =>
                \A s \in DOMAIN snapshots : copies[n].zone.serial < s

\* No transfer takes a secondary back to an earlier serial of the same zone,
\* though answers are built from rows, cached or not, read some time before.
CopiesAdvance ==
    [][\A n \in Secondaries :
          copies[n] # NoCopy /\ copies'[n].id = copies[n].id =>
              copies'[n].zone.serial >= copies[n].zone.serial]_copies

=============================================================================
