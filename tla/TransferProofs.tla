--------------------------- MODULE TransferProofs ---------------------------
(***************************************************************************)
(* What the steps of the DNS server and of the secondaries keep, for any   *)
(* number of secondaries, serials and re-creations: what a transfer has    *)
(* read was of the zone at some time, and what it sends and leaves behind  *)
(* is a version. The steps of the writers and the theorems are in          *)
(* VersionProofs.                                                          *)
(***************************************************************************)
EXTENDS HistoryProofs

\* A leaf that names no prover: SMT, then Zenon, then SMT once more with more time.
USE SMTT(30), ZenonT(20), SMTT(60)

-----------------------------------------------------------------------------
(* The inductive invariant                                                 *)

\* A row of the zone that was read some time ago: its id was assigned; if it is
\* the zone's, the zone has not gone back since; if it is not, and each zone
\* was created above the ones before, its serial is below every one of now.
Seen(id, serial) ==
    /\ id \in ZoneIds /\ id <= zoneId
    /\ serial \in Nat /\ serial <= top
    /\ Live(id) => serial <= zone.serial
    /\ above /\ zone # NoZone /\ id # zoneId => \A s \in DOMAIN snapshots : serial < s

\* Records loaded under a serial: if the serial is still the zone's, they are
\* the zone's.
Fresh(id, serial, rs) == Live(id) /\ serial = zone.serial => rs = records

Reading(n) == conns[n].pc \in {"lookup", "load", "store", "current", "changes", "snapshots"}

\* A handler's row is not older than the copy of the secondary it serves.
ConnOK(n) ==
    /\ Reading(n) =>
         /\ Seen(conns[n].id, conns[n].zone.serial)
         /\ copies[n] # NoCopy =>
              /\ copies[n].id <= conns[n].id
              /\ copies[n].id = conns[n].id => copies[n].zone.serial <= conns[n].zone.serial
    /\ conns[n].pc = "store" => Fresh(conns[n].id, conns[n].zone.serial, conns[n].records)
    /\ conns[n].pc \in {"changes", "snapshots"} =>
         copies[n] # NoCopy /\ copies[n].zone.serial <= conns[n].zone.serial
    /\ conns[n].pc = "answer" =>
         /\ Seen(conns[n].copy.id, conns[n].copy.zone.serial)
         /\ copies[n] # NoCopy /\ copies[n].id = conns[n].copy.id =>
              copies[n].zone.serial <= conns[n].copy.zone.serial

CopyOK(n) == copies[n] # NoCopy => Seen(copies[n].id, copies[n].zone.serial)

EntryOK(id) ==
    cache[id] # NoEntry => Seen(id, cache[id].serial) /\ Fresh(id, cache[id].serial, cache[id].records)

Tables ==
    /\ zoneId \in Nat /\ top \in Nat /\ above \in BOOLEAN
    /\ zone # NoZone => zoneId \in ZoneIds /\ zone.serial <= top
    /\ conns = [n \in Secondaries |-> conns[n]]
    /\ copies = [n \in Secondaries |-> copies[n]]
    /\ cache = [id \in ZoneIds |-> cache[id]]

Held ==
    /\ \A n \in Secondaries : ConnOK(n) /\ CopyOK(n)
    /\ \A id \in ZoneIds : EntryOK(id)

TransferInv == IndInv /\ Tables /\ Held

-----------------------------------------------------------------------------
(* The server's steps: the zone stays as it is                             *)

\* While the zone stays, what was seen stays seen and what was fresh fresh.
LEMMA Stays ==
    ASSUME UNCHANGED <<vars, zoneId, top, above>>, NEW id, NEW serial, NEW rs
    PROVE  (Seen(id, serial)' <=> Seen(id, serial)) /\ (Fresh(id, serial, rs)' <=> Fresh(id, serial, rs))
  BY DEF vars, Seen, Fresh, Live

\* The zone as it is now counts as seen.
LEMMA ZoneSeen ==
    ASSUME IndInv, Tables, zone # NoZone
    PROVE  Seen(zoneId, zone.serial) /\ zone.serial \in Nat
  <1>1. zone.serial \in 1..MaxSerial
    BY CurrentVersion
  <1> QED BY <1>1, SerialAssumption, ZonesAssumption DEF Seen, Tables, Live, ZoneIds

\* What is left to show of a step that changes the handler of one secondary.
LEMMA ConnStep ==
    ASSUME TransferInv, NEW n \in Secondaries, UNCHANGED <<vars, zoneId, top, above, copies>>,
           NEW conn, SetConn(n, conn), Tables', ConnOK(n)', \A id \in ZoneIds : EntryOK(id)'
    PROVE  TransferInv'
  <1>1. IndInv'
    BY IndInvStays DEF TransferInv
  <1>2. ASSUME NEW m \in Secondaries PROVE ConnOK(m)' /\ CopyOK(m)'
    <2>1. ConnOK(m) /\ CopyOK(m)
      BY DEF TransferInv, Held
    <2>2. CopyOK(m)'
      BY <2>1, Stays DEF CopyOK
    <2>3. CASE m # n
      <3>1. conns'[m] = conns[m] /\ copies'[m] = copies[m]
        BY <2>3 DEF SetConn, TransferInv, Tables
      <3> QED BY <2>1, <2>2, <3>1, Stays DEF ConnOK, Reading
    <2> QED BY <2>2, <2>3
  <1> QED BY <1>1, <1>2 DEF TransferInv, Held

\* The step leaves the cache alone too.
LEMMA HandlerStep ==
    ASSUME TransferInv, NEW n \in Secondaries, ServerStep, UNCHANGED cache, NEW conn, SetConn(n, conn),
           conns'[n] = conn => ConnOK(n)'
    PROVE  TransferInv'
  <1>1. UNCHANGED <<vars, zoneId, top, above, copies>>
    BY DEF ServerStep
  <1>2. Tables'
    BY <1>1 DEF TransferInv, Tables, SetConn, vars
  <1>3. conns'[n] = conn
    BY DEF TransferInv, Tables, SetConn
  <1>4. ASSUME NEW id \in ZoneIds PROVE EntryOK(id)'
    BY <1>1, Stays DEF EntryOK, TransferInv, Held
  <1> QED BY <1>1, <1>2, <1>3, <1>4, ConnStep

\* A handler that is idle, or falls back to a full transfer, holds nothing.
LEMMA IdleStep ==
    ASSUME TransferInv, NEW n \in Secondaries, ServerStep, UNCHANGED cache,
           SetConn(n, Idle) \/ SetConn(n, Fallback)
    PROVE  TransferInv'
  <1>1. ASSUME NEW conn, conn.pc \in {"idle", "axfr"}, conns'[n] = conn PROVE ConnOK(n)'
    BY <1>1 DEF ConnOK, Reading
  <1>2. Idle.pc = "idle" /\ Fallback.pc = "axfr"
    BY DEF Idle, Fallback
  <1> QED BY <1>1, <1>2, HandlerStep

\* The zone row is read: it is at least as new as the secondary's copy.
LEMMA ReadStep ==
    ASSUME TransferInv, NEW n \in Secondaries, ServerStep, UNCHANGED cache, zone # NoZone,
           NEW pc \in {"lookup", "current", "changes"}, SetConn(n, ZoneRead(pc)),
           pc = "changes" => copies[n] # NoCopy /\ copies[n].zone.serial < zone.serial
    PROVE  TransferInv'
  <1>1. UNCHANGED <<vars, zoneId, top, above, copies>>
    BY DEF ServerStep
  <1>2. Seen(zoneId, zone.serial) /\ zone.serial \in Nat
    BY ZoneSeen DEF TransferInv
  <1>3. copies[n] # NoCopy => Seen(copies[n].id, copies[n].zone.serial)
    BY DEF TransferInv, Held, CopyOK
  <1>4. copies[n] # NoCopy => /\ copies[n].id <= zoneId /\ copies[n].zone.serial \in Nat
                              /\ copies[n].id = zoneId => copies[n].zone.serial <= zone.serial
    BY <1>3 DEF Seen, Live
  <1>5. ASSUME conns'[n] = ZoneRead(pc) PROVE ConnOK(n)'
    <2>1. conns'[n].pc = pc /\ conns'[n].id = zoneId /\ conns'[n].zone = zone
      BY <1>5 DEF ZoneRead
    <2>2. Seen(conns[n].id, conns[n].zone.serial)'
      BY <1>1, <1>2, <2>1, Stays DEF vars
    <2> QED BY <1>1, <1>2, <1>4, <2>1, <2>2 DEF ConnOK, Reading
  <1> QED BY <1>5, HandlerStep

\* handle_axfr reads the zone row.
LEMMA AxfrReadZoneStep ==
    ASSUME TransferInv, NEW n \in Secondaries, AxfrReadZone(n)
    PROVE  TransferInv'
  BY IdleStep, ReadStep DEF AxfrReadZone

\* handle_ixfr does, and compares the client's serial with it.
LEMMA IxfrReadZoneStep ==
    ASSUME TransferInv, NEW n \in Secondaries, IxfrReadZone(n)
    PROVE  TransferInv'
  <1>1. ServerStep /\ UNCHANGED cache /\ copies[n] # NoCopy /\ zone # NoZone
    BY DEF IxfrReadZone
  <1>2. zone.serial \in Nat /\ copies[n].zone.serial \in Nat
    BY <1>1, ZoneSeen DEF TransferInv, Held, CopyOK, Seen
  <1>3. CASE copies[n].zone.serial = zone.serial
    <2>1. SetConn(n, ZoneRead("current"))
      BY <1>2, <1>3 DEF IxfrReadZone
    <2> QED BY <1>1, <2>1, ReadStep
  <1>4. CASE copies[n].zone.serial > zone.serial
    <2>1. SetConn(n, Fallback)
      BY <1>2, <1>4 DEF IxfrReadZone
    <2> QED BY <1>1, <2>1, IdleStep
  <1>5. CASE copies[n].zone.serial < zone.serial
    <2>1. SetConn(n, ZoneRead("changes"))
      BY <1>2, <1>5 DEF IxfrReadZone
    <2> QED BY <1>1, <1>5, <2>1, ReadStep
  <1> QED BY <1>2, <1>3, <1>4, <1>5

\* A handler goes on with the row it read.
LEMMA OnwardStep ==
    ASSUME TransferInv, NEW n \in Secondaries, ServerStep, UNCHANGED cache, NEW conn, SetConn(n, conn), Reading(n),
           conn.id = conns[n].id, conn.zone = conns[n].zone,
           \/ conn.pc = "load"
           \/ conn.pc = "store" /\ Fresh(conn.id, conn.zone.serial, conn.records)
           \/ conn.pc = "snapshots" /\ conns[n].pc = "changes"
    PROVE  TransferInv'
  <1>1. UNCHANGED <<vars, zoneId, top, above, copies>>
    BY DEF ServerStep
  <1>2. ConnOK(n)
    BY DEF TransferInv, Held
  <1>3. ASSUME conns'[n] = conn PROVE ConnOK(n)'
    <2>1. Seen(conns[n].id, conns[n].zone.serial)'
      BY <1>1, <1>2, <1>3, Stays DEF ConnOK
    <2>2. conn.pc = "store" => Fresh(conns[n].id, conns[n].zone.serial, conns[n].records)'
      BY <1>1, <1>3, Stays
    <2> QED BY <1>1, <1>2, <1>3, <2>1, <2>2 DEF ConnOK, Reading
  <1> QED BY <1>3, HandlerStep

\* A handler has its answer, as new as the secondary's copy.
LEMMA AnswerStep ==
    ASSUME TransferInv, NEW n \in Secondaries, NEW id, NEW row, NEW rs, SetConn(n, Answer(id, row, rs)),
           UNCHANGED <<vars, zoneId, top, above, copies>>, Tables', \A i \in ZoneIds : EntryOK(i)',
           Seen(id, row.serial), copies[n] # NoCopy /\ copies[n].id = id => copies[n].zone.serial <= row.serial
    PROVE  TransferInv'
  <1>1. conns'[n] = Answer(id, row, rs)
    BY DEF TransferInv, Tables, SetConn
  <1>2. conns'[n].pc = "answer" /\ conns'[n].copy.id = id /\ conns'[n].copy.zone = row
    BY <1>1 DEF Answer
  <1>3. Seen(conns[n].copy.id, conns[n].copy.zone.serial)'
    BY <1>2, Stays
  <1>4. ConnOK(n)'
    BY <1>2, <1>3 DEF ConnOK, Reading
  <1> QED BY <1>4, ConnStep

\* The server's step that ends in an answer and leaves the cache alone.
LEMMA AnswerUncached ==
    ASSUME TransferInv, NEW n \in Secondaries, NEW id, NEW row, NEW rs, SetConn(n, Answer(id, row, rs)),
           ServerStep, UNCHANGED cache,
           Seen(id, row.serial), copies[n] # NoCopy /\ copies[n].id = id => copies[n].zone.serial <= row.serial
    PROVE  TransferInv'
  <1>1. UNCHANGED <<vars, zoneId, top, above, copies>>
    BY DEF ServerStep
  <1>2. Tables'
    BY <1>1 DEF TransferInv, Tables, SetConn, vars
  <1>3. ASSUME NEW i \in ZoneIds PROVE EntryOK(i)'
    BY <1>1, Stays DEF EntryOK, TransferInv, Held
  <1> QED BY <1>1, <1>2, <1>3, AnswerStep

\* zone_cache::list_records looks the zone up.
LEMMA AxfrLookupStep ==
    ASSUME TransferInv, NEW n \in Secondaries, AxfrLookup(n)
    PROVE  TransferInv'
  <1> DEFINE c == conns[n]
  <1>1. ServerStep /\ UNCHANGED cache /\ c.pc = "lookup" /\ Reading(n)
    BY DEF AxfrLookup, Reading
  <1>2. ConnOK(n)
    BY DEF TransferInv, Held
  <1>3. CASE SetConn(n, Answer(c.id, c.zone, cache[c.id].records))
    <2>1. Seen(c.id, c.zone.serial) /\ (copies[n] # NoCopy /\ copies[n].id = c.id => copies[n].zone.serial <= c.zone.serial)
      BY <1>1, <1>2 DEF ConnOK
    <2> QED BY <1>1, <1>3, <2>1, AnswerUncached
  <1>4. CASE SetConn(n, [pc |-> "load", id |-> c.id, zone |-> c.zone])
    BY <1>1, <1>4, OnwardStep
  <1> QED BY <1>3, <1>4 DEF AxfrLookup

\* The records are loaded; at an unchanged serial they are the zone's.
LEMMA AxfrLoadStep ==
    ASSUME TransferInv, NEW n \in Secondaries, AxfrLoad(n)
    PROVE  TransferInv'
  <1> DEFINE c == conns[n]
             conn == [pc |-> "store", id |-> c.id, zone |-> c.zone, records |-> IF Live(c.id) THEN records ELSE {}]
  <1>1. ServerStep /\ UNCHANGED cache /\ Reading(n) /\ SetConn(n, conn)
    BY DEF AxfrLoad, Reading
  <1>2. /\ conn.pc = "store" /\ conn.id = c.id /\ conn.zone = c.zone
        /\ conn.records = IF Live(c.id) THEN records ELSE {}
    OBVIOUS
  <1> HIDE DEF conn
  <1>3. Fresh(conn.id, conn.zone.serial, conn.records)
    BY <1>2 DEF Fresh
  <1> QED BY <1>1, <1>2, <1>3, OnwardStep

\* They are stored under the serial read first.
LEMMA AxfrStoreStep ==
    ASSUME TransferInv, NEW n \in Secondaries, AxfrStore(n)
    PROVE  TransferInv'
  <1> DEFINE c == conns[n]
  <1>1. /\ UNCHANGED <<vars, zoneId, top, above, copies>> /\ c.pc = "store" /\ Reading(n)
        /\ cache' = [cache EXCEPT ![c.id] = [serial |-> c.zone.serial, records |-> c.records]]
        /\ SetConn(n, Answer(c.id, c.zone, c.records))
    BY DEF AxfrStore, Reading, ServerStep
  <1>2. /\ Seen(c.id, c.zone.serial) /\ Fresh(c.id, c.zone.serial, c.records)
        /\ copies[n] # NoCopy /\ copies[n].id = c.id => copies[n].zone.serial <= c.zone.serial
    BY <1>1 DEF ConnOK, TransferInv, Held
  <1>3. Tables'
    BY <1>1 DEF TransferInv, Tables, SetConn, vars
  <1>4. ASSUME NEW i \in ZoneIds PROVE EntryOK(i)'
    <2>1. CASE i = c.id
      <3>1. cache'[i].serial = c.zone.serial /\ cache'[i].records = c.records
        BY <1>1, <2>1 DEF TransferInv, Tables
      <3> QED BY <1>1, <1>2, <2>1, <3>1, Stays DEF EntryOK
    <2>2. CASE i # c.id
      <3>1. cache'[i] = cache[i]
        BY <1>1, <2>2 DEF TransferInv, Tables
      <3> QED BY <1>1, <3>1, Stays, Zenon DEF EntryOK, TransferInv, Held
    <2> QED BY <2>1, <2>2
  <1> QED BY <1>1, <1>2, <1>3, <1>4, AnswerStep

\* An entry is pushed out.
LEMMA EvictStep ==
    ASSUME TransferInv, NEW id \in ZoneIds, Evict(id)
    PROVE  TransferInv'
  <1>1. UNCHANGED <<vars, zoneId, top, above, copies, conns>> /\ cache' = [cache EXCEPT ![id] = NoEntry]
    BY DEF Evict, ServerStep
  <1>2. IndInv'
    BY <1>1, IndInvStays DEF TransferInv
  <1>3. Tables'
    BY <1>1 DEF TransferInv, Tables, vars
  <1>4. ASSUME NEW m \in Secondaries PROVE ConnOK(m)' /\ CopyOK(m)'
    BY <1>1, Stays, Zenon DEF TransferInv, Held, ConnOK, CopyOK, Reading
  <1>5. ASSUME NEW i \in ZoneIds PROVE EntryOK(i)'
    <2>1. cache'[i] = NoEntry \/ cache'[i] = cache[i]
      BY <1>1 DEF TransferInv, Tables
    <2> QED BY <1>1, <2>1, Stays DEF TransferInv, Held, EntryOK
  <1> QED BY <1>2, <1>3, <1>4, <1>5 DEF TransferInv, Held

\* The client was up to date.
LEMMA IxfrUpToDateStep ==
    ASSUME TransferInv, NEW n \in Secondaries, IxfrUpToDate(n)
    PROVE  TransferInv'
  BY IdleStep DEF IxfrUpToDate

\* The log is read.
LEMMA IxfrReadChangesStep ==
    ASSUME TransferInv, NEW n \in Secondaries, IxfrReadChanges(n)
    PROVE  TransferInv'
  <1> DEFINE c == conns[n]
             delta == ChangesBetween(c.id, copies[n].zone.serial, c.zone.serial)
             conn == [pc |-> "snapshots", id |-> c.id, zone |-> c.zone, delta |-> delta]
  <1>1. ServerStep /\ UNCHANGED cache /\ c.pc = "changes" /\ Reading(n)
    BY DEF IxfrReadChanges, Reading
  <1>2. CASE SetConn(n, Fallback)
    BY <1>1, <1>2, IdleStep
  <1>3. CASE SetConn(n, conn)
    <2>1. conn.pc = "snapshots" /\ conn.id = c.id /\ conn.zone = c.zone
      OBVIOUS
    <2> HIDE DEF conn
    <2> QED BY <1>1, <1>3, <2>1, OnwardStep
  <1> QED BY <1>2, <1>3 DEF IxfrReadChanges

\* The chain is complete: its last serial is not below the client's, and the
\* client's is a serial of this zone, which a copy of an older zone's is not.
LEMMA IxfrReadSnapshotsStep ==
    ASSUME TransferInv, NEW n \in Secondaries, IxfrReadSnapshots(n)
    PROVE  TransferInv'
  <1> DEFINE c == conns[n]
             base == copies[n]
             row == [serial |-> c.zone.serial, soa |-> snapshots[c.zone.serial]]
             rs == ApplyDelta(base.records, c.delta)
  <1>1. ServerStep /\ UNCHANGED cache /\ c.pc = "snapshots" /\ Reading(n)
    BY DEF IxfrReadSnapshots, Reading
  <1>2. CASE SetConn(n, Fallback)
    BY <1>1, <1>2, IdleStep
  <1>3. CASE Live(c.id) /\ base.zone.serial \in DOMAIN snapshots /\ SetConn(n, Answer(base.id, row, rs))
    <2>1. /\ Seen(c.id, c.zone.serial) /\ base # NoCopy /\ base.id <= c.id /\ base.zone.serial <= c.zone.serial
          /\ Seen(base.id, base.zone.serial)
      BY <1>1 DEF ConnOK, CopyOK, TransferInv, Held
    <2>2. base.id = zoneId \/ ~above
      BY <1>3, <2>1 DEF Seen, Live
    <2>3. Seen(base.id, c.zone.serial)
      BY <1>3, <2>1, <2>2 DEF Seen, Live
    <2>4. row.serial = c.zone.serial
      OBVIOUS
    <2> HIDE DEF row, rs
    <2> QED BY <1>1, <1>3, <2>1, <2>3, <2>4, AnswerUncached
  <1> QED BY <1>2, <1>3 DEF IxfrReadSnapshots

\* The secondary installs the answer, which is no step back.
LEMMA ReceiveStep ==
    ASSUME TransferInv, NEW n \in Secondaries, Receive(n)
    PROVE  TransferInv'
  <1>1. /\ UNCHANGED <<vars, zoneId, top, above, cache>> /\ conns[n].pc = "answer"
        /\ copies' = [copies EXCEPT ![n] = conns[n].copy] /\ conns' = [conns EXCEPT ![n] = Idle]
    BY DEF Receive, SetConn
  <1>2. IndInv'
    BY <1>1, IndInvStays DEF TransferInv
  <1>3. Tables'
    BY <1>1, Zenon DEF TransferInv, Tables, vars
  <1>4. ASSUME NEW i \in ZoneIds PROVE EntryOK(i)'
    BY <1>1, Stays DEF EntryOK, TransferInv, Held
  <1>5. conns'[n].pc = "idle" /\ copies'[n] = conns[n].copy /\ Seen(conns[n].copy.id, conns[n].copy.zone.serial)
    BY <1>1 DEF TransferInv, Tables, Held, ConnOK, Idle
  <1>6. ConnOK(n)' /\ CopyOK(n)'
    BY <1>1, <1>5, Stays, Zenon DEF ConnOK, CopyOK, Reading
  <1>7. ASSUME NEW m \in Secondaries, m # n PROVE ConnOK(m)' /\ CopyOK(m)'
    <2>1. conns'[m] = conns[m] /\ copies'[m] = copies[m] /\ ConnOK(m) /\ CopyOK(m)
      BY <1>1, <1>7, Zenon DEF TransferInv, Tables, Held
    <2> QED BY <1>1, <2>1, Stays, Zenon DEF ConnOK, CopyOK, Reading
  <1> QED BY <1>2, <1>3, <1>4, <1>6, <1>7 DEF TransferInv, Held

\* A transfer is lost.
LEMMA LoseStep ==
    ASSUME TransferInv, NEW n \in Secondaries, Lose(n)
    PROVE  TransferInv'
  BY IdleStep DEF Lose

-----------------------------------------------------------------------------
(* Copies are versions: the inductive invariant                            *)

\* A row read of the zone: its serial has a snapshot, with its SOA.
RowOf(id, row) == Live(id) => row.serial \in DOMAIN snapshots /\ row.soa = snapshots[row.serial]

\* Records of the zone: those of one version from low to high.
OneVersion(id, low, high, rs) ==
    Live(id) /\ Reorderable => \E s \in DOMAIN snapshots : low <= s /\ s <= high /\ rs = RecordsAt(s)

\* The log rows of the zone's serials after low, up to high.
Sections(id, low, high, delta) ==
    Live(id) =>
        /\ DOMAIN delta = {u \in DOMAIN changes : low < u /\ u <= high /\ changes[u] # <<>>}
        /\ \A u \in DOMAIN delta : delta[u] = changes[u]

\* The sections of an IXFR from the serial low to the serial high, applied to any
\* version in between, give the version of high.
Replays ==
    zone # NoZone /\ Reorderable =>
        \A low, high \in DOMAIN snapshots : \A base \in low..high : \A delta :
            Sections(zoneId, low, high, delta) => ApplyDelta(RecordsAt(base), delta) = RecordsAt(high)

\* A handler of an IXFR serves a copy that is not ahead of the row it read.
ConnWhole(n) ==
    /\ Reading(n) => RowOf(conns[n].id, conns[n].zone)
    /\ conns[n].pc = "store" => OneVersion(conns[n].id, conns[n].zone.serial, MaxSerial, conns[n].records)
    /\ conns[n].pc \in {"changes", "snapshots"} /\ copies[n].id = conns[n].id =>
         OneVersion(conns[n].id, copies[n].zone.serial, conns[n].zone.serial, copies[n].records)
    /\ conns[n].pc = "snapshots" =>
         Sections(conns[n].id, copies[n].zone.serial, conns[n].zone.serial, conns[n].delta)
    /\ conns[n].pc = "answer" =>
         /\ RowOf(conns[n].copy.id, conns[n].copy.zone)
         /\ OneVersion(conns[n].copy.id, conns[n].copy.zone.serial, MaxSerial, conns[n].copy.records)

CopyWhole(n) ==
    copies[n] # NoCopy =>
        /\ RowOf(copies[n].id, copies[n].zone)
        /\ OneVersion(copies[n].id, copies[n].zone.serial, MaxSerial, copies[n].records)

EntryWhole(id) == cache[id] # NoEntry => OneVersion(id, cache[id].serial, MaxSerial, cache[id].records)

Whole ==
    /\ \A n \in Secondaries : ConnWhole(n) /\ CopyWhole(n)
    /\ \A id \in ZoneIds : EntryWhole(id)

-----------------------------------------------------------------------------
(* Copies are versions: the server's steps                                 *)

\* While the zone stays, rows, versions and sections of it stay such.
LEMMA WholeStays ==
    ASSUME UNCHANGED <<vars, zoneId>>, NEW id, NEW low, NEW high, NEW x
    PROVE  /\ RowOf(id, x)' <=> RowOf(id, x)
           /\ OneVersion(id, low, high, x)' <=> OneVersion(id, low, high, x)
           /\ Sections(id, low, high, x)' <=> Sections(id, low, high, x)
  <1>1. UNCHANGED <<zone, zoneId, changes, snapshots, records>>
    BY DEF vars
  <1>2. Live(id)' <=> Live(id)
    BY <1>1 DEF Live
  <1>3. Reorderable' <=> Reorderable
    BY <1>1 DEF Reorderable
  <1>4. \A s : RecordsAt(s)' = RecordsAt(s)
    BY <1>1 DEF RecordsAt
  <1>5. RowOf(id, x)' <=> RowOf(id, x)
    BY <1>1, <1>2 DEF RowOf
  <1>6. OneVersion(id, low, high, x)' <=> OneVersion(id, low, high, x)
    BY <1>1, <1>2, <1>3, <1>4, Zenon DEF OneVersion
  <1>7. Sections(id, low, high, x)' <=> Sections(id, low, high, x)
    BY <1>1, <1>2, Zenon DEF Sections
  <1> QED BY <1>5, <1>6, <1>7

\* What is left to show of a step that changes the handler of one secondary.
LEMMA WholeConnStep ==
    ASSUME TransferInv, Whole, NEW n \in Secondaries, ServerStep, NEW conn, SetConn(n, conn),
           conns'[n] = conn => ConnWhole(n)', \A id \in ZoneIds : EntryWhole(id)'
    PROVE  Whole'
  <1>1. UNCHANGED <<vars, zoneId>> /\ UNCHANGED copies
    BY DEF ServerStep
  <1>2. conns'[n] = conn /\ \A m \in Secondaries : m # n => conns'[m] = conns[m]
    BY DEF TransferInv, Tables, SetConn
  <1>3. ASSUME NEW m \in Secondaries PROVE ConnWhole(m)' /\ CopyWhole(m)'
    <2>1. ConnWhole(m) /\ CopyWhole(m)
      BY DEF Whole
    <2>2. CopyWhole(m)'
      BY <1>1, <2>1, WholeStays, Zenon DEF CopyWhole
    <2>3. CASE m # n
      <3>1. conns'[m] = conns[m] /\ copies'[m] = copies[m]
        BY <1>1, <1>2, <2>3
      <3> QED BY <1>1, <2>1, <2>2, <3>1, WholeStays, Zenon DEF ConnWhole, Reading
    <2> QED BY <1>2, <2>2, <2>3
  <1> QED BY <1>3 DEF Whole

\* The step leaves the cache alone too.
LEMMA WholeHandlerStep ==
    ASSUME TransferInv, Whole, NEW n \in Secondaries, ServerStep, UNCHANGED cache, NEW conn, SetConn(n, conn),
           conns'[n] = conn => ConnWhole(n)'
    PROVE  Whole'
  <1>1. UNCHANGED <<vars, zoneId>>
    BY DEF ServerStep
  <1>2. ASSUME NEW id \in ZoneIds PROVE EntryWhole(id)'
    <2>1. EntryWhole(id) /\ cache'[id] = cache[id]
      BY DEF Whole
    <2> QED BY <1>1, <2>1, WholeStays, Zenon DEF EntryWhole
  <1> QED BY <1>2, WholeConnStep

\* A handler that is idle, or falls back to a full transfer, holds nothing.
LEMMA WholeIdleStep ==
    ASSUME TransferInv, Whole, NEW n \in Secondaries, ServerStep, UNCHANGED cache,
           SetConn(n, Idle) \/ SetConn(n, Fallback)
    PROVE  Whole'
  <1>1. ASSUME NEW conn, conn.pc \in {"idle", "axfr"}, conns'[n] = conn PROVE ConnWhole(n)'
    BY <1>1 DEF ConnWhole, Reading
  <1>2. Idle.pc = "idle" /\ Fallback.pc = "axfr"
    BY DEF Idle, Fallback
  <1> QED BY <1>1, <1>2, WholeHandlerStep

\* The zone row as it is now, and a copy of the zone, which cannot be ahead of it.
LEMMA WholeReadStep ==
    ASSUME TransferInv, Whole, NEW n \in Secondaries, ServerStep, UNCHANGED cache, zone # NoZone,
           NEW pc \in {"lookup", "current", "changes"}, SetConn(n, ZoneRead(pc)),
           pc = "changes" => copies[n] # NoCopy
    PROVE  Whole'
  <1>1. UNCHANGED <<vars, zoneId>> /\ UNCHANGED copies
    BY DEF ServerStep
  <1>2. /\ zone.serial \in DOMAIN snapshots /\ zone.soa = snapshots[zone.serial]
        /\ \A s \in DOMAIN snapshots : s <= zone.serial
    BY DEF TransferInv, IndInv, SnapshotsContiguous
  <1>3. RowOf(zoneId, zone)
    BY <1>2 DEF RowOf
  <1>4. ASSUME conns'[n] = ZoneRead(pc) PROVE ConnWhole(n)'
    <2>1. conns'[n].pc = pc /\ conns'[n].id = zoneId /\ conns'[n].zone = zone
      BY <1>4 DEF ZoneRead
    <2>2. RowOf(conns[n].id, conns[n].zone)'
      BY <1>1, <1>3, <2>1, WholeStays
    <2>3. ASSUME pc = "changes", copies[n].id = zoneId
          PROVE  OneVersion(conns[n].id, copies[n].zone.serial, conns[n].zone.serial, copies[n].records)'
      <3>1. OneVersion(zoneId, copies[n].zone.serial, MaxSerial, copies[n].records)
        BY <2>3, Zenon DEF Whole, CopyWhole
      <3>2. OneVersion(zoneId, copies[n].zone.serial, zone.serial, copies[n].records)
        BY <1>2, <3>1, Zenon DEF OneVersion
      <3> QED BY <1>1, <2>1, <3>2, WholeStays
    <2> QED BY <1>1, <2>1, <2>2, <2>3, Zenon DEF ConnWhole, Reading
  <1> QED BY <1>4, WholeHandlerStep

\* handle_axfr and handle_ixfr read the zone row.
LEMMA WholeReadZone ==
    ASSUME TransferInv, Whole, NEW n \in Secondaries, AxfrReadZone(n) \/ IxfrReadZone(n)
    PROVE  Whole'
  <1>1. ServerStep /\ UNCHANGED cache
    BY DEF AxfrReadZone, IxfrReadZone
  <1>2. CASE AxfrReadZone(n)
    BY <1>1, <1>2, WholeIdleStep, WholeReadStep DEF AxfrReadZone
  <1>3. CASE IxfrReadZone(n)
    <2>1. copies[n] # NoCopy /\ zone # NoZone
      BY <1>3 DEF IxfrReadZone
    <2>2. zone.serial \in Nat /\ copies[n].zone.serial \in Nat
      BY <2>1, ZoneSeen DEF TransferInv, Held, CopyOK, Seen
    <2>3. SetConn(n, ZoneRead("current")) \/ SetConn(n, Fallback) \/ SetConn(n, ZoneRead("changes"))
      BY <1>3, <2>2 DEF IxfrReadZone
    <2> QED BY <1>1, <2>1, <2>3, WholeIdleStep, WholeReadStep
  <1> QED BY <1>2, <1>3

\* zone_cache::list_records looks the zone up: an entry of the row's serial holds
\* one version from that serial on.
LEMMA WholeLookup ==
    ASSUME TransferInv, Whole, NEW n \in Secondaries, AxfrLookup(n)
    PROVE  Whole'
  <1> DEFINE c == conns[n]
  <1>1. ServerStep /\ UNCHANGED cache /\ UNCHANGED <<vars, zoneId>> /\ c.pc = "lookup" /\ Reading(n)
    BY DEF AxfrLookup, Reading, ServerStep
  <1>2. RowOf(c.id, c.zone) /\ c.id \in ZoneIds
    BY <1>1, Zenon DEF Whole, ConnWhole, TransferInv, Held, ConnOK, Seen
  <1>3. CASE /\ cache[c.id] # NoEntry /\ cache[c.id].serial = c.zone.serial
             /\ SetConn(n, Answer(c.id, c.zone, cache[c.id].records))
    <2>1. OneVersion(c.id, c.zone.serial, MaxSerial, cache[c.id].records)
      BY <1>2, <1>3, Zenon DEF Whole, EntryWhole
    <2>2. PICK conn : conn = Answer(c.id, c.zone, cache[c.id].records)
      OBVIOUS
    <2>3. /\ conn.pc = "answer" /\ conn.copy.id = c.id /\ conn.copy.zone = c.zone
          /\ conn.copy.records = cache[c.id].records
      BY <2>2, Zenon DEF Answer
    <2>4. RowOf(conn.copy.id, conn.copy.zone)' /\ OneVersion(conn.copy.id, conn.copy.zone.serial, MaxSerial, conn.copy.records)'
      BY <1>1, <1>2, <2>1, <2>3, WholeStays, Zenon
    <2>5. ASSUME conns'[n] = conn PROVE ConnWhole(n)'
      BY <2>3, <2>4, <2>5, Zenon DEF ConnWhole, Reading
    <2> QED BY <1>1, <1>3, <2>2, <2>5, WholeHandlerStep, Zenon
  <1>4. CASE SetConn(n, [pc |-> "load", id |-> c.id, zone |-> c.zone])
    <2>1. PICK conn : conn = [pc |-> "load", id |-> c.id, zone |-> c.zone]
      BY Zenon
    <2>2. RowOf(conn.id, conn.zone)' /\ conn.pc = "load"
      BY <1>1, <1>2, <2>1, WholeStays, ZenonT(30)
    <2>3. ASSUME conns'[n] = conn PROVE ConnWhole(n)'
      BY <2>2, <2>3 DEF ConnWhole, Reading
    <2> QED BY <1>1, <1>4, <2>1, <2>3, WholeHandlerStep, Zenon
  <1> QED BY <1>3, <1>4 DEF AxfrLookup, CacheHit

\* The records are loaded: the current version, at the row's serial or after it.
LEMMA WholeLoad ==
    ASSUME TransferInv, Whole, NEW n \in Secondaries, AxfrLoad(n)
    PROVE  Whole'
  <1> DEFINE c == conns[n]
  <1>1. PICK conn : conn = [pc |-> "store", id |-> c.id, zone |-> c.zone, records |-> IF Live(c.id) THEN records ELSE {}]
    BY ZenonT(30)
  <1>2. /\ ServerStep /\ UNCHANGED cache /\ UNCHANGED <<vars, zoneId>> /\ Reading(n) /\ SetConn(n, conn)
        /\ conn.pc = "store" /\ conn.id = c.id /\ conn.zone = c.zone
        /\ conn.records = IF Live(c.id) THEN records ELSE {}
    BY <1>1 DEF AxfrLoad, Reading, ServerStep
  <1>3. RowOf(c.id, c.zone) /\ Seen(c.id, c.zone.serial)
    BY <1>2, Zenon DEF Whole, ConnWhole, TransferInv, Held, ConnOK
  <1>4. OneVersion(c.id, c.zone.serial, MaxSerial, conn.records)
    <2> SUFFICES ASSUME Live(c.id)
                 PROVE  \E s \in DOMAIN snapshots : c.zone.serial <= s /\ s <= MaxSerial /\ conn.records = RecordsAt(s)
      BY DEF OneVersion
    <2>1. zone # NoZone /\ c.zone.serial <= zone.serial /\ conn.records = records
      BY <1>2, <1>3 DEF Live, Seen
    <2>2. zone.serial \in DOMAIN snapshots /\ zone.serial <= MaxSerial /\ RecordsAt(zone.serial) = records
      <3>1. IndInv
        BY DEF TransferInv
      <3>2. zone.serial \in DOMAIN snapshots /\ DOMAIN snapshots \subseteq 1..MaxSerial
        BY <2>1, <3>1 DEF IndInv, TypeOK, SnapshotsContiguous
      <3> QED BY <2>1, <3>1, <3>2, CurrentVersion, SerialAssumption
    <2> QED BY <2>1, <2>2
  <1>5. RowOf(conn.id, conn.zone)' /\ OneVersion(conn.id, conn.zone.serial, MaxSerial, conn.records)'
    BY <1>2, <1>3, <1>4, WholeStays, Zenon
  <1>6. ASSUME conns'[n] = conn PROVE ConnWhole(n)'
    BY <1>2, <1>5, <1>6, Zenon DEF ConnWhole, Reading
  <1> QED BY <1>2, <1>6, WholeHandlerStep

\* They are stored under the row's serial, and sent.
LEMMA WholeStore ==
    ASSUME TransferInv, Whole, NEW n \in Secondaries, AxfrStore(n)
    PROVE  Whole'
  <1> DEFINE c == conns[n]
  <1>1. PICK conn : conn = Answer(c.id, c.zone, c.records)
    OBVIOUS
  <1>2. /\ ServerStep /\ UNCHANGED <<vars, zoneId>> /\ Reading(n) /\ c.pc = "store" /\ SetConn(n, conn)
        /\ cache' = [cache EXCEPT ![c.id] = [serial |-> c.zone.serial, records |-> c.records]]
    <2>1. /\ ServerStep /\ UNCHANGED <<vars, zoneId>> /\ c.pc = "store" /\ SetConn(n, conn)
          /\ cache' = [cache EXCEPT ![c.id] = [serial |-> c.zone.serial, records |-> c.records]]
      BY <1>1, Zenon DEF AxfrStore, ServerStep
    <2> QED BY <2>1, Zenon DEF Reading
  <1>3. conn.pc = "answer" /\ conn.copy.id = c.id /\ conn.copy.zone = c.zone /\ conn.copy.records = c.records
    BY <1>1 DEF Answer
  <1>4. RowOf(c.id, c.zone) /\ OneVersion(c.id, c.zone.serial, MaxSerial, c.records)
    BY <1>2, Zenon DEF Whole, ConnWhole
  <1>5. RowOf(conn.copy.id, conn.copy.zone)' /\ OneVersion(conn.copy.id, conn.copy.zone.serial, MaxSerial, conn.copy.records)'
    BY <1>2, <1>3, <1>4, WholeStays, Zenon
  <1>6. ASSUME conns'[n] = conn PROVE ConnWhole(n)'
    BY <1>3, <1>5, <1>6, Zenon DEF ConnWhole, Reading
  <1>7. ASSUME NEW i \in ZoneIds PROVE EntryWhole(i)'
    <2>1. CASE i = c.id
      <3>1. cache'[i].serial = c.zone.serial /\ cache'[i].records = c.records
        BY <1>2, <2>1 DEF TransferInv, Tables
      <3>2. OneVersion(i, c.zone.serial, MaxSerial, c.records)
        BY <1>4, <2>1
      <3>3. OneVersion(i, cache[i].serial, MaxSerial, cache[i].records)'
        BY <1>2, <3>1, <3>2, WholeStays, Zenon
      <3> QED BY <3>3 DEF EntryWhole
    <2>2. CASE i # c.id
      <3>1. cache'[i] = cache[i] /\ EntryWhole(i)
        BY <1>2, <2>2 DEF TransferInv, Tables, Whole
      <3> QED BY <1>2, <3>1, WholeStays, ZenonT(30) DEF EntryWhole
    <2> QED BY <2>1, <2>2
  <1> QED BY <1>2, <1>6, <1>7, WholeConnStep, Zenon

\* An entry is pushed out.
LEMMA WholeEvict ==
    ASSUME TransferInv, Whole, NEW id \in ZoneIds, Evict(id)
    PROVE  Whole'
  <1>1. UNCHANGED <<vars, zoneId>> /\ UNCHANGED <<copies, conns>> /\ cache' = [cache EXCEPT ![id] = NoEntry]
    BY DEF Evict, ServerStep
  <1>2. ASSUME NEW m \in Secondaries PROVE ConnWhole(m)' /\ CopyWhole(m)'
    BY <1>1, WholeStays, Zenon DEF Whole, ConnWhole, CopyWhole, Reading
  <1>3. ASSUME NEW i \in ZoneIds PROVE EntryWhole(i)'
    <2>1. (cache'[i] = NoEntry \/ cache'[i] = cache[i]) /\ EntryWhole(i)
      BY <1>1 DEF TransferInv, Tables, Whole
    <2> QED BY <1>1, <2>1, WholeStays, Zenon DEF EntryWhole
  <1> QED BY <1>2, <1>3 DEF Whole

\* The log is read: the sections between the client's serial and the row's.
LEMMA WholeReadChanges ==
    ASSUME TransferInv, Whole, NEW n \in Secondaries, IxfrReadChanges(n)
    PROVE  Whole'
  <1> DEFINE c == conns[n]
             base == copies[n]
  <1>1. PICK delta : delta = ChangesBetween(c.id, base.zone.serial, c.zone.serial)
    OBVIOUS
  <1>2. PICK conn : conn = [pc |-> "snapshots", id |-> c.id, zone |-> c.zone, delta |-> delta]
    BY Zenon
  <1>3. ServerStep /\ UNCHANGED cache /\ UNCHANGED <<vars, zoneId>> /\ UNCHANGED copies /\ c.pc = "changes" /\ Reading(n)
    BY Zenon DEF IxfrReadChanges, Reading, ServerStep
  <1>4. CASE SetConn(n, Fallback)
    BY <1>3, <1>4, WholeIdleStep
  <1>5. CASE SetConn(n, conn)
    <2>1. conn.pc = "snapshots" /\ conn.id = c.id /\ conn.zone = c.zone /\ conn.delta = delta
      BY <1>2
    <2>2. Sections(c.id, base.zone.serial, c.zone.serial, delta)
      BY <1>1 DEF Sections, ChangesBetween
    <2>3. /\ RowOf(c.id, c.zone)
          /\ base.id = c.id => OneVersion(c.id, base.zone.serial, c.zone.serial, base.records)
      BY <1>3, Zenon DEF Whole, ConnWhole
    <2>4. /\ RowOf(conn.id, conn.zone)' /\ Sections(conn.id, base.zone.serial, conn.zone.serial, conn.delta)'
          /\ base.id = conn.id => OneVersion(conn.id, base.zone.serial, conn.zone.serial, base.records)'
      <3>1. PICK low, rs : low = base.zone.serial /\ rs = base.records
        OBVIOUS
      <3>2. RowOf(conn.id, conn.zone)'
        BY <1>3, <2>1, <2>3, WholeStays, Zenon
      <3>3. Sections(conn.id, low, conn.zone.serial, conn.delta)'
        BY <1>3, <2>1, <2>2, <3>1, WholeStays, Zenon
      <3>4. base.id = conn.id => OneVersion(conn.id, low, conn.zone.serial, rs)'
        BY <1>3, <2>1, <2>3, <3>1, WholeStays, Zenon
      <3> QED BY <1>3, <3>1, <3>2, <3>3, <3>4, Zenon
    <2>5. ASSUME conns'[n] = conn PROVE ConnWhole(n)'
      BY <1>3, <2>1, <2>4, <2>5, Zenon DEF ConnWhole, Reading
    <2> QED BY <1>3, <1>5, <2>5, WholeHandlerStep
  <1> QED BY <1>1, <1>2, <1>4, <1>5 DEF IxfrReadChanges

\* The increments lead from the copy to the version of the row's serial.
LEMMA WholeReadSnapshots ==
    ASSUME TransferInv, Whole, Replays, NEW n \in Secondaries, IxfrReadSnapshots(n)
    PROVE  Whole'
  <1> DEFINE c == conns[n]
             base == copies[n]
  <1>1. PICK row : row = [serial |-> c.zone.serial, soa |-> snapshots[c.zone.serial]]
    BY Zenon
  <1>2. PICK rs : rs = ApplyDelta(base.records, c.delta)
    OBVIOUS
  <1>3. ServerStep /\ UNCHANGED cache /\ UNCHANGED <<vars, zoneId>> /\ c.pc = "snapshots" /\ Reading(n)
    BY DEF IxfrReadSnapshots, Reading, ServerStep
  <1>4. CASE SetConn(n, Fallback)
    BY <1>3, <1>4, WholeIdleStep
  <1>5. CASE Live(c.id) /\ base.zone.serial \in DOMAIN snapshots /\ SetConn(n, Answer(base.id, row, rs))
    <2>1. /\ RowOf(c.id, c.zone) /\ Sections(c.id, base.zone.serial, c.zone.serial, c.delta)
          /\ base.id = c.id => OneVersion(c.id, base.zone.serial, c.zone.serial, base.records)
      BY <1>3, Zenon DEF Whole, ConnWhole
    <2>2. row.serial = c.zone.serial /\ row.soa = snapshots[row.serial] /\ row.serial \in DOMAIN snapshots
      BY <1>1, <1>5, <2>1, ZenonT(30) DEF RowOf
    <2>3. RowOf(base.id, row)
      BY <2>2 DEF RowOf
    <2>4. OneVersion(base.id, row.serial, MaxSerial, rs)
      <3> SUFFICES ASSUME Live(base.id), Reorderable
                   PROVE  \E s \in DOMAIN snapshots : row.serial <= s /\ s <= MaxSerial /\ rs = RecordsAt(s)
        BY DEF OneVersion
      <3>1. base.id = c.id /\ zone # NoZone
        BY <1>5 DEF Live
      <3>2. PICK s \in DOMAIN snapshots : /\ base.zone.serial <= s /\ s <= c.zone.serial
                                          /\ base.records = RecordsAt(s)
        BY <2>1, <3>1 DEF OneVersion
      <3>3. Sections(zoneId, base.zone.serial, row.serial, c.delta)
        BY <1>5, <2>1, <2>2, Zenon DEF Live
      <3>4. DOMAIN snapshots \subseteq Nat /\ \A u \in DOMAIN snapshots : u <= MaxSerial
        BY SerialAssumption DEF TransferInv, IndInv, TypeOK
      <3>5. s \in base.zone.serial..row.serial
        BY <1>5, <2>2, <3>2, <3>4
      <3>6. PICK delta, low : delta = c.delta /\ low = base.zone.serial
        OBVIOUS
      <3>7. ApplyDelta(RecordsAt(s), delta) = RecordsAt(row.serial)
        <4>1. low \in DOMAIN snapshots /\ row.serial \in DOMAIN snapshots /\ s \in low..row.serial
          BY <1>5, <2>2, <3>5, <3>6
        <4>2. Sections(zoneId, low, row.serial, delta)
          BY <3>3, <3>6
        <4>3. \A b \in low..row.serial : \A d :
                Sections(zoneId, low, row.serial, d) => ApplyDelta(RecordsAt(b), d) = RecordsAt(row.serial)
          BY <3>1, <4>1 DEF Replays
        <4> QED BY <4>1, <4>2, <4>3
      <3>8. rs = RecordsAt(row.serial)
        BY <1>2, <3>2, <3>6, <3>7
      <3> QED BY <2>2, <3>4, <3>8
    <2>5. PICK conn : conn = Answer(base.id, row, rs)
      OBVIOUS
    <2>6. conn.pc = "answer" /\ conn.copy.id = base.id /\ conn.copy.zone = row /\ conn.copy.records = rs
      BY <2>5 DEF Answer
    <2>7. RowOf(conn.copy.id, conn.copy.zone)' /\ OneVersion(conn.copy.id, conn.copy.zone.serial, MaxSerial, conn.copy.records)'
      BY <1>3, <2>3, <2>4, <2>6, WholeStays, Zenon
    <2>8. ASSUME conns'[n] = conn PROVE ConnWhole(n)'
      BY <2>6, <2>7, <2>8, Zenon DEF ConnWhole, Reading
    <2> QED BY <1>3, <1>5, <2>5, <2>8, WholeHandlerStep, Zenon
  <1>6. \/ SetConn(n, Fallback)
        \/ Live(c.id) /\ base.zone.serial \in DOMAIN snapshots /\ SetConn(n, Answer(base.id, row, rs))
    <2>1. SetConn(n, IF ~(Live(c.id) /\ {base.zone.serial} \cup DOMAIN c.delta \subseteq DOMAIN snapshots) THEN Fallback
                     ELSE Answer(base.id, row, rs))
      BY <1>1, <1>2, Zenon DEF IxfrReadSnapshots
    <2>2. CASE Live(c.id) /\ {base.zone.serial} \cup DOMAIN c.delta \subseteq DOMAIN snapshots
      <3>1. base.zone.serial \in DOMAIN snapshots
        BY <2>2
      <3> QED BY <2>1, <2>2, <3>1, ZenonT(30)
    <2>3. CASE ~(Live(c.id) /\ {base.zone.serial} \cup DOMAIN c.delta \subseteq DOMAIN snapshots)
      BY <2>1, <2>3, Zenon
    <2> QED BY <2>2, <2>3, Zenon
  <1> QED BY <1>4, <1>5, <1>6

\* The secondary installs the answer.
LEMMA WholeReceive ==
    ASSUME TransferInv, Whole, NEW n \in Secondaries, Receive(n)
    PROVE  Whole'
  <1>1. /\ UNCHANGED <<vars, zoneId>> /\ UNCHANGED cache /\ conns[n].pc = "answer"
        /\ copies' = [copies EXCEPT ![n] = conns[n].copy] /\ conns' = [conns EXCEPT ![n] = Idle]
    BY DEF Receive, SetConn
  <1>2. ASSUME NEW i \in ZoneIds PROVE EntryWhole(i)'
    <2>1. EntryWhole(i)
      BY DEF Whole
    <2> QED BY <1>1, <2>1, WholeStays, Zenon DEF EntryWhole
  <1>3. /\ conns'[n].pc = "idle" /\ copies'[n] = conns[n].copy
        /\ RowOf(conns[n].copy.id, conns[n].copy.zone)
        /\ OneVersion(conns[n].copy.id, conns[n].copy.zone.serial, MaxSerial, conns[n].copy.records)
    BY <1>1 DEF TransferInv, Tables, Whole, ConnWhole, Idle
  <1>4. ConnWhole(n)' /\ CopyWhole(n)'
    <2>1. ConnWhole(n)'
      BY <1>3, Zenon DEF ConnWhole, Reading
    <2>2. CopyWhole(n)'
      BY <1>1, <1>3, WholeStays, Zenon DEF CopyWhole
    <2> QED BY <2>1, <2>2
  <1>5. ASSUME NEW m \in Secondaries, m # n PROVE ConnWhole(m)' /\ CopyWhole(m)'
    <2>1. conns'[m] = conns[m] /\ copies'[m] = copies[m] /\ ConnWhole(m) /\ CopyWhole(m)
      BY <1>1, <1>5, Zenon DEF TransferInv, Tables, Whole
    <2> QED BY <1>1, <2>1, WholeStays, Zenon DEF ConnWhole, CopyWhole, Reading
  <1> QED BY <1>2, <1>4, <1>5 DEF Whole
=============================================================================
