----------------------------- MODULE ZoneStore -----------------------------
(***************************************************************************)
(* The tables of one zone and every operation of bindizr-service that      *)
(* writes them: the zone row, its records, the change log IXFR and the     *)
(* rollback read, and the SOA snapshots (zone_soa_history).                *)
(*                                                                         *)
(* Every writer locks the zone row exclusively before it reads anything    *)
(* and commits once, so a writer is one atomic step; the RFC 2136 update   *)
(* is the exception, modelled one message section entry at a time, because *)
(* it builds its effect operation by operation on an open transaction.     *)
(* A request that is refused changes nothing and is not a step.            *)
(***************************************************************************)
EXTENDS Integers, Sequences, FiniteSets, RecordRules

CONSTANTS
    Owners,       \* owner names, relative to the zone
    Values,       \* rdata in canonical form, the priority of MX and SRV included
    NameServers,  \* the values a zone's primary_ns takes
    Ttls,         \* TTLs in seconds
    Timers,       \* admin_email, refresh, retry, expire and minimum_ttl of a SOA
    MaxSerial,    \* i32::MAX, where generate_serial stops
    Headroom,     \* RESERVED_SERIAL_HEADROOM
    Requests,     \* records a request may carry
    Batches,      \* record lists a request may carry
    MaxOps,       \* bound: effective operations of one RFC 2136 update
    NoZone,       \* no row in the zones table
    NoTx          \* no RFC 2136 transaction is open

\* "A" stands for the types no rule singles out: A, AAAA, TXT, SRV and PTR.
RecordTypes == {"A", "CNAME", "MX", "NS"}

\* The record types of the ExternalDNS provider (A, AAAA, CNAME and TXT).
ExternalDnsRecordTypes == {"A", "CNAME"}

\* A row of the records table.
Record == [name : Owners, type : RecordTypes, value : Values, ttl : Ttls]

\* The SOA metadata of a zone row and of a snapshot.
Soa == [primary_ns : NameServers, ttl : Ttls, timers : Timers]

ZoneRow == [serial : 1..MaxSerial, soa : Soa]

\* The rows one call writes to the change log: one operation, many records.
\* A DEL + ADD pair of SOA rows is the single entry "SOA", which names no record.
LogEntry == [op : {"ADD", "DEL", "SOA"}, records : SUBSET Record]

OpenTx == [records : SUBSET Record, log : Seq(LogEntry)]

ASSUME SerialAssumption == MaxSerial \in Nat /\ Headroom \in Nat /\ Headroom < MaxSerial

ASSUME DataAssumption ==
    /\ Apex \in Owners
    /\ NameServers \subseteq Values
    /\ Requests \subseteq Record
    /\ Batches \subseteq SUBSET Record

ASSUME BoundAssumption == MaxOps \in Nat

ASSUME AbsenceAssumption == NoZone \notin ZoneRow /\ NoTx \notin OpenTx

VARIABLES
    zone,       \* the zone row, or NoZone
    records,    \* the zone's rows of the records table
    changes,    \* serial -> the entries logged at that serial, in id order
    snapshots,  \* serial -> the SOA of zone_soa_history
    tx          \* the open RFC 2136 transaction, or NoTx

vars == <<zone, records, changes, snapshots, tx>>

-----------------------------------------------------------------------------
(* The apex NS RRset: bindizr-service/src/zone                             *)

PrimaryNsRecord(soa, ttl) ==
    [name |-> Apex, type |-> "NS", value |-> soa.primary_ns, ttl |-> ttl]

\* Mutant of ApexNsTtls: the synthesized NS always takes the zone's TTL.
ApexNsTtlsOfZone(soa, candidates) == {soa.ttl}

\* apex_ns_rrset_ttl: the TTL of a synthesized apex NS, that of the first apex
\* NS among the candidates or else the zone's.
ApexNsTtls(soa, candidates) ==
    IF \E r \in candidates : IsApexNs(r)
      THEN {r.ttl : r \in {x \in candidates : IsApexNs(x)}}
      ELSE {soa.ttl}

-----------------------------------------------------------------------------
(* The change log and the state it reconstructs: zone/history.rs           *)

\* Append one call's rows; insert_records_with_changes_tx and
\* delete_records_with_changes_tx return early on an empty list.
LogRows(log, op, rows) ==
    IF rows = {} THEN log ELSE Append(log, [op |-> op, records |-> rows])

\* soa_replacement_changes.
LogSoa(log) == Append(log, [op |-> "SOA", records |-> {}])

\* delete_records_with_changes_tx followed by insert_records_with_changes_tx.
DelThenAdd(dels, adds) == LogRows(LogRows(<<>>, "DEL", dels), "ADD", adds)

Touches(log, r) == \E i \in DOMAIN log : r \in log[i].records

FirstIsDel(log, r) ==
    \E i \in DOMAIN log :
        /\ log[i].op = "DEL"
        /\ r \in log[i].records
        /\ \A j \in 1..(i - 1) : r \notin log[j].records

Logged(history) ==
    UNION {UNION {history[s][i].records : i \in DOMAIN history[s]} : s \in DOMAIN history}

\* reconstruct_records_at_serial: undoing the log newest-first down to a serial
\* leaves a record as the oldest entry after that serial found it: present if
\* that entry is a DEL, absent if it is an ADD, and as it is now if there is none.
Reconstruct(current, history, serial) ==
    {r \in current \cup Logged(history) :
        \/ /\ r \in current
           /\ \A s \in DOMAIN history : s > serial => ~Touches(history[s], r)
        \/ \E s \in DOMAIN history :
              /\ s > serial
              /\ FirstIsDel(history[s], r)
              /\ \A u \in DOMAIN history : serial < u /\ u < s => ~Touches(history[u], r)}

RecordsAt(serial) == Reconstruct(records, changes, serial)

-----------------------------------------------------------------------------
(* Committing a write                                                      *)

\* A writer needs the zone row, its exclusive lock, and a serial to move to:
\* generate_serial refuses the write at i32::MAX.
MayWrite == zone # NoZone /\ tx = NoTx /\ zone.serial < MaxSerial

NextSerial == zone.serial + 1

\* save_snapshot_tx upserts (zone_id, serial); the log rows carry the serial.
WithRow(table, row) ==
    [s \in DOMAIN table \cup {NextSerial} |-> IF s = NextSerial THEN row ELSE table[s]]

Commit(soa, newRecords, log) ==
    /\ zone' = [serial |-> NextSerial, soa |-> soa]
    /\ records' = newRecords
    /\ changes' = WithRow(changes, log)
    /\ snapshots' = WithRow(snapshots, soa)

\* advance_serial_tx after a set of deletions and insertions.
CommitRows(dels, adds) ==
    /\ Commit(zone.soa, (records \ dels) \cup adds, DelThenAdd(dels, adds))
    /\ UNCHANGED tx

-----------------------------------------------------------------------------
(* Zone operations: bindizr-service/src/zone                               *)

\* validate_initial_serial accepts the serial of the request; 1 is the default.
CreateZone(soa, serial) ==
    /\ zone = NoZone
    /\ serial <= MaxSerial - Headroom
    /\ zone' = [serial |-> serial, soa |-> soa]
    /\ records' = {PrimaryNsRecord(soa, soa.ttl)}
    /\ changes' = [s \in {serial} |-> <<>>]
    /\ snapshots' = [s \in {serial} |-> soa]
    /\ UNCHANGED tx

\* ON DELETE CASCADE empties every table of the zone.
DeleteZone ==
    /\ zone # NoZone
    /\ tx = NoTx
    /\ zone' = NoZone
    /\ records' = {}
    /\ changes' = [s \in {} |-> <<>>]
    /\ snapshots' = [s \in {} |-> <<>>]
    /\ UNCHANGED tx

\* Mutant of UpdateZone: the new apex NS is inserted without its ADD row.
UpdateZoneUnlogged(soa) ==
    /\ MayWrite
    /\ \E ttl \in ApexNsTtls(soa, records) :
         LET missing == IF \E r \in records : IsPrimaryNs(soa, r)
                          THEN {} ELSE {PrimaryNsRecord(soa, ttl)}
         IN  Commit(soa, records \cup missing, LogSoa(<<>>))
    /\ UNCHANGED tx

\* PUT and PATCH of the zone: the new primary_ns keeps an apex NS record.
UpdateZone(soa) ==
    /\ MayWrite
    /\ \E ttl \in ApexNsTtls(soa, records) :
         LET missing == IF \E r \in records : IsPrimaryNs(soa, r)
                          THEN {} ELSE {PrimaryNsRecord(soa, ttl)}
         IN  Commit(soa, records \cup missing, LogSoa(LogRows(<<>>, "ADD", missing)))
    /\ UNCHANGED tx

\* A forced NOTIFY moves the serial and logs nothing.
ForceIncrementSerial ==
    /\ MayWrite
    /\ Commit(zone.soa, records, <<>>)
    /\ UNCHANGED tx

\* Mutant of RollbackDels: a row that only differs in its TTL is kept.
RollbackDelsKeepingTtl(soa, target) ==
    {r \in records : Deletable(soa, {r}) /\ ~\E x \in target : SameRdata(r, x)}

\* Rollback, the difference between the current and the target record set.
RollbackDels(soa, target) ==
    {r \in records :
        IF \E x \in target : SameRdata(r, x)
          THEN \E x \in target : SameRdata(r, x) /\ r.ttl # x.ttl
          ELSE Deletable(soa, {r})}

\* Mutant of RollbackAdds: a row deleted for its TTL is not inserted again.
RollbackAddsIgnoringTtl(soa, target) ==
    {x \in target : ~\E r \in records : SameRdata(r, x)}

RollbackAdds(soa, target) ==
    {x \in target : ~\E r \in records : SameRdata(r, x) /\ r.ttl = x.ttl}

\* The additions, with the apex NS of the restored primary_ns when neither a
\* surviving record nor an addition provides it.
RollbackInserts(soa, target) ==
    LET surviving == records \ RollbackDels(soa, target)
        adds      == RollbackAdds(soa, target)
        ttls      == IF \E r \in adds : IsApexNs(r)
                       THEN ApexNsTtls(soa, adds) ELSE ApexNsTtls(soa, surviving)
    IN  IF \E r \in surviving \cup adds : IsPrimaryNs(soa, r)
          THEN {adds}
          ELSE {adds \cup {PrimaryNsRecord(soa, ttl)} : ttl \in ttls}

\* The additions must pass validation against what the deletions leave.
RollbackValid(soa, target, inserts) ==
    AllAddable(records \ RollbackDels(soa, target), inserts)

RollbackLog(soa, dels, adds) ==
    LET start == IF soa # zone.soa THEN LogSoa(<<>>) ELSE <<>>
    IN  LogRows(LogRows(start, "DEL", dels), "ADD", adds)

Rollback(serial) ==
    /\ MayWrite
    /\ serial < zone.serial
    /\ serial \in DOMAIN snapshots
    /\ LET soa    == snapshots[serial]
           target == RecordsAt(serial)
           dels   == RollbackDels(soa, target)
       IN  \E inserts \in RollbackInserts(soa, target) :
             /\ RollbackValid(soa, target, inserts)
             /\ Commit(soa, (records \ dels) \cup inserts, RollbackLog(soa, dels, inserts))
    /\ UNCHANGED tx

-----------------------------------------------------------------------------
(* Record operations: bindizr-service/src/record                           *)

CreateRecord(r) ==
    /\ MayWrite
    /\ Addable(records, r)
    /\ CommitRows({}, {r})

\* create_bulk: every record of the list is inserted or none is.
CreateBulk(adds) ==
    /\ MayWrite
    /\ adds # {}
    /\ AllAddable(records, adds)
    /\ CommitRows({}, adds)

\* update_locked logs DEL(old) and ADD(new) even when they are equal.
UpdateRecord(old, new) ==
    /\ MayWrite
    /\ old \in records
    /\ Addable(records \ {old}, new)
    /\ IsPrimaryNs(zone.soa, old) => IsPrimaryNs(zone.soa, new)
    /\ CommitRows({old}, {new})

DeleteRecord(r) ==
    /\ MayWrite
    /\ r \in records
    /\ Deletable(zone.soa, {r})
    /\ CommitRows({r}, {})

\* Zone-file import: the rows a mode removes, the rows whose TTL it rewrites
\* and the rows it inserts. A file naming one rdata with two TTLs is refused.
ImportModes == {"append", "replace", "upsert"}

ImportDels(mode, file) ==
    {e \in records :
        /\ mode # "append"
        /\ mode = "upsert" => \E d \in file : d.name = e.name /\ d.type = e.type
        /\ Deletable(zone.soa, {e})
        /\ ~\E d \in file : SameRdata(e, d)}

ImportTtlDels(mode, file) ==
    {e \in records : mode # "append" /\ \E d \in file : SameRdata(e, d) /\ e.ttl # d.ttl}

ImportAdds(mode, file) ==
    {d \in file : ~\E e \in records \ ImportTtlDels(mode, file) : SameRdata(e, d)}

ImportZoneFile(mode, file) ==
    LET dels == ImportDels(mode, file) \cup ImportTtlDels(mode, file)
        adds == ImportAdds(mode, file)
    IN  /\ MayWrite
        /\ \A d, e \in file : SameRdata(d, e) => d = e
        /\ AllAddable(records \ dels, adds)
        /\ dels # {} \/ adds # {}
        /\ CommitRows(dels, adds)

-----------------------------------------------------------------------------
(* ExternalDNS change sets: external_dns/apply.rs                          *)

\* compute_zone_change_set: an addition equal to a deleted row cancels the
\* deletion, and one whose rdata survives is a no-op.
ChangeSetDels(dels, adds) ==
    {r \in records : (\E d \in dels : SameRdata(r, d)) /\ r \notin adds}

ChangeSetAdds(dels, adds) ==
    {a \in adds : ~\E r \in records \ ChangeSetDels(dels, adds) : SameRdata(r, a)}

ApplyExternalDns(dels, adds) ==
    LET deletes == ChangeSetDels(dels, adds)
        creates == ChangeSetAdds(dels, adds)
    IN  /\ MayWrite
        /\ \A r \in dels \cup adds : r.type \in ExternalDnsRecordTypes
        /\ AllAddable(records \ deletes, creates)
        /\ deletes # {} \/ creates # {}
        /\ CommitRows(deletes, creates)

-----------------------------------------------------------------------------
(* RFC 2136 updates: bindizr-service/src/dynamic_update                    *)

\* The transaction locks the zone row and fixes the serial of all its rows.
BeginUpdate ==
    /\ MayWrite
    /\ tx' = [records |-> records, log |-> <<>>]
    /\ UNCHANGED <<zone, records, changes, snapshots>>

\* add_record; an addition whose rdata is present already is a silent no-op.
UpdateAdd(r) ==
    /\ tx # NoTx
    /\ Len(tx.log) < MaxOps
    /\ Addable(tx.records, r)
    /\ tx' = [records |-> tx.records \cup {r}, log |-> LogRows(tx.log, "ADD", {r})]
    /\ UNCHANGED <<zone, records, changes, snapshots>>

\* What delete_matching selects: a name, an RRset, or one RR of it.
DeleteScopes(r) ==
    {{x \in tx.records : x.name = r.name},
     {x \in tx.records : x.name = r.name /\ x.type = r.type},
     {x \in tx.records : SameRdata(x, r)}}

\* Mutant of UpdateDelete: validate_delete_constraints is not called.
UpdateDeleteUnchecked(r) ==
    /\ tx # NoTx
    /\ Len(tx.log) < MaxOps
    /\ \E matched \in DeleteScopes(r) :
         /\ matched # {}
         /\ tx' = [records |-> tx.records \ matched, log |-> LogRows(tx.log, "DEL", matched)]
    /\ UNCHANGED <<zone, records, changes, snapshots>>

UpdateDelete(r) ==
    /\ tx # NoTx
    /\ Len(tx.log) < MaxOps
    /\ \E matched \in DeleteScopes(r) :
         /\ matched # {}
         /\ Deletable(zone.soa, matched)
         /\ tx' = [records |-> tx.records \ matched, log |-> LogRows(tx.log, "DEL", matched)]
    /\ UNCHANGED <<zone, records, changes, snapshots>>

\* A refused operation, a database failure or a crash rolls everything back.
AbortUpdate ==
    /\ tx # NoTx
    /\ tx' = NoTx
    /\ UNCHANGED <<zone, records, changes, snapshots>>

\* The serial advances once, and only when some operation changed something.
CommitUpdate ==
    /\ tx # NoTx
    /\ tx.log # <<>>
    /\ Commit(zone.soa, tx.records, tx.log)
    /\ tx' = NoTx

-----------------------------------------------------------------------------
Init ==
    /\ zone = NoZone
    /\ records = {}
    /\ changes = [s \in {} |-> <<>>]
    /\ snapshots = [s \in {} |-> <<>>]
    /\ tx = NoTx

ZoneNext ==
    \/ \E soa \in Soa, serial \in 1..MaxSerial : CreateZone(soa, serial)
    \/ DeleteZone
    \/ \E soa \in Soa : UpdateZone(soa)
    \/ ForceIncrementSerial
    \/ \E serial \in 1..MaxSerial : Rollback(serial)

RecordNext ==
    \/ \E r \in Requests : CreateRecord(r)
    \/ \E adds \in Batches : CreateBulk(adds)
    \/ \E old \in records, new \in Requests : UpdateRecord(old, new)
    \/ \E r \in records : DeleteRecord(r)
    \/ \E mode \in ImportModes, file \in Batches : ImportZoneFile(mode, file)
    \/ \E dels, adds \in Batches \cup {{}} : ApplyExternalDns(dels, adds)

UpdateNext ==
    \/ BeginUpdate
    \/ \E r \in Requests : UpdateAdd(r)
    \/ \E r \in Requests : UpdateDelete(r)
    \/ AbortUpdate
    \/ CommitUpdate

Next == ZoneNext \/ RecordNext \/ UpdateNext

Spec == Init /\ [][Next]_vars

-----------------------------------------------------------------------------
(* Properties                                                              *)

\* The tables hold rows of their types, and the snapshots and the log cover
\* the same serials.
TypeOK ==
    /\ zone \in ZoneRow \cup {NoZone}
    /\ records \in SUBSET Record
    /\ tx \in OpenTx \cup {NoTx}
    /\ DOMAIN snapshots \subseteq 1..MaxSerial
    /\ \A s \in DOMAIN snapshots : snapshots[s] \in Soa
    /\ DOMAIN changes = DOMAIN snapshots
    /\ \A s \in DOMAIN changes : changes[s] \in Seq(LogEntry)

\* Rules every record set of a zone obeys, whatever path wrote it: rdata is not
\* repeated, an RRset has one TTL, a CNAME is alone at its name and not at the
\* apex, a null MX is the only MX, NS records sit at the apex.
UniqueRdata(rs) == \A r, x \in rs : SameRdata(r, x) => r = x

OneTtlPerRrset(rs) == \A r, x \in rs : r.name = x.name /\ r.type = x.type => r.ttl = x.ttl

CnameAlone(rs) ==
    \A r \in rs : r.type = "CNAME" => r.name # Apex /\ \A x \in rs : x.name = r.name => x = r

NullMxAlone(rs) ==
    \A r, x \in rs :
        r.type = "MX" /\ x.type = "MX" /\ r.name = x.name /\ r.value = NullMx => x = r

NsAtApex(rs) == \A r \in rs : r.type = "NS" => r.name = Apex

WellFormed(rs) ==
    UniqueRdata(rs) /\ OneTtlPerRrset(rs) /\ CnameAlone(rs) /\ NullMxAlone(rs) /\ NsAtApex(rs)

HasPrimaryNs(soa, rs) == \E r \in rs : IsPrimaryNs(soa, r)

\* Every version of a zone, the current one and each one the snapshot API
\* reconstructs from the log, obeys the record rules and holds the apex NS its
\* own SOA names (Zone::is_primary_ns: "One such row must exist for the zone to
\* stay self-consistent").
VersionsConsistent ==
    \A s \in DOMAIN snapshots :
        WellFormed(RecordsAt(s)) /\ HasPrimaryNs(snapshots[s], RecordsAt(s))

\* The snapshots are exactly the serials from the zone's first to its current
\* one, and the newest is the SOA of the zone row: no write path skips
\* save_snapshot_tx or repeats a serial. A deleted zone leaves nothing behind.
SnapshotsContiguous ==
    /\ zone = NoZone => DOMAIN snapshots = {} /\ records = {} /\ tx = NoTx
    /\ zone # NoZone =>
        /\ zone.serial \in DOMAIN snapshots
        /\ snapshots[zone.serial] = zone.soa
        /\ \A s \in DOMAIN snapshots : s <= zone.serial /\ s..zone.serial \subseteq DOMAIN snapshots

\* Undoing a log on the record set new gives the record set old.
Explains(old, log, new) ==
    \A r \in Record :
        r \in old <=> (r \in new /\ ~Touches(log, r)) \/ FirstIsDel(log, r)

\* At every point of an RFC 2136 update the rows written so far are a set the
\* record rules allow, and the rows logged so far undo to the committed set,
\* so neither committing nor aborting there can corrupt the history.
OpenUpdateConsistent ==
    tx # NoTx =>
        /\ zone.serial < MaxSerial
        /\ Explains(records, tx.log, tx.records)
        /\ WellFormed(tx.records)
        /\ HasPrimaryNs(zone.soa, tx.records)

\* Every earlier serial of a writable zone can be rolled back to: the additions
\* computed from the log always pass the validation that could refuse them.
RollbackNeverRefused ==
    MayWrite =>
        \A s \in DOMAIN snapshots \ {zone.serial} :
            \A inserts \in RollbackInserts(snapshots[s], RecordsAt(s)) :
                RollbackValid(snapshots[s], RecordsAt(s), inserts)

\* Rolling back restores exactly the record set and the SOA of the target
\* serial, at a serial one higher ("serials never go backward").
RollbackRestores ==
    [][\A s \in 1..MaxSerial :
          Rollback(s) => /\ records' = RecordsAt(s)
                         /\ zone' = [serial |-> NextSerial, soa |-> snapshots[s]]]_vars

\* The versions readers can obtain: a snapshot with its reconstructed records.
VersionAt(s) == [soa |-> snapshots[s], records |-> RecordsAt(s)]

ConsistentVersions ==
    {v \in [soa : Soa, records : SUBSET Record] :
        WellFormed(v.records) /\ HasPrimaryNs(v.soa, v.records)}

Abstract == INSTANCE VersionedZone
    WITH Version <- ConsistentVersions, versions <- [s \in DOMAIN snapshots |-> VersionAt(s)]

\* The store implements VersionedZone: whatever the writers do, readers see
\* consistent versions published one serial at a time and never altered.
ImplementsVersionedZone == Abstract!Spec

=============================================================================
