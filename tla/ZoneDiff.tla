------------------------------ MODULE ZoneDiff ------------------------------
(***************************************************************************)
(* The differences bindizr shows of a zone: between two of its serials     *)
(* (zone/history.rs), and as the preview of a dry run of a bulk creation,  *)
(* an import or a rollback, which computes what the write would do and     *)
(* ends its transaction without writing.                                   *)
(***************************************************************************)
EXTENDS ZoneHistory

\* The values of an RRset, with what makes each the record it is.
GroupRrsets(rs) ==
    [key \in {<<r.name, r.type>> : r \in rs} |->
        {[value |-> r.value, ttl |-> r.ttl] : r \in {x \in rs : <<x.name, x.type>> = key}}]

GroupIdentitiesOfValues(group) == {v.value : v \in group}

\* group_identities: value with priority, and TTL.
GroupIdentities(group) == {<<v.value, v.ttl>> : v \in group}

Entry(change, key, from, to) == [change |-> change, key |-> key, from |-> from, to |-> to]

BuildRecordDiff(before, after) ==
    LET b == GroupRrsets(before)
        a == GroupRrsets(after)
    IN  {Entry("added", k, {}, a[k]) : k \in DOMAIN a \ DOMAIN b}
          \cup {Entry("removed", k, b[k], {}) : k \in DOMAIN b \ DOMAIN a}
          \cup {Entry("changed", k, b[k], a[k]) :
                   k \in {x \in DOMAIN a \cap DOMAIN b : GroupIdentities(a[x]) # GroupIdentities(b[x])}}

\* records_at_serial.
RecordsAtSerial(serial) == IF serial = zone.serial THEN records ELSE ReconstructRecordsAtSerial(serial)

\* What get_snapshot shows of a serial with a snapshot.
GetSnapshot(serial) == [soa |-> snapshots[serial], records |-> RecordsAtSerial(serial)]

\* require_serial.
Diffable == {zone.serial} \cup DOMAIN snapshots

DiffSnapshots(from, to) == BuildRecordDiff(RecordsAtSerial(from), RecordsAtSerial(to))

-----------------------------------------------------------------------------
(* Dry runs                                                                *)

BulkDiff(adds) == BuildRecordDiff(records, records \cup adds)

ImportDiffKeepingTtl(mode, file) ==
    BuildRecordDiff(records, (records \ ImportDels(mode, file)) \cup ImportAdds(mode, file))

\* import_diff.
ImportDiff(mode, file) ==
    LET deleted == ImportDels(mode, file) \cup ImportTtlDels(mode, file)
    IN  BuildRecordDiff(records, (records \ deleted) \cup ImportAdds(mode, file))

ImportSummary(mode, file) ==
    LET updated == {d \in file : \E e \in ImportTtlDels(mode, file) : SameRdata(e, d)}
    IN  [added |-> Cardinality(ImportAdds(mode, file)) - Cardinality(updated),
         deleted |-> Cardinality(ImportDels(mode, file)),
         updated |-> Cardinality(updated)]

\* For an apex NS it has to synthesize, inserts is one of RollbackInserts.
RollbackSummary(soa, target, inserts) ==
    [added |-> Cardinality(inserts),
     deleted |-> Cardinality(RollbackDels(soa, target)),
     unchanged |-> Cardinality(records \ RollbackDels(soa, target))]

-----------------------------------------------------------------------------
(* Properties                                                              *)

\* The record set a difference leads to from rs.
Patch(rs, diff) ==
    {r \in rs : ~\E e \in diff : e.key = <<r.name, r.type>>}
      \cup UNION {{[name |-> e.key[1], type |-> e.key[2], value |-> v.value, ttl |-> v.ttl] : v \in e.to} : e \in diff}

\* The difference between any two serials of a zone, whichever is the older,
\* is complete and minimal: it leads from the one snapshot to the other, and
\* names no RRset that is the same in both (diff_snapshots: "TTL is part of a
\* record's identity, so a TTL-only change shows as `changed`").
DiffExact ==
    zone # NoZone =>
        \A from, to \in Diffable :
            LET diff == DiffSnapshots(from, to) IN
            /\ Patch(GetSnapshot(from).records, diff) = GetSnapshot(to).records
            /\ \A e \in diff : e.from # e.to

LogCount(log, op) ==
    Cardinality(UNION {log[i].records : i \in {j \in DOMAIN log : log[j].op = op}})

\* What a dry run shows is what the write then does: the difference it names is
\* the one the history shows between the two serials afterwards, and its counts
\* are those of the rows the write logs.
PreviewsHold ==
    [][\A s \in 1..(MaxSerial - 1) : zone # NoZone /\ zone.serial = s =>
          LET dels == LogCount(changes'[s + 1], "DEL")
              adds == LogCount(changes'[s + 1], "ADD")
          IN  /\ \A batch \in Batches : CreateBulk(batch) => DiffSnapshots(s, s + 1)' = BulkDiff(batch)
              /\ \A mode \in ImportModes, file \in Batches :
                    ImportZoneFile(mode, file) =>
                        LET n == ImportSummary(mode, file) IN
                        /\ DiffSnapshots(s, s + 1)' = ImportDiff(mode, file)
                        /\ dels = n.deleted + n.updated /\ adds = n.added + n.updated
              /\ \A t \in DOMAIN snapshots :
                    Rollback(t) =>
                        \E inserts \in RollbackInserts(snapshots[t], RecordsAt(t)) :
                            LET n == RollbackSummary(snapshots[t], RecordsAt(t), inserts) IN
                            /\ dels = n.deleted /\ adds = n.added
                            /\ Cardinality(records') = n.unchanged + n.added]_vars
=============================================================================
