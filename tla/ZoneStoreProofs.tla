--------------------------- MODULE ZoneStoreProofs --------------------------
(***************************************************************************)
(* Proofs about ZoneStore for every value of its constants.                *)
(***************************************************************************)
EXTENDS HistoryProofs

\* A leaf that names no prover: SMT, then Zenon, then SMT once more with more time.
USE SMTT(30), ZenonT(20), SMTT(60)

-----------------------------------------------------------------------------
(* Record rules                                                            *)

\* A record its type allows at its name.
LegalName(r) ==
    /\ r.type = "CNAME" => r.name # Apex
    /\ r.type = "NS" => r.name = Apex

\* The record rules are pairwise: a set obeys them exactly when no member
\* conflicts with another, Conflicts being what the validator tests one by one.
LEMMA WellFormedPairwise ==
    ASSUME NEW rs \in SUBSET Record
    PROVE  WellFormed(rs) <=>
             \A r \in rs : LegalName(r) /\ \A x \in rs : x # r => ~Conflicts(r, x)
  <1>1. ASSUME WellFormed(rs), NEW r \in rs
        PROVE  LegalName(r) /\ \A x \in rs : x # r => ~Conflicts(r, x)
    <2>1. LegalName(r)
      BY <1>1 DEF WellFormed, LegalName, CnameAlone, NsAtApex
    <2>2. ASSUME NEW x \in rs, x # r PROVE ~Conflicts(r, x)
      BY <1>1, <2>2 DEF WellFormed, Conflicts, UniqueRdata, OneTtlPerRrset, CnameAlone, NullMxAlone
    <2> QED BY <2>1, <2>2
  <1>2. ASSUME \A r \in rs : LegalName(r) /\ \A x \in rs : x # r => ~Conflicts(r, x)
        PROVE  WellFormed(rs)
    <2>1. UniqueRdata(rs)
      BY <1>2 DEF UniqueRdata, Conflicts, SameRdata
    <2>2. OneTtlPerRrset(rs)
      BY <1>2 DEF OneTtlPerRrset, Conflicts
    <2>3. CnameAlone(rs)
      BY <1>2 DEF CnameAlone, Conflicts, LegalName
    <2>4. NullMxAlone(rs)
      BY <1>2 DEF NullMxAlone, Conflicts
    <2>5. NsAtApex(rs)
      BY <1>2 DEF NsAtApex, LegalName
    <2> QED BY <2>1, <2>2, <2>3, <2>4, <2>5 DEF WellFormed
  <1> QED BY <1>1, <1>2

\* Whether two records exclude each other does not depend on which came first.
LEMMA ConflictsSymmetric ==
    ASSUME NEW r \in Record, NEW x \in Record, Conflicts(r, x)
    PROVE  Conflicts(x, r)
  BY DEF Conflicts, SameRdata

\* Deleting rows never breaks a record rule.
LEMMA WellFormedSubset ==
    ASSUME NEW rs \in SUBSET Record, NEW S \in SUBSET rs, WellFormed(rs)
    PROVE  WellFormed(S)
  BY WellFormedPairwise

\* Records that pass validation one by one leave a well-formed set.
LEMMA AddsWellFormed ==
    ASSUME NEW rs \in SUBSET Record, NEW adds \in SUBSET Record,
           WellFormed(rs), AllAddable(rs, adds)
    PROVE  WellFormed(rs \cup adds)
  <1>1. \A r \in rs : LegalName(r) /\ \A x \in rs : x # r => ~Conflicts(r, x)
    BY WellFormedPairwise
  <1>2. \A r \in adds : LegalName(r) /\ \A x \in rs \cup (adds \ {r}) : ~Conflicts(r, x)
    BY DEF AllAddable, Addable, LegalName
  <1>3. ASSUME NEW r \in rs \cup adds PROVE LegalName(r)
    BY <1>1, <1>2
  <1>4. ASSUME NEW r \in rs \cup adds, NEW x \in rs \cup adds, x # r
        PROVE  ~Conflicts(r, x)
    <2>1. CASE r \in adds
      BY <1>2, <1>4, <2>1
    <2>2. CASE r \in rs /\ x \in adds
      BY <1>2, <1>4, <2>2, ConflictsSymmetric
    <2>3. CASE r \in rs /\ x \in rs
      BY <1>1, <1>4, <2>3
    <2> QED BY <2>1, <2>2, <2>3
  <1> QED BY <1>3, <1>4, WellFormedPairwise

\* A synthesized apex NS needs no validation: it joins the apex NS RRset at
\* that RRset's TTL and nothing else at the apex can refuse it.
LEMMA PrimaryNsAddable ==
    ASSUME NEW rs \in SUBSET Record, NEW soa \in Soa, NEW ttl \in ApexNsTtls(soa, rs),
           WellFormed(rs), ~HasPrimaryNs(soa, rs)
    PROVE  /\ PrimaryNsRecord(soa, ttl) \in Record
           /\ AllAddable(rs, {PrimaryNsRecord(soa, ttl)})
  <1> DEFINE p == PrimaryNsRecord(soa, ttl)
  <1>1. p \in Record
    BY DataAssumption DEF Record, PrimaryNsRecord, ApexNsTtls, Soa, RecordTypes
  <1>2. p.name = Apex /\ p.type = "NS" /\ p.value = soa.primary_ns /\ p.ttl = ttl
    BY DEF PrimaryNsRecord
  <1>3. ASSUME NEW x \in rs PROVE ~Conflicts(p, x)
    <2>1. x.name = Apex => x.type # "CNAME"
      BY DEF WellFormed, CnameAlone
    <2>2. ~SameRdata(p, x)
      BY <1>2 DEF SameRdata, HasPrimaryNs, IsPrimaryNs, IsApexNs
    <2>3. x.name = Apex /\ x.type = "NS" => x.ttl = ttl
      BY DEF ApexNsTtls, IsApexNs, WellFormed, OneTtlPerRrset
    <2> QED BY <1>2, <2>1, <2>2, <2>3 DEF Conflicts
  <1>4. Addable(rs, p)
    BY <1>2, <1>3 DEF Addable
  <1>5. AllAddable(rs, {p})
    BY <1>4 DEF AllAddable
  <1> QED BY <1>1, <1>5

-----------------------------------------------------------------------------
(* What a step can be                                                      *)

\* A commit whose log accounts for the new record set and whose record set
\* obeys the rules under the new SOA.
SoundCommit(soa, new, log) ==
    /\ soa \in Soa
    /\ new \in SUBSET Record
    /\ log \in Seq(LogEntry)
    /\ Accounts(records, log, new)
    /\ WellFormed(new)
    /\ HasPrimaryNs(soa, new)
    /\ Commit(soa, new, log)
    /\ tx' = NoTx

Writable == zone # NoZone /\ zone.serial < MaxSerial

WriteStep == Writable /\ \E soa, new, log : SoundCommit(soa, new, log)

CreateStep == \E soa \in Soa, serial \in 1..MaxSerial : CreateZone(soa, serial)

\* A step of an open RFC 2136 transaction that commits nothing.
PendingStep ==
    /\ UNCHANGED <<zone, records, changes, snapshots>>
    /\ tx' \in OpenTx \cup {NoTx}
    /\ tx' # NoTx =>
         /\ Writable
         /\ Accounts(records, tx'.log, tx'.records)
         /\ WellFormed(tx'.records)
         /\ HasPrimaryNs(zone.soa, tx'.records)

\* CommitRows with rows that survive validation is a sound commit.
LEMMA CommitRowsSound ==
    ASSUME IndInv, MayWrite,
           NEW dels \in SUBSET records, NEW adds \in SUBSET Record,
           AllAddable(records \ dels, adds),
           HasPrimaryNs(zone.soa, (records \ dels) \cup adds),
           CommitRows(dels, adds)
    PROVE  WriteStep
  <1> DEFINE new == (records \ dels) \cup adds
             log == DelThenAdd(dels, adds)
  <1>1. /\ zone # NoZone /\ zone.serial < MaxSerial /\ tx = NoTx
        /\ zone.soa \in Soa
        /\ records \in SUBSET Record
        /\ WellFormed(records)
    BY CurrentVersion DEF MayWrite
  <1>2. adds \cap (records \ dels) = {}
    BY DEF AllAddable, Addable, Conflicts, SameRdata
  <1>3. <<>> \in Seq(LogEntry) /\ Accounts(records, <<>>, records)
    BY <1>1, EmptyLogAccounts DEF WellFormed
  <1>5. records \ dels \in SUBSET Record /\ records \ dels \in SUBSET records
    BY <1>1
  <1>6. WellFormed(records \ dels)
    BY <1>1, <1>5, WellFormedSubset
  <1>7. WellFormed(new)
    BY <1>5, <1>6, AddsWellFormed
  <1>4. log \in Seq(LogEntry) /\ Accounts(records, log, new)
    <2>1. UniqueRdata(new)
      BY <1>7 DEF WellFormed
    <2> QED BY <1>1, <1>2, <1>3, <2>1, LoggedReplace, Zenon DEF DelThenAdd
  <1>8. Commit(zone.soa, new, log) /\ tx' = NoTx
    BY <1>1 DEF CommitRows
  <1>9. new \in SUBSET Record
    BY <1>5
  <1> HIDE DEF new, log
  <1>10. SoundCommit(zone.soa, new, log)
    BY <1>1, <1>4, <1>7, <1>8, <1>9 DEF SoundCommit, new
  <1> QED BY <1>1, <1>10 DEF WriteStep, Writable

\* Deletions the validator lets through spare the primary NS.
LEMMA PrimaryNsKept ==
    ASSUME NEW soa, NEW rs, NEW dels, NEW adds, HasPrimaryNs(soa, rs), Deletable(soa, dels)
    PROVE  HasPrimaryNs(soa, (rs \ dels) \cup adds)
  BY DEF HasPrimaryNs, Deletable

\* RecordService::create publishes a consistent version explained by its log.
LEMMA CreateRecordSound ==
    ASSUME IndInv, NEW r \in Record, CreateRecord(r)
    PROVE  WriteStep
  <1>1. MayWrite /\ Addable(records, r) /\ CommitRows({}, {r})
    BY DEF CreateRecord
  <1>2. AllAddable(records \ {}, {r})
    BY <1>1 DEF AllAddable
  <1>3. HasPrimaryNs(zone.soa, (records \ {}) \cup {r})
    BY <1>1, CurrentVersion, PrimaryNsKept DEF MayWrite, Deletable
  <1> QED BY <1>1, <1>2, <1>3, CommitRowsSound

\* So does create_bulk.
LEMMA CreateBulkSound ==
    ASSUME IndInv, NEW adds \in SUBSET Record, CreateBulk(adds)
    PROVE  WriteStep
  <1>1. MayWrite /\ AllAddable(records \ {}, adds) /\ CommitRows({}, adds)
    BY DEF CreateBulk
  <1>2. HasPrimaryNs(zone.soa, (records \ {}) \cup adds)
    BY <1>1, CurrentVersion, PrimaryNsKept DEF MayWrite, Deletable
  <1> QED BY <1>1, <1>2, CommitRowsSound

\* So does an update of a record, whose DEL and ADD may name the same row.
LEMMA UpdateRecordSound ==
    ASSUME IndInv, NEW old \in records, NEW new \in Record, UpdateRecord(old, new)
    PROVE  WriteStep
  <1>1. MayWrite /\ CommitRows({old}, {new})
    BY DEF UpdateRecord
  <1>2. AllAddable(records \ {old}, {new})
    BY DEF UpdateRecord, AllAddable
  <1>3. HasPrimaryNs(zone.soa, records)
    BY <1>1, CurrentVersion DEF MayWrite
  <1>4. HasPrimaryNs(zone.soa, (records \ {old}) \cup {new})
    BY <1>3 DEF UpdateRecord, HasPrimaryNs
  <1> QED BY <1>1, <1>2, <1>4, CommitRowsSound

\* So does the deletion of a record, which spares the primary NS.
LEMMA DeleteRecordSound ==
    ASSUME IndInv, NEW r \in records, DeleteRecord(r)
    PROVE  WriteStep
  <1>1. MayWrite /\ Deletable(zone.soa, {r}) /\ CommitRows({r}, {})
    BY DEF DeleteRecord
  <1>2. AllAddable(records \ {r}, {})
    BY DEF AllAddable
  <1>3. HasPrimaryNs(zone.soa, (records \ {r}) \cup {})
    BY <1>1, CurrentVersion, PrimaryNsKept, Zenon DEF MayWrite
  <1> QED BY <1>1, <1>2, <1>3, CommitRowsSound

\* An import may delete the primary NS, but only to write it back at the
\* file's TTL.
LEMMA ImportSound ==
    ASSUME IndInv, NEW mode \in ImportModes, NEW file \in SUBSET Record,
           ImportZoneFile(mode, file)
    PROVE  WriteStep
  <1> DEFINE dels == ImportDels(mode, file) \cup ImportTtlDels(mode, file)
             adds == ImportAdds(mode, file)
  <1>1. MayWrite /\ AllAddable(records \ dels, adds) /\ CommitRows(dels, adds)
    BY DEF ImportZoneFile
  <1>2. dels \in SUBSET records /\ adds \in SUBSET Record
    BY DEF ImportDels, ImportTtlDels, ImportAdds
  <1>3. PICK p \in records : IsPrimaryNs(zone.soa, p)
    BY <1>1, CurrentVersion DEF MayWrite, HasPrimaryNs
  <1>4. UniqueRdata(records)
    BY <1>1, CurrentVersion DEF MayWrite, WellFormed
  <1>5. HasPrimaryNs(zone.soa, (records \ dels) \cup adds)
    <2>1. CASE p \notin dels
      BY <1>3, <2>1 DEF HasPrimaryNs
    <2>2. CASE p \in dels
      <3>1. p \in ImportTtlDels(mode, file)
        BY <1>3, <2>2 DEF ImportDels, Deletable
      <3>2. PICK d \in file : SameRdata(p, d)
        BY <3>1 DEF ImportTtlDels
      <3>3. ASSUME NEW e \in records, SameRdata(e, d) PROVE e = p
        BY <1>4, <3>2, <3>3 DEF UniqueRdata, SameRdata
      <3>4. d \in adds
        BY <3>1, <3>3 DEF ImportAdds
      <3>5. IsPrimaryNs(zone.soa, d)
        BY <1>3, <3>2 DEF SameRdata, IsPrimaryNs, IsApexNs
      <3> QED BY <3>4, <3>5 DEF HasPrimaryNs
    <2> QED BY <2>1, <2>2
  <1> HIDE DEF dels, adds
  <1> QED BY <1>1, <1>2, <1>5, CommitRowsSound

\* ExternalDNS handles no NS records.
LEMMA ExternalDnsSound ==
    ASSUME IndInv, NEW dels \in SUBSET Record, NEW adds \in SUBSET Record,
           ApplyExternalDns(dels, adds)
    PROVE  WriteStep
  <1> DEFINE deletes == ChangeSetDels(dels, adds)
             creates == ChangeSetAdds(dels, adds)
  <1>1. MayWrite /\ AllAddable(records \ deletes, creates) /\ CommitRows(deletes, creates)
    BY DEF ApplyExternalDns
  <1>2. deletes \in SUBSET records /\ creates \in SUBSET Record
    BY DEF ChangeSetDels, ChangeSetAdds
  <1>3. \A r \in dels : r.type # "NS"
    BY DEF ApplyExternalDns, ExternalDnsRecordTypes
  <1>4. Deletable(zone.soa, deletes)
    BY <1>3 DEF Deletable, ChangeSetDels, SameRdata, IsPrimaryNs, IsApexNs
  <1> HIDE DEF deletes, creates
  <1>5. HasPrimaryNs(zone.soa, (records \ deletes) \cup creates)
    BY <1>1, <1>4, CurrentVersion, PrimaryNsKept DEF MayWrite
  <1> QED BY <1>1, <1>2, <1>5, CommitRowsSound

\* So does a zone update, although it inserts the new apex NS without validation:
\* the NS takes the TTL of its RRset.
LEMMA UpdateZoneSound ==
    ASSUME IndInv, NEW soa \in Soa, UpdateZone(soa)
    PROVE  WriteStep
  <1>1. MayWrite /\ tx' = NoTx
    BY DEF UpdateZone, MayWrite
  <1>2. records \in SUBSET Record /\ WellFormed(records)
    BY <1>1, CurrentVersion DEF MayWrite
  <1>3. PICK ttl \in ApexNsTtls(soa, records) :
          LET missing == IF \E r \in records : IsPrimaryNs(soa, r)
                           THEN {} ELSE {PrimaryNsRecord(soa, ttl)}
          IN  Commit(soa, records \cup missing, LogSoa(LogRows(<<>>, "ADD", missing)))
    BY Zenon DEF UpdateZone
  <1> DEFINE missing == IF \E r \in records : IsPrimaryNs(soa, r)
                          THEN {} ELSE {PrimaryNsRecord(soa, ttl)}
             new == records \cup missing
             added == LogRows(<<>>, "ADD", missing)
  <1>4. Commit(soa, new, LogSoa(added))
    BY <1>3
  <1>5. missing \in SUBSET Record /\ AllAddable(records, missing)
    <2>1. CASE HasPrimaryNs(soa, records)
      BY <2>1 DEF HasPrimaryNs, AllAddable
    <2>2. CASE ~HasPrimaryNs(soa, records)
      BY <1>2, <2>2, PrimaryNsAddable DEF HasPrimaryNs
    <2> QED BY <2>1, <2>2
  <1>6. HasPrimaryNs(soa, new)
    <2>1. CASE HasPrimaryNs(soa, records)
      BY <2>1 DEF HasPrimaryNs
    <2>2. CASE ~HasPrimaryNs(soa, records)
      <3>1. IsPrimaryNs(soa, PrimaryNsRecord(soa, ttl))
        BY DEF IsPrimaryNs, IsApexNs, PrimaryNsRecord
      <3>2. PrimaryNsRecord(soa, ttl) \in new
        BY <2>2 DEF HasPrimaryNs
      <3> QED BY <3>1, <3>2 DEF HasPrimaryNs
    <2> QED BY <2>1, <2>2
  <1> HIDE DEF missing
  <1>7. missing \cap records = {}
    BY <1>5 DEF AllAddable, Addable, Conflicts, SameRdata
  <1>8. WellFormed(new) /\ new \in SUBSET Record
    BY <1>2, <1>5, AddsWellFormed
  <1>9. <<>> \in Seq(LogEntry) /\ Accounts(records, <<>>, records) /\ UniqueRdata(new)
    BY <1>2, <1>8, EmptyLogAccounts DEF WellFormed
  <1>10. added \in Seq(LogEntry) /\ Accounts(records, added, new)
    BY <1>2, <1>5, <1>7, <1>9, LoggedInsert, Zenon
  <1> HIDE DEF new, added
  <1>11. LogSoa(added) \in Seq(LogEntry) /\ Accounts(records, LogSoa(added), new)
    BY <1>2, <1>8, <1>10, LoggedSoa, Zenon
  <1>12. SoundCommit(soa, new, LogSoa(added))
    BY <1>1, <1>4, <1>6, <1>8, <1>11 DEF SoundCommit
  <1> QED BY <1>1, <1>12 DEF WriteStep, Writable, MayWrite

\* So does a forced increment.
LEMMA ForceIncrementSound ==
    ASSUME IndInv, ForceIncrementSerial
    PROVE  WriteStep
  <1>1. MayWrite /\ tx' = NoTx /\ Commit(zone.soa, records, <<>>)
    BY DEF ForceIncrementSerial, MayWrite
  <1>2. /\ zone.soa \in Soa /\ records \in SUBSET Record
        /\ WellFormed(records) /\ HasPrimaryNs(zone.soa, records)
    BY <1>1, CurrentVersion DEF MayWrite
  <1>3. <<>> \in Seq(LogEntry) /\ Accounts(records, <<>>, records)
    BY <1>2, EmptyLogAccounts DEF WellFormed
  <1>4. SoundCommit(zone.soa, records, <<>>)
    BY <1>1, <1>2, <1>3 DEF SoundCommit
  <1> QED BY <1>1, <1>4 DEF WriteStep, Writable, MayWrite

\* The difference rollback computes between two consistent versions is exact:
\* no row is protected, no apex NS has to be synthesized and nothing is refused.
LEMMA RollbackExact ==
    ASSUME NEW soa \in Soa, records \in SUBSET Record, WellFormed(records),
           NEW target \in SUBSET Record, WellFormed(target), HasPrimaryNs(soa, target)
    PROVE  /\ RollbackDels(soa, target) = records \ target
           /\ RollbackInserts(soa, target) = {target \ records}
           /\ RollbackValid(soa, target, target \ records)
  <1>1. ASSUME NEW r \in records, NEW x \in target, SameRdata(r, x)
        PROVE  r.ttl = x.ttl <=> r = x
    BY <1>1, RecordEquality
  <1>2. ASSUME NEW r \in target, NEW x \in target, SameRdata(r, x) PROVE r = x
    BY <1>2 DEF WellFormed, UniqueRdata
  <1>3. ASSUME NEW r \in records, ~\E x \in target : SameRdata(r, x)
        PROVE  Deletable(soa, {r})
    BY <1>3 DEF Deletable, HasPrimaryNs, IsPrimaryNs, IsApexNs, SameRdata
  <1>4. \A r : SameRdata(r, r)
    BY DEF SameRdata
  <1>5. RollbackDels(soa, target) = records \ target
    <2>1. ASSUME NEW r \in records PROVE r \in RollbackDels(soa, target) <=> r \notin target
      <3>1. CASE \E x \in target : SameRdata(r, x)
        BY <1>1, <1>2, <1>4, <3>1 DEF RollbackDels
      <3>2. CASE ~\E x \in target : SameRdata(r, x)
        BY <1>3, <1>4, <3>2 DEF RollbackDels
      <3> QED BY <3>1, <3>2
    <2> QED BY <2>1 DEF RollbackDels
  <1>6. RollbackAdds(soa, target) = target \ records
    BY <1>1, <1>4 DEF RollbackAdds
  <1>7. (records \ RollbackDels(soa, target)) \cup RollbackAdds(soa, target) = target
    BY <1>5, <1>6
  <1>8. RollbackInserts(soa, target) = {target \ records}
    BY <1>6, <1>7 DEF RollbackInserts, HasPrimaryNs
  <1>9. \A r \in target : LegalName(r) /\ \A x \in target : x # r => ~Conflicts(r, x)
    BY WellFormedPairwise
  <1>10. RollbackValid(soa, target, target \ records)
    BY <1>5, <1>9 DEF RollbackValid, AllAddable, Addable, LegalName
  <1> QED BY <1>5, <1>8, <1>10

\* A rollback publishes the records and the SOA of its target, explained by its log.
LEMMA RollbackCommits ==
    ASSUME IndInv, NEW s \in 1..MaxSerial, Rollback(s)
    PROVE  SoundCommit(snapshots[s], RecordsAt(s),
                       RollbackLog(snapshots[s], records \ RecordsAt(s), RecordsAt(s) \ records))
  <1> DEFINE soa == snapshots[s]
             target == RecordsAt(s)
             start == IF soa # zone.soa THEN LogSoa(<<>>) ELSE <<>>
             log == RollbackLog(soa, records \ target, target \ records)
  <1>1. MayWrite /\ s \in DOMAIN snapshots /\ tx' = NoTx
    BY DEF Rollback, MayWrite
  <1>2. records \in SUBSET Record /\ WellFormed(records)
    BY <1>1, CurrentVersion DEF MayWrite
  <1>3. /\ soa \in Soa /\ target \in SUBSET Record
        /\ WellFormed(target) /\ HasPrimaryNs(soa, target)
    BY <1>1, PastVersion
  <1>4. \E inserts \in RollbackInserts(soa, target) :
           Commit(soa, (records \ RollbackDels(soa, target)) \cup inserts,
                  RollbackLog(soa, RollbackDels(soa, target), inserts))
    BY Zenon DEF Rollback
  <1> HIDE DEF soa, target
  <1>5. /\ RollbackDels(soa, target) = records \ target
        /\ RollbackInserts(soa, target) = {target \ records}
    BY <1>2, <1>3, RollbackExact, Zenon
  <1>6. Commit(soa, target, log)
    <2>1. (records \ (records \ target)) \cup (target \ records) = target
      OBVIOUS
    <2> QED BY <1>4, <1>5, <2>1, Zenon DEF Commit
  <1>7. <<>> \in Seq(LogEntry) /\ Accounts(records, <<>>, records)
    BY <1>2, EmptyLogAccounts DEF WellFormed
  <1>8. start \in Seq(LogEntry) /\ Accounts(records, start, records)
    BY <1>2, <1>7, LoggedSoa, Zenon
  <1>9. log = LogRows(LogRows(start, "DEL", records \ target), "ADD", target \ records)
    BY DEF RollbackLog
  <1>10. /\ records \ target \in SUBSET records
         /\ target \ records \in SUBSET Record
         /\ (target \ records) \cap (records \ (records \ target)) = {}
    BY <1>3
  <1> HIDE DEF start, log
  <1>11. log \in Seq(LogEntry) /\ Accounts(records, log, target)
    <2>1. (records \ (records \ target)) \cup (target \ records) = target
      OBVIOUS
    <2> DEFINE dels == records \ target
               adds == target \ records
    <2>2. /\ dels \in SUBSET records /\ adds \in SUBSET Record /\ adds \cap (records \ dels) = {}
          /\ log = LogRows(LogRows(start, "DEL", dels), "ADD", adds)
          /\ (records \ dels) \cup adds = target
      BY <1>9, <1>10, <2>1
    <2>a. UniqueRdata(target)
      BY <1>3 DEF WellFormed
    <2> HIDE DEF dels, adds
    <2>3. /\ LogRows(LogRows(start, "DEL", dels), "ADD", adds) \in Seq(LogEntry)
          /\ Accounts(records, LogRows(LogRows(start, "DEL", dels), "ADD", adds),
                      (records \ dels) \cup adds)
      BY <1>2, <1>8, <2>2, <2>a, LoggedReplace, Zenon
    <2> QED BY <2>2, <2>3, Zenon
  <1>12. SoundCommit(soa, target, log)
    BY <1>1, <1>3, <1>6, <1>11 DEF SoundCommit
  <1> QED BY <1>12 DEF soa, target, log

\* What the invariant says of an open RFC 2136 transaction.
LEMMA OpenUpdate ==
    ASSUME IndInv, tx # NoTx
    PROVE  /\ Writable
           /\ zone.soa \in Soa /\ records \in SUBSET Record
           /\ tx \in OpenTx /\ tx.records \in SUBSET Record /\ tx.log \in Seq(LogEntry)
           /\ Accounts(records, tx.log, tx.records)
           /\ WellFormed(tx.records)
           /\ HasPrimaryNs(zone.soa, tx.records)
  <1>1. zone # NoZone
    BY DEF IndInv, SnapshotsContiguous
  <1>2. tx \in OpenTx
    BY DEF IndInv, TypeOK
  <1>3. tx.records \in SUBSET Record /\ tx.log \in Seq(LogEntry)
    BY <1>2 DEF OpenTx
  <1> QED BY <1>1, <1>2, <1>3, CurrentVersion DEF IndInv, OpenUpdateConsistent, OpenLogAccounts, Writable

\* An RFC 2136 update starts from the committed records with an empty log.
LEMMA BeginUpdateSound ==
    ASSUME IndInv, BeginUpdate
    PROVE  PendingStep
  <1>1. /\ MayWrite
        /\ tx' = [records |-> records, log |-> <<>>]
        /\ UNCHANGED <<zone, records, changes, snapshots>>
    BY DEF BeginUpdate
  <1>2. records \in SUBSET Record /\ WellFormed(records) /\ HasPrimaryNs(zone.soa, records)
    BY <1>1, CurrentVersion DEF MayWrite
  <1>3. tx' \in OpenTx /\ tx'.records = records /\ tx'.log = <<>>
    BY <1>1, <1>2 DEF OpenTx
  <1>4. Accounts(records, <<>>, records)
    BY <1>2, EmptyLogAccounts DEF WellFormed
  <1> QED BY <1>1, <1>2, <1>3, <1>4 DEF PendingStep, Writable, MayWrite

\* An addition of the update keeps its rows consistent and explained.
LEMMA UpdateAddSound ==
    ASSUME IndInv, NEW r \in Record, UpdateAdd(r)
    PROVE  PendingStep
  <1> DEFINE new == tx.records \cup {r}
             log == LogRows(tx.log, "ADD", {r})
  <1>1. /\ tx # NoTx
        /\ Addable(tx.records, r)
        /\ tx' = [records |-> new, log |-> log]
        /\ UNCHANGED <<zone, records, changes, snapshots>>
    BY DEF UpdateAdd
  <1>2. r \notin tx.records
    BY <1>1 DEF Addable, Conflicts, SameRdata
  <1>3. AllAddable(tx.records, {r})
    BY <1>1 DEF AllAddable
  <1>4. {r} \in SUBSET Record /\ {r} \cap tx.records = {}
    BY <1>2
  <1>6. WellFormed(new) /\ new \in SUBSET Record
    BY <1>1, <1>3, <1>4, OpenUpdate, AddsWellFormed
  <1>5. log \in Seq(LogEntry) /\ Accounts(records, log, new)
    <2>1. UniqueRdata(new)
      BY <1>6 DEF WellFormed
    <2> QED BY <1>1, <1>4, <2>1, OpenUpdate, LoggedInsert, ZenonT(30)
  <1>7. HasPrimaryNs(zone.soa, new)
    BY <1>1, OpenUpdate DEF HasPrimaryNs
  <1>8. tx' \in OpenTx /\ tx'.records = new /\ tx'.log = log
    BY <1>1, <1>5, <1>6 DEF OpenTx
  <1> HIDE DEF new, log
  <1> QED BY <1>1, <1>5, <1>6, <1>7, <1>8, OpenUpdate DEF PendingStep

\* A deletion of the update keeps its rows consistent and explained.
LEMMA UpdateDeleteSound ==
    ASSUME IndInv, NEW r \in Record, UpdateDelete(r)
    PROVE  PendingStep
  <1>1. tx # NoTx /\ UNCHANGED <<zone, records, changes, snapshots>>
    BY DEF UpdateDelete
  <1>2. PICK matched \in DeleteScopes(r) :
          /\ Deletable(zone.soa, matched)
          /\ tx' = [records |-> tx.records \ matched, log |-> LogRows(tx.log, "DEL", matched)]
    BY ZenonT(30) DEF UpdateDelete
  <1> DEFINE new == tx.records \ matched
             log == LogRows(tx.log, "DEL", matched)
  <1>3. matched \in SUBSET tx.records
    BY <1>2 DEF DeleteScopes
  <1>4. log \in Seq(LogEntry) /\ Accounts(records, log, new)
    BY <1>1, <1>3, OpenUpdate, LoggedDelete, Zenon
  <1>5. WellFormed(new) /\ new \in SUBSET Record
    BY <1>1, OpenUpdate, WellFormedSubset
  <1>6. HasPrimaryNs(zone.soa, new)
    BY <1>1, <1>2, OpenUpdate DEF HasPrimaryNs, Deletable
  <1>7. tx' \in OpenTx /\ tx'.records = new /\ tx'.log = log
    BY <1>2, <1>4, <1>5 DEF OpenTx
  <1> HIDE DEF new, log
  <1> QED BY <1>1, <1>4, <1>5, <1>6, <1>7, OpenUpdate DEF PendingStep

\* Committing the update publishes a consistent version explained by its log.
LEMMA CommitUpdateSound ==
    ASSUME IndInv, CommitUpdate
    PROVE  WriteStep
  <1>1. tx # NoTx /\ tx' = NoTx /\ Commit(zone.soa, tx.records, tx.log)
    BY DEF CommitUpdate
  <1>2. SoundCommit(zone.soa, tx.records, tx.log)
    BY <1>1, OpenUpdate DEF SoundCommit
  <1> QED BY <1>1, <1>2, OpenUpdate DEF WriteStep

\* Every step creates or deletes the zone, publishes one sound commit, or only
\* moves the open transaction.
LEMMA NextSteps ==
    ASSUME IndInv, [Next]_vars
    PROVE  CreateStep \/ DeleteZone \/ WriteStep \/ PendingStep
  <1>1. CASE ZoneNext
    <2>1. ASSUME NEW soa \in Soa, UpdateZone(soa) PROVE WriteStep
      BY <2>1, UpdateZoneSound
    <2>2. ASSUME ForceIncrementSerial PROVE WriteStep
      BY <2>2, ForceIncrementSound
    <2>3. ASSUME NEW s \in 1..MaxSerial, Rollback(s) PROVE WriteStep
      <3>1. Writable
        BY <2>3 DEF Rollback, MayWrite, Writable
      <3> QED BY <2>3, <3>1, RollbackCommits, Zenon DEF WriteStep
    <2> QED BY <1>1, <2>1, <2>2, <2>3 DEF ZoneNext, CreateStep
  <1>2. CASE RecordNext
    <2>1. ASSUME NEW r \in Requests, CreateRecord(r) PROVE WriteStep
      BY <2>1, CreateRecordSound, DataAssumption
    <2>2. ASSUME NEW adds \in Batches, CreateBulk(adds) PROVE WriteStep
      BY <2>2, CreateBulkSound, DataAssumption
    <2>3. ASSUME NEW old \in records, NEW new \in Requests, UpdateRecord(old, new) PROVE WriteStep
      BY <2>3, UpdateRecordSound, DataAssumption
    <2>4. ASSUME NEW r \in records, DeleteRecord(r) PROVE WriteStep
      BY <2>4, DeleteRecordSound
    <2>5. ASSUME NEW mode \in ImportModes, NEW file \in Batches, ImportZoneFile(mode, file)
          PROVE  WriteStep
      BY <2>5, ImportSound, DataAssumption
    <2>6. ASSUME NEW dels \in Batches \cup {{}}, NEW adds \in Batches \cup {{}},
                 ApplyExternalDns(dels, adds)
          PROVE  WriteStep
      BY <2>6, ExternalDnsSound, DataAssumption
    <2> QED BY <1>2, <2>1, <2>2, <2>3, <2>4, <2>5, <2>6, Zenon DEF RecordNext
  <1>3. CASE UpdateNext
    <2>1. ASSUME BeginUpdate PROVE PendingStep
      BY <2>1, BeginUpdateSound
    <2>2. ASSUME NEW r \in Requests, UpdateAdd(r) PROVE PendingStep
      BY <2>2, UpdateAddSound, DataAssumption
    <2>3. ASSUME NEW r \in Requests, UpdateDelete(r) PROVE PendingStep
      BY <2>3, UpdateDeleteSound, DataAssumption
    <2>4. ASSUME AbortUpdate PROVE PendingStep
      BY <2>4 DEF AbortUpdate, PendingStep
    <2>5. ASSUME CommitUpdate PROVE WriteStep
      BY <2>5, CommitUpdateSound
    <2> QED BY <1>3, <2>1, <2>2, <2>3, <2>4, <2>5 DEF UpdateNext
  <1>4. CASE UNCHANGED vars
    <2>1. UNCHANGED <<zone, records, changes, snapshots>> /\ tx' = tx
      BY <1>4 DEF vars
    <2>2. tx' \in OpenTx \cup {NoTx}
      BY <2>1 DEF IndInv, TypeOK
    <2> QED BY <2>1, <2>2, OpenUpdate DEF PendingStep
  <1> QED BY <1>1, <1>2, <1>3, <1>4 DEF Next

-----------------------------------------------------------------------------
(* What a step does to the versions                                        *)

\* A commit appends one version and leaves the others as they were.
LEMMA CommitAppends ==
    ASSUME IndInv, Writable, NEW soa, NEW new, NEW log, SoundCommit(soa, new, log)
    PROVE  /\ NextSerial \in 1..MaxSerial /\ NextSerial \notin DOMAIN snapshots
           /\ zone' = [serial |-> NextSerial, soa |-> soa]
           /\ DOMAIN snapshots' = DOMAIN snapshots \cup {NextSerial}
           /\ DOMAIN changes' = DOMAIN snapshots'
           /\ snapshots'[NextSerial] = soa
           /\ \A s \in DOMAIN snapshots : snapshots'[s] = snapshots[s]
           /\ \A s \in DOMAIN changes' : changes'[s] \in Seq(LogEntry)
           /\ changes'[NextSerial] = log /\ \A s \in DOMAIN changes : changes'[s] = changes[s]
           /\ Reconstruct(records', changes', NextSerial) = new
           /\ \A s \in DOMAIN snapshots : Reconstruct(records', changes', s) = RecordsAt(s)
  <1>1. zone.serial \in 1..MaxSerial /\ records \in SUBSET Record
    BY CurrentVersion DEF Writable
  <1>2. /\ DOMAIN snapshots \subseteq 1..MaxSerial /\ DOMAIN changes = DOMAIN snapshots
        /\ \A s \in DOMAIN changes : changes[s] \in Seq(LogEntry)
    BY DEF IndInv, TypeOK
  <1>3. NextSerial \in 1..MaxSerial /\ zone.serial < NextSerial
    BY <1>1, SerialAssumption DEF Writable, NextSerial
  <1>4. \A s \in DOMAIN snapshots : s \in Int /\ s < NextSerial
    BY <1>1, <1>2, SerialAssumption DEF IndInv, SnapshotsContiguous, Writable, NextSerial
  <1>5. NextSerial \notin DOMAIN snapshots
    BY <1>3, <1>4, SerialAssumption
  <1>6. /\ zone' = [serial |-> NextSerial, soa |-> soa]
        /\ records' = new
        /\ changes' = WithRow(changes, log)
        /\ snapshots' = WithRow(snapshots, soa)
    BY DEF SoundCommit, Commit
  <1>7. /\ DOMAIN snapshots' = DOMAIN snapshots \cup {NextSerial}
        /\ snapshots'[NextSerial] = soa
        /\ \A s \in DOMAIN snapshots : snapshots'[s] = snapshots[s]
    BY <1>5, <1>6 DEF WithRow
  <1>8. /\ DOMAIN changes' = DOMAIN changes \cup {NextSerial}
        /\ changes'[NextSerial] = log
        /\ \A s \in DOMAIN changes : changes'[s] = changes[s]
    BY <1>2, <1>5, <1>6 DEF WithRow
  <1>9. log \in Seq(LogEntry) /\ new \in SUBSET Record /\ Explains(records, log, new)
    BY DEF SoundCommit, Accounts
  <1>10. \A s \in DOMAIN changes' : changes'[s] \in Seq(LogEntry)
    BY <1>2, <1>8, <1>9
  <1>11. Reconstruct(records', changes', NextSerial) = new
    <2>1. \A s \in DOMAIN changes' : s \in Int /\ s <= NextSerial
      BY <1>2, <1>3, <1>4, <1>8, SerialAssumption
    <2> QED BY <1>3, <1>6, <2>1, ReconstructCurrent, SerialAssumption
  <1>12. ASSUME NEW s \in DOMAIN snapshots PROVE Reconstruct(records', changes', s) = RecordsAt(s)
    <2>1. s \in Int /\ s < NextSerial
      BY <1>4
    <2>2. ExtendsBy(changes, changes', NextSerial)
      BY <1>2, <1>3, <1>4, <1>8, <1>9 DEF ExtendsBy
    <2>3. Explains(records, changes'[NextSerial], new)
      BY <1>8, <1>9
    <2>4. Reconstruct(new, changes', s) = Reconstruct(records, changes, s)
      BY <1>1, <1>9, <2>1, <2>2, <2>3, ReconstructExtended
    <2> QED BY <1>6, <2>4 DEF RecordsAt
  <1> QED BY <1>2, <1>3, <1>5, <1>6, <1>7, <1>8, <1>10, <1>11, <1>12

\* A new zone has one version, its apex NS.
LEMMA CreateStarts ==
    ASSUME NEW soa \in Soa, NEW serial \in 1..MaxSerial, CreateZone(soa, serial)
    PROVE  /\ zone' = [serial |-> serial, soa |-> soa] /\ tx' = tx
           /\ records' \in SUBSET Record
           /\ DOMAIN snapshots' = {serial} /\ snapshots'[serial] = soa
           /\ DOMAIN changes' = {serial} /\ changes'[serial] \in Seq(LogEntry)
           /\ Reconstruct(records', changes', serial) = records'
           /\ WellFormed(records') /\ HasPrimaryNs(soa, records')
  <1> DEFINE p == PrimaryNsRecord(soa, soa.ttl)
  <1>1. /\ zone' = [serial |-> serial, soa |-> soa] /\ tx' = tx
        /\ records' = {p}
        /\ changes' = [s \in {serial} |-> <<>>]
        /\ snapshots' = [s \in {serial} |-> soa]
    BY DEF CreateZone
  <1>2. p \in Record /\ IsPrimaryNs(soa, p)
    BY DataAssumption DEF PrimaryNsRecord, Record, RecordTypes, Soa, IsPrimaryNs, IsApexNs
  <1>3. LegalName(p)
    BY DEF LegalName, PrimaryNsRecord
  <1> HIDE DEF p
  <1>4. WellFormed({p})
    BY <1>2, <1>3, WellFormedPairwise
  <1>5. HasPrimaryNs(soa, {p})
    BY <1>2 DEF HasPrimaryNs
  <1>6. DOMAIN changes' = {serial} /\ changes'[serial] = <<>>
    BY <1>1
  <1>7. Reconstruct(records', changes', serial) = records'
    BY <1>6, ReconstructCurrent, SerialAssumption
  <1>8. DOMAIN snapshots' = {serial} /\ snapshots'[serial] = soa
    BY <1>1
  <1>9. changes'[serial] \in Seq(LogEntry)
    BY <1>6
  <1>10. /\ records' \in SUBSET Record
         /\ WellFormed(records') /\ HasPrimaryNs(soa, records')
    BY <1>1, <1>2, <1>4, <1>5
  <1> QED BY <1>1, <1>6, <1>7, <1>8, <1>9, <1>10, Zenon

-----------------------------------------------------------------------------
(* The invariant                                                           *)

\* An empty database satisfies the invariant.
LEMMA InitIndInv ==
    ASSUME Init
    PROVE  IndInv
  <1>1. /\ zone = NoZone /\ records = {} /\ tx = NoTx
        /\ DOMAIN changes = {} /\ DOMAIN snapshots = {}
    BY DEF Init
  <1> QED BY <1>1 DEF IndInv, TypeOK, SnapshotsContiguous, VersionsConsistent, OpenUpdateConsistent, OpenLogAccounts, LogsAccount

\* Creating a zone establishes the invariant for its only version.
LEMMA CreateIndInv ==
    ASSUME IndInv, CreateStep
    PROVE  IndInv'
  <1>1. PICK soa \in Soa, serial \in 1..MaxSerial : CreateZone(soa, serial)
    BY DEF CreateStep
  <1>2. /\ zone' = [serial |-> serial, soa |-> soa]
        /\ records' \in SUBSET Record
        /\ DOMAIN snapshots' = {serial} /\ snapshots'[serial] = soa
        /\ DOMAIN changes' = {serial} /\ changes'[serial] \in Seq(LogEntry)
        /\ Reconstruct(records', changes', serial) = records'
        /\ WellFormed(records') /\ HasPrimaryNs(soa, records')
    BY <1>1, CreateStarts, Zenon
  <1>3. zone' \in ZoneRow /\ zone' # NoZone /\ zone'.serial = serial /\ zone'.soa = soa
    BY <1>2, AbsenceAssumption DEF ZoneRow
  <1>4. tx' = NoTx
    BY <1>1 DEF CreateZone, IndInv, SnapshotsContiguous
  <1>5. TypeOK'
    BY <1>2, <1>3, <1>4 DEF TypeOK
  <1>6. SnapshotsContiguous'
    <2>1. serial <= serial /\ serial..serial \subseteq {serial}
      BY SerialAssumption
    <2> QED BY <1>2, <1>3, <2>1 DEF SnapshotsContiguous
  <1>7. VersionsConsistent'
    BY <1>2 DEF VersionsConsistent, RecordsAt
  <1>8. OpenUpdateConsistent' /\ OpenLogAccounts'
    BY <1>4 DEF OpenUpdateConsistent, OpenLogAccounts
  <1>9. LogsAccount'
    <2>1. serial + 1 # serial
      BY SerialAssumption
    <2> QED BY <1>2, <2>1 DEF LogsAccount
  <1> QED BY <1>5, <1>6, <1>7, <1>8, <1>9 DEF IndInv

\* Deleting the zone leaves no row behind.
LEMMA DeleteIndInv ==
    ASSUME DeleteZone
    PROVE  IndInv'
  <1>1. /\ zone' = NoZone /\ records' = {} /\ tx' = NoTx
        /\ DOMAIN changes' = {} /\ DOMAIN snapshots' = {}
    BY DEF DeleteZone
  <1> QED BY <1>1 DEF IndInv, TypeOK, SnapshotsContiguous, VersionsConsistent, OpenUpdateConsistent, OpenLogAccounts, LogsAccount

\* A write that publishes a consistent, explained version preserves the invariant.
LEMMA WriteIndInv ==
    ASSUME IndInv, WriteStep
    PROVE  IndInv'
  <1>1. PICK soa, new, log : SoundCommit(soa, new, log)
    BY DEF WriteStep
  <1>2. /\ soa \in Soa /\ new \in SUBSET Record /\ WellFormed(new) /\ HasPrimaryNs(soa, new)
        /\ records' = new /\ tx' = NoTx
    BY <1>1 DEF SoundCommit, Commit
  <1>3. /\ NextSerial \in 1..MaxSerial /\ NextSerial \notin DOMAIN snapshots
        /\ zone' = [serial |-> NextSerial, soa |-> soa]
        /\ DOMAIN snapshots' = DOMAIN snapshots \cup {NextSerial}
        /\ DOMAIN changes' = DOMAIN snapshots'
        /\ snapshots'[NextSerial] = soa
        /\ \A s \in DOMAIN snapshots : snapshots'[s] = snapshots[s]
        /\ \A s \in DOMAIN changes' : changes'[s] \in Seq(LogEntry)
        /\ changes'[NextSerial] = log /\ \A s \in DOMAIN changes : changes'[s] = changes[s]
        /\ Reconstruct(records', changes', NextSerial) = new
        /\ \A s \in DOMAIN snapshots : Reconstruct(records', changes', s) = RecordsAt(s)
    BY <1>1, CommitAppends, ZenonT(30) DEF WriteStep
  <1>4. zone' \in ZoneRow /\ zone' # NoZone /\ zone'.serial = NextSerial /\ zone'.soa = soa
    BY <1>2, <1>3, AbsenceAssumption DEF ZoneRow
  <1>5. TypeOK'
    <2>1. DOMAIN snapshots \subseteq 1..MaxSerial /\ \A s \in DOMAIN snapshots : snapshots[s] \in Soa
      BY DEF TypeOK, IndInv
    <2>2. \A s \in DOMAIN snapshots' : s \in 1..MaxSerial /\ snapshots'[s] \in Soa
      <3> SUFFICES ASSUME NEW s \in DOMAIN snapshots' PROVE s \in 1..MaxSerial /\ snapshots'[s] \in Soa
        OBVIOUS
      <3>1. CASE s = NextSerial
        BY <1>2, <1>3, <3>1, Zenon
      <3>2. CASE s \in DOMAIN snapshots
        BY <1>3, <2>1, <3>2, Zenon
      <3> QED BY <1>3, <3>1, <3>2, Zenon
    <2> QED BY <1>2, <1>3, <1>4, <2>2, Zenon DEF TypeOK
  <1>6. SnapshotsContiguous'
    <2>1. zone.serial \in 1..MaxSerial /\ zone.serial \in DOMAIN snapshots
      BY CurrentVersion DEF WriteStep, Writable, IndInv, SnapshotsContiguous
    <2>2. ASSUME NEW s \in DOMAIN snapshots
          PROVE  s <= NextSerial /\ s..NextSerial \subseteq DOMAIN snapshots'
      <3>1. s \in Int /\ s <= zone.serial /\ s..zone.serial \subseteq DOMAIN snapshots
        BY SerialAssumption DEF WriteStep, Writable, IndInv, SnapshotsContiguous, TypeOK
      <3> QED BY <1>3, <2>1, <3>1, SerialAssumption DEF NextSerial
    <2>3. NextSerial <= NextSerial /\ NextSerial..NextSerial \subseteq DOMAIN snapshots'
      BY <1>3, SerialAssumption
    <2>4. \A s \in DOMAIN snapshots' : s <= NextSerial /\ s..NextSerial \subseteq DOMAIN snapshots'
      BY <1>3, <2>2, <2>3, ZenonT(30)
    <2> QED BY <1>3, <1>4, <2>4, ZenonT(30) DEF SnapshotsContiguous
  <1>7. VersionsConsistent'
    BY <1>2, <1>3, PastVersion DEF VersionsConsistent, RecordsAt
  <1>8. OpenUpdateConsistent' /\ OpenLogAccounts'
    BY <1>2 DEF OpenUpdateConsistent, OpenLogAccounts
  <1>9. LogsAccount'
    <2>1. SUFFICES ASSUME NEW s \in DOMAIN changes', s + 1 \in DOMAIN changes'
                   PROVE  Accounts(RecordsAt(s)', changes'[s + 1], RecordsAt(s + 1)')
      BY DEF LogsAccount
    <2>2. /\ zone.serial \in 1..MaxSerial /\ RecordsAt(zone.serial) = records /\ NextSerial = zone.serial + 1
          /\ DOMAIN changes = DOMAIN snapshots /\ zone.serial \in DOMAIN snapshots
          /\ \A t \in DOMAIN snapshots : t \in 1..MaxSerial /\ t <= zone.serial
      BY CurrentVersion DEF WriteStep, Writable, IndInv, SnapshotsContiguous, TypeOK, NextSerial
    <2>3. \A t \in DOMAIN snapshots : RecordsAt(t)' = RecordsAt(t)
      BY <1>3 DEF RecordsAt
    <2>a. PICK next : next = NextSerial
      OBVIOUS
    <2>4. RecordsAt(next)' = new /\ changes'[next] = log
      BY <1>3, <2>a, Zenon DEF RecordsAt
    <2>b. DOMAIN changes' = DOMAIN snapshots \cup {next} /\ next = zone.serial + 1 /\ zone.serial \in Int
      <3>1. DOMAIN changes' = DOMAIN snapshots \cup {NextSerial}
        BY <1>3, Zenon
      <3> QED BY <2>2, <2>a, <3>1
    <2>5. CASE s + 1 \in DOMAIN snapshots
      <3>1. s \in DOMAIN snapshots
        <4>1. s + 1 <= zone.serial
          BY <2>2, <2>5, Zenon
        <4>2. s = next => s \in Int /\ ~(s + 1 <= zone.serial)
          BY <2>b
        <4> QED BY <2>1, <2>b, <4>1, <4>2, Zenon
      <3>2. Accounts(RecordsAt(s), changes[s + 1], RecordsAt(s + 1))
        BY <2>2, <2>5, <3>1, Zenon DEF IndInv, LogsAccount
      <3> QED BY <1>3, <2>2, <2>3, <2>5, <3>1, <3>2, Zenon
    <2>6. CASE s + 1 = NextSerial
      <3>1. s = zone.serial /\ s + 1 = next
        <4>1. s + 1 = next /\ s \in Int
          <5>1. \A t \in DOMAIN snapshots : t \in Int
            BY <2>2, SerialAssumption
          <5>2. next \in Int
            BY <2>b
          <5> QED BY <2>1, <2>6, <2>a, <2>b, <5>1, <5>2, Zenon
        <4> QED BY <2>b, <4>1
      <3>2. Accounts(records, log, new)
        BY <1>1 DEF SoundCommit
      <3>3. RecordsAt(s)' = records
        BY <2>2, <2>3, <3>1
      <3> QED BY <2>4, <3>1, <3>2, <3>3
    <2> QED BY <2>1, <2>5, <2>6, <2>a, <2>b, Zenon
  <1> QED BY <1>5, <1>6, <1>7, <1>8, <1>9 DEF IndInv

\* A step inside an RFC 2136 update preserves the invariant.
LEMMA PendingIndInv ==
    ASSUME IndInv, PendingStep
    PROVE  IndInv'
  <1>1. UNCHANGED <<zone, records, changes, snapshots>>
    BY DEF PendingStep
  <1>2. TypeOK'
    BY <1>1 DEF IndInv, TypeOK, PendingStep
  <1>3. SnapshotsContiguous'
    BY <1>1, Zenon DEF IndInv, SnapshotsContiguous, PendingStep, Writable
  <1>4. VersionsConsistent'
    BY <1>1 DEF IndInv, VersionsConsistent, RecordsAt
  <1>5. OpenUpdateConsistent' /\ OpenLogAccounts'
    BY <1>1 DEF OpenUpdateConsistent, OpenLogAccounts, PendingStep, Writable, Accounts
  <1>6. LogsAccount'
    BY <1>1 DEF IndInv, LogsAccount, RecordsAt
  <1> QED BY <1>2, <1>3, <1>4, <1>5, <1>6 DEF IndInv

\* The inductive invariant holds in every reachable state.
THEOREM Invariance == Spec => []IndInv
  <1>1. Init => IndInv
    BY InitIndInv
  <1>2. IndInv /\ [Next]_vars => IndInv'
    BY NextSteps, CreateIndInv, DeleteIndInv, WriteIndInv, PendingIndInv
  <1> QED BY <1>1, <1>2, PTL DEF Spec

\* Type correctness of the tables and of the open transaction.
THEOREM TypeCorrectness == Spec => []TypeOK
  <1>1. IndInv => TypeOK
    BY DEF IndInv
  <1> QED BY <1>1, Invariance, PTL

\* Every version a reader can ask for obeys the record rules and holds its own
\* primary NS, whichever write paths produced and followed it.
THEOREM Consistency == Spec => []VersionsConsistent
  <1>1. IndInv => VersionsConsistent
    BY DEF IndInv
  <1> QED BY <1>1, Invariance, PTL

\* The snapshots are the contiguous serials up to the zone's own.
THEOREM Contiguity == Spec => []SnapshotsContiguous
  <1>1. IndInv => SnapshotsContiguous
    BY DEF IndInv
  <1> QED BY <1>1, Invariance, PTL

\* The log of an open RFC 2136 transaction accounts for its uncommitted rows.
THEOREM OpenUpdates == Spec => []OpenUpdateConsistent
  <1>1. IndInv => OpenUpdateConsistent
    BY DEF IndInv
  <1> QED BY <1>1, Invariance, PTL

-----------------------------------------------------------------------------
(* Rollback                                                                *)

\* The validation in rollback never refuses an earlier serial.
THEOREM RollbackAccepted == Spec => []RollbackNeverRefused
  <1>1. IndInv => RollbackNeverRefused
    <2>1. SUFFICES ASSUME IndInv, MayWrite, NEW s \in DOMAIN snapshots \ {zone.serial},
                          NEW inserts \in RollbackInserts(snapshots[s], RecordsAt(s))
                   PROVE  RollbackValid(snapshots[s], RecordsAt(s), inserts)
      BY DEF RollbackNeverRefused
    <2>2. records \in SUBSET Record /\ WellFormed(records)
      BY <2>1, CurrentVersion DEF MayWrite
    <2>3. /\ snapshots[s] \in Soa /\ RecordsAt(s) \in SUBSET Record
          /\ WellFormed(RecordsAt(s)) /\ HasPrimaryNs(snapshots[s], RecordsAt(s))
      BY <2>1, PastVersion
    <2> DEFINE soa == snapshots[s]
               target == RecordsAt(s)
    <2> HIDE DEF soa, target
    <2>4. /\ RollbackInserts(soa, target) = {target \ records}
          /\ RollbackValid(soa, target, target \ records)
      BY <2>2, <2>3, RollbackExact, ZenonT(30) DEF soa, target
    <2>5. inserts = target \ records
      BY <2>1, <2>4 DEF soa, target
    <2> QED BY <2>4, <2>5 DEF soa, target
  <1> QED BY <1>1, Invariance, PTL

\* A rollback leaves the record set and the SOA of its target, one serial on.
THEOREM RollbackExactness == Spec => RollbackRestores
  <1>1. ASSUME IndInv, NEW s \in 1..MaxSerial, Rollback(s)
        PROVE  records' = RecordsAt(s) /\ zone' = [serial |-> NextSerial, soa |-> snapshots[s]]
    BY <1>1, RollbackCommits, Zenon DEF SoundCommit, Commit
  <1>2. IndInv /\ [Next]_vars =>
          [\A s \in 1..MaxSerial :
             Rollback(s) => /\ records' = RecordsAt(s)
                            /\ zone' = [serial |-> NextSerial, soa |-> snapshots[s]]]_vars
    BY <1>1
  <1> QED BY <1>2, Invariance, PTL DEF Spec, RollbackRestores

-----------------------------------------------------------------------------
(* Refinement                                                              *)

\* A well-formed record set with its SOA's apex NS is a version of VersionedZone.
LEMMA VersionConsistent ==
    ASSUME NEW soa \in Soa, NEW rs \in SUBSET Record, WellFormed(rs), HasPrimaryNs(soa, rs)
    PROVE  [soa |-> soa, records |-> rs] \in ConsistentVersions
  BY DEF ConsistentVersions

\* Creating the zone is VersionedZone's Create.
LEMMA CreateRefines ==
    ASSUME IndInv, CreateStep
    PROVE  Abstract!Create
  <1>1. PICK soa \in Soa, serial \in 1..MaxSerial : CreateZone(soa, serial)
    BY DEF CreateStep
  <1>2. DOMAIN snapshots = {}
    BY <1>1 DEF CreateZone, IndInv, SnapshotsContiguous
  <1>3. /\ records' \in SUBSET Record
        /\ DOMAIN snapshots' = {serial} /\ snapshots'[serial] = soa
        /\ Reconstruct(records', changes', serial) = records'
        /\ WellFormed(records') /\ HasPrimaryNs(soa, records')
    BY <1>1, CreateStarts, Zenon
  <1>4. VersionAt(serial)' = [soa |-> soa, records |-> records']
    BY <1>3 DEF VersionAt, RecordsAt
  <1>5. VersionAt(serial)' \in ConsistentVersions
    BY <1>3, <1>4, VersionConsistent
  <1> QED BY <1>2, <1>3, <1>5 DEF Abstract!Create, Abstract!Exists

\* Every write is VersionedZone's Publish: it adds one version and alters none.
LEMMA WriteRefines ==
    ASSUME IndInv, WriteStep
    PROVE  Abstract!Publish
  <1>1. PICK soa, new, log : SoundCommit(soa, new, log)
    BY DEF WriteStep
  <1>2. soa \in Soa /\ new \in SUBSET Record /\ WellFormed(new) /\ HasPrimaryNs(soa, new)
    BY <1>1 DEF SoundCommit
  <1>3. PICK next : next = zone.serial + 1
    OBVIOUS
  <1>4. /\ DOMAIN snapshots' = DOMAIN snapshots \cup {next}
        /\ snapshots'[next] = soa
        /\ \A s \in DOMAIN snapshots : snapshots'[s] = snapshots[s]
        /\ Reconstruct(records', changes', next) = new
        /\ \A s \in DOMAIN snapshots : Reconstruct(records', changes', s) = RecordsAt(s)
    BY <1>1, <1>3, CommitAppends, ZenonT(30) DEF WriteStep, NextSerial
  <1>5. VersionAt(next)' = [soa |-> soa, records |-> new]
    BY <1>4 DEF VersionAt, RecordsAt
  <1>6. VersionAt(next)' \in ConsistentVersions
    BY <1>2, <1>5, VersionConsistent
  <1>7. \A s \in DOMAIN snapshots : VersionAt(s)' = VersionAt(s)
    BY <1>4 DEF VersionAt, RecordsAt
  <1>8. /\ zone.serial \in DOMAIN snapshots
        /\ \A s \in DOMAIN snapshots : s <= zone.serial
    BY DEF WriteStep, Writable, IndInv, SnapshotsContiguous
  <1> QED BY <1>3, <1>4, <1>6, <1>7, <1>8, Zenon DEF Abstract!Publish, Abstract!IsNewest

\* The zone store implements VersionedZone.
THEOREM Refinement == Spec => ImplementsVersionedZone
  <1>1. Init => Abstract!Init
    <2>1. Init => DOMAIN snapshots = {}
      BY DEF Init
    <2> QED BY <2>1 DEF Abstract!Init
  <1>2. IndInv /\ [Next]_vars => [Abstract!Next]_([s \in DOMAIN snapshots |-> VersionAt(s)])
    <2>1. SUFFICES ASSUME IndInv, [Next]_vars
                   PROVE  [Abstract!Next]_([s \in DOMAIN snapshots |-> VersionAt(s)])
      OBVIOUS
    <2>2. CASE CreateStep
      BY <2>1, <2>2, CreateRefines DEF Abstract!Next
    <2>3. CASE DeleteZone
      <3>1. DOMAIN snapshots # {} /\ DOMAIN snapshots' = {}
        BY <2>1, <2>3 DEF DeleteZone, IndInv, SnapshotsContiguous
      <3>2. Abstract!Delete
        BY <3>1 DEF Abstract!Delete, Abstract!Exists
      <3> QED BY <3>2 DEF Abstract!Next
    <2>4. CASE WriteStep
      BY <2>1, <2>4, WriteRefines DEF Abstract!Next
    <2>5. CASE PendingStep
      <3>1. snapshots' = snapshots /\ records' = records /\ changes' = changes
        BY <2>5 DEF PendingStep
      <3> QED BY <3>1 DEF VersionAt, RecordsAt
    <2> QED BY <2>1, <2>2, <2>3, <2>4, <2>5, NextSteps
  <1> QED BY <1>1, <1>2, Invariance, PTL DEF Spec, ImplementsVersionedZone, Abstract!Spec
=============================================================================
