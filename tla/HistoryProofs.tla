---------------------------- MODULE HistoryProofs ---------------------------
(***************************************************************************)
(* The invariant of ZoneStore, and what it makes of the log of             *)
(* zone_changes, for every value of the constants: the loop of             *)
(* zone/history.rs rebuilds exactly the version it is asked for, the       *)
(* difference of two versions leads from one to the other, and so do the   *)
(* sections of an IXFR from any version in between.                        *)
(***************************************************************************)
EXTENDS ZoneDiff, Transfer, TLAPS

\* A leaf that names no prover: SMT, then Zenon, then SMT once more with more time.
USE SMTT(30), ZenonT(20), SMTT(60)

-----------------------------------------------------------------------------
(* The change log and the inductive invariant                              *)

\* Records are equal when their four columns are.
LEMMA RecordEquality ==
    ASSUME NEW r \in Record, NEW x \in Record, SameRdata(r, x), r.ttl = x.ttl
    PROVE  r = x
  BY DEF Record, SameRdata

\* The last entry that touches r adds it.
LastIsAdd(log, r) ==
    \E i \in DOMAIN log :
        /\ log[i].op = "ADD"
        /\ r \in log[i].records
        /\ \A j \in DOMAIN log : i < j => r \notin log[j].records

\* What writing the rows of one entry does to a record set.
Effect(before, e, after) ==
    \/ e.op = "ADD" /\ e.records \cap before = {} /\ after = before \cup e.records
    \/ e.op = "DEL" /\ e.records \subseteq before /\ after = before \ e.records
    \/ e.op = "SOA" /\ e.records = {} /\ after = before

\* The entries lead from old to new through sets that repeat no rdata.
Path(st, old, log, new) ==
    /\ st = [i \in 0..Len(log) |-> st[i]]
    /\ st[0] = old /\ st[Len(log)] = new
    /\ \A i \in 0..Len(log) : st[i] \in SUBSET Record /\ UniqueRdata(st[i])
    /\ \A i \in 1..Len(log) : Effect(st[i - 1], log[i], st[i])

Decides(log, new) == \A r \in Record : Touches(log, r) => (r \in new <=> LastIsAdd(log, r))

\* A log accounts for a write: undone it gives the old set, its last word on a
\* record is what the new set says, and its entries can be undone one by one.
Accounts(old, log, new) ==
    Explains(old, log, new) /\ Decides(log, new) /\ \E st : Path(st, old, log, new)

\* An empty log mentions no record.
LEMMA EmptyLog ==
    ASSUME NEW r
    PROVE  ~Touches(<<>>, r) /\ ~FirstIsDel(<<>>, r)
  BY DEF Touches, FirstIsDel

\* The log of an open RFC 2136 update accounts for the rows it has written.
OpenLogAccounts == tx # NoTx => Accounts(records, tx.log, tx.records)

\* The log of every serial accounts for the step from the version before.
LogsAccount ==
    \A s \in DOMAIN changes :
        s + 1 \in DOMAIN changes => Accounts(RecordsAt(s), changes[s + 1], RecordsAt(s + 1))

\* The inductive invariant: each version stays what it was because the log of
\* every later one accounts for it.
IndInv ==
    /\ TypeOK /\ SnapshotsContiguous /\ VersionsConsistent /\ OpenUpdateConsistent
    /\ OpenLogAccounts /\ LogsAccount

\* A step that leaves the tables alone keeps it.
LEMMA IndInvStays ==
    ASSUME IndInv, UNCHANGED vars
    PROVE  IndInv'
  <1>1. UNCHANGED <<zone, records, changes, snapshots, tx>>
    BY DEF vars
  <1> QED BY <1>1, Zenon DEF IndInv, TypeOK, SnapshotsContiguous, VersionsConsistent, OpenUpdateConsistent, OpenLogAccounts, LogsAccount, RecordsAt

-----------------------------------------------------------------------------
(* Versions                                                                *)

\* Membership in a reconstructed set, without the bounding set.
LEMMA ReconstructMember ==
    ASSUME NEW current, NEW history, NEW serial, NEW r
    PROVE  r \in Reconstruct(current, history, serial) <=>
             \/ /\ r \in current
                /\ \A s \in DOMAIN history : s > serial => ~Touches(history[s], r)
             \/ \E s \in DOMAIN history :
                   /\ s > serial
                   /\ FirstIsDel(history[s], r)
                   /\ \A u \in DOMAIN history : serial < u /\ u < s => ~Touches(history[u], r)
  <1>1. ASSUME NEW s \in DOMAIN history, FirstIsDel(history[s], r)
        PROVE  r \in Logged(history)
    BY <1>1 DEF FirstIsDel, Logged
  <1> QED BY <1>1 DEF Reconstruct

\* With no later entry there is nothing to undo.
LEMMA ReconstructCurrent ==
    ASSUME NEW current, NEW history, NEW serial \in Int,
           \A s \in DOMAIN history : s \in Int /\ s <= serial
    PROVE  Reconstruct(current, history, serial) = current
  <1>1. \A s \in DOMAIN history : ~(s > serial)
    OBVIOUS
  <1>2. \A r : r \in Reconstruct(current, history, serial) <=> r \in current
    BY <1>1, ReconstructMember
  <1> QED BY <1>2, Zenon

\* A reconstructed version holds rows of the records table.
LEMMA ReconstructRecords ==
    ASSUME NEW current \in SUBSET Record, NEW history, NEW serial,
           \A s \in DOMAIN history : history[s] \in Seq(LogEntry)
    PROVE  Reconstruct(current, history, serial) \in SUBSET Record
  <1>1. ASSUME NEW s \in DOMAIN history, NEW i \in DOMAIN history[s]
        PROVE  history[s][i].records \subseteq Record
    <2>1. history[s][i] \in LogEntry
      OBVIOUS
    <2> QED BY <2>1 DEF LogEntry
  <1>2. Logged(history) \subseteq Record
    BY <1>1 DEF Logged
  <1> QED BY <1>2 DEF Reconstruct

\* The live records of a zone are its newest version.
LEMMA CurrentVersion ==
    ASSUME IndInv, zone # NoZone
    PROVE  /\ zone \in ZoneRow
           /\ zone.serial \in 1..MaxSerial /\ zone.soa \in Soa
           /\ records \in SUBSET Record
           /\ RecordsAt(zone.serial) = records
           /\ WellFormed(records)
           /\ HasPrimaryNs(zone.soa, records)
  <1>1. zone \in ZoneRow /\ zone.serial \in 1..MaxSerial /\ zone.soa \in Soa
    BY DEF IndInv, TypeOK, ZoneRow
  <1>2. records \in SUBSET Record
    BY DEF IndInv, TypeOK
  <1>3. \A s \in DOMAIN changes : s \in Int /\ s <= zone.serial
    BY SerialAssumption DEF IndInv, TypeOK, SnapshotsContiguous
  <1>4. RecordsAt(zone.serial) = records
    BY <1>1, <1>3, SerialAssumption, ReconstructCurrent DEF RecordsAt
  <1>5. zone.serial \in DOMAIN snapshots /\ snapshots[zone.serial] = zone.soa
    BY DEF IndInv, SnapshotsContiguous
  <1>6. WellFormed(records) /\ HasPrimaryNs(zone.soa, records)
    BY <1>4, <1>5 DEF IndInv, VersionsConsistent
  <1> QED BY <1>1, <1>2, <1>4, <1>6

\* What the invariant says of one version a rollback may target.
LEMMA PastVersion ==
    ASSUME IndInv, NEW s \in DOMAIN snapshots
    PROVE  /\ snapshots[s] \in Soa
           /\ RecordsAt(s) \in SUBSET Record
           /\ WellFormed(RecordsAt(s))
           /\ HasPrimaryNs(snapshots[s], RecordsAt(s))
  <1>1. snapshots[s] \in Soa
    BY DEF IndInv, TypeOK
  <1>2. RecordsAt(s) \in SUBSET Record
    BY ReconstructRecords DEF IndInv, TypeOK, RecordsAt
  <1>3. WellFormed(RecordsAt(s)) /\ HasPrimaryNs(snapshots[s], RecordsAt(s))
    BY DEF IndInv, VersionsConsistent
  <1> QED BY <1>1, <1>2, <1>3

-----------------------------------------------------------------------------
(* Appending to the log                                                    *)

\* What one more entry adds to the records a log touches, first deletes and last adds.
LEMMA AppendedEntry ==
    ASSUME NEW log \in Seq(LogEntry), NEW e \in LogEntry, NEW r
    PROVE  /\ Touches(Append(log, e), r) <=> Touches(log, r) \/ r \in e.records
           /\ FirstIsDel(Append(log, e), r) <=>
                \/ FirstIsDel(log, r)
                \/ ~Touches(log, r) /\ e.op = "DEL" /\ r \in e.records
           /\ LastIsAdd(Append(log, e), r) <=>
                IF r \in e.records THEN e.op = "ADD" ELSE LastIsAdd(log, r)
  <1> DEFINE n == Len(log)
             long == Append(log, e)
  <1>1. n \in Nat /\ DOMAIN log = 1..n /\ DOMAIN long = 1..(n + 1)
    OBVIOUS
  <1>2. long[n + 1] = e /\ \A i \in 1..n : long[i] = log[i]
    OBVIOUS
  <1> HIDE DEF n, long
  <1>3. Touches(long, r) <=> Touches(log, r) \/ r \in e.records
    BY <1>1, <1>2 DEF Touches
  <1>4. ASSUME FirstIsDel(log, r) PROVE FirstIsDel(long, r)
    BY <1>1, <1>2, <1>4 DEF FirstIsDel
  <1>5. ASSUME ~Touches(log, r), e.op = "DEL", r \in e.records PROVE FirstIsDel(long, r)
    <2>1. n + 1 \in DOMAIN long /\ \A j \in 1..((n + 1) - 1) : r \notin long[j].records
      BY <1>1, <1>2, <1>5 DEF Touches
    <2> QED BY <1>2, <1>5, <2>1 DEF FirstIsDel
  <1>6. ASSUME FirstIsDel(long, r), ~FirstIsDel(log, r)
        PROVE  ~Touches(log, r) /\ e.op = "DEL" /\ r \in e.records
    <2>1. PICK i \in DOMAIN long :
             /\ long[i].op = "DEL"
             /\ r \in long[i].records
             /\ \A j \in 1..(i - 1) : r \notin long[j].records
      BY <1>6 DEF FirstIsDel
    <2>2. i = n + 1
      <3>1. SUFFICES ASSUME i \in 1..n PROVE FALSE
        BY <1>1, <2>1
      <3>2. \A j \in 1..(i - 1) : j \in 1..n
        BY <1>1, <3>1
      <3>3. FirstIsDel(log, r)
        BY <1>1, <1>2, <2>1, <3>1, <3>2 DEF FirstIsDel
      <3> QED BY <1>6, <3>3
    <2> QED BY <1>1, <1>2, <2>1, <2>2 DEF Touches
  <1>7. LastIsAdd(long, r) <=> IF r \in e.records THEN e.op = "ADD" ELSE LastIsAdd(log, r)
    <2>1. CASE r \in e.records
      <3>1. e.op = "ADD" => LastIsAdd(long, r)
        BY <1>1, <1>2, <2>1 DEF LastIsAdd
      <3>2. ASSUME LastIsAdd(long, r) PROVE e.op = "ADD"
        <4>1. PICK i \in DOMAIN long :
                 long[i].op = "ADD" /\ \A j \in DOMAIN long : i < j => r \notin long[j].records
          BY <3>2 DEF LastIsAdd
        <4>2. i = n + 1
          BY <1>1, <1>2, <2>1, <4>1
        <4> QED BY <1>2, <4>1, <4>2
      <3> QED BY <2>1, <3>1, <3>2
    <2>2. CASE r \notin e.records
      <3>1. ASSUME LastIsAdd(log, r) PROVE LastIsAdd(long, r)
        BY <1>1, <1>2, <2>2, <3>1 DEF LastIsAdd
      <3>2. ASSUME LastIsAdd(long, r) PROVE LastIsAdd(log, r)
        BY <1>1, <1>2, <2>2, <3>2 DEF LastIsAdd
      <3> QED BY <2>2, <3>1, <3>2
    <2> QED BY <2>1, <2>2
  <1> QED BY <1>3, <1>4, <1>5, <1>6, <1>7 DEF long

\* A write that changes no record and logs none, a forced increment, accounts for itself.
LEMMA EmptyLogAccounts ==
    ASSUME NEW rs \in SUBSET Record, UniqueRdata(rs)
    PROVE  <<>> \in Seq(LogEntry) /\ Accounts(rs, <<>>, rs)
  <1>1. Explains(rs, <<>>, rs) /\ Decides(<<>>, rs)
    BY EmptyLog DEF Explains, Decides
  <1>2. PICK st : st = [i \in 0..0 |-> rs]
    BY Zenon
  <1>3. Path(st, rs, <<>>, rs)
    BY <1>2 DEF Path
  <1> QED BY <1>1, <1>3 DEF Accounts

\* One more entry lengthens the path.
LEMMA PathAppend ==
    ASSUME NEW old, NEW log \in Seq(LogEntry), NEW mid, NEW e \in LogEntry, NEW new \in SUBSET Record,
           UniqueRdata(new), Effect(mid, e, new), \E st : Path(st, old, log, mid)
    PROVE  \E st : Path(st, old, Append(log, e), new)
  <1>1. PICK st : Path(st, old, log, mid)
    OBVIOUS
  <1>2. PICK n : n = Len(log)
    OBVIOUS
  <1>3. PICK long : long = Append(log, e)
    BY Zenon
  <1>4. /\ n \in Nat /\ Len(long) = n + 1 /\ long[n + 1] = e
        /\ \A i \in 1..n : long[i] = log[i]
    BY <1>2, <1>3
  <1>5. PICK f : f = [i \in 0..(n + 1) |-> IF i = n + 1 THEN new ELSE st[i]]
    BY Zenon
  <1>6. f[n + 1] = new /\ \A i \in 0..n : f[i] = st[i]
    BY <1>4, <1>5
  <1>7. \A i \in 0..n : st[i] \in SUBSET Record /\ UniqueRdata(st[i])
    BY <1>1, <1>2 DEF Path
  <1>8. st[0] = old /\ st[n] = mid /\ \A i \in 1..n : Effect(st[i - 1], log[i], st[i])
    BY <1>1, <1>2, Zenon DEF Path
  <1>9. \A i \in 0..(n + 1) : f[i] \in SUBSET Record /\ UniqueRdata(f[i])
    BY <1>4, <1>6, <1>7
  <1>10. ASSUME NEW i \in 1..(n + 1) PROVE Effect(f[i - 1], long[i], f[i])
    <2>1. CASE i = n + 1
      <3>1. f[i - 1] = mid /\ f[i] = new /\ long[i] = e
        BY <1>4, <1>6, <1>8, <2>1
      <3> QED BY <3>1
    <2>2. CASE i # n + 1
      <3>1. i \in 1..n /\ i - 1 \in 0..n /\ i \in 0..n
        BY <1>4, <2>2
      <3>2. f[i - 1] = st[i - 1] /\ f[i] = st[i] /\ long[i] = log[i]
        BY <1>4, <1>6, <3>1
      <3> QED BY <1>8, <3>1, <3>2
    <2> QED BY <2>1, <2>2
  <1>11. f[0] = old
    BY <1>4, <1>6, <1>8
  <1>12. f = [i \in 0..(n + 1) |-> f[i]]
    BY <1>5
  <1>13. Path(f, old, long, new)
    BY <1>4, <1>6, <1>9, <1>10, <1>11, <1>12, Zenon DEF Path
  <1> QED BY <1>3, <1>13

\* Where a path ends, no rdata is repeated.
LEMMA AccountedUnique ==
    ASSUME NEW old, NEW log \in Seq(LogEntry), NEW new, Accounts(old, log, new)
    PROVE  UniqueRdata(new)
  <1>1. PICK st : Path(st, old, log, new)
    BY DEF Accounts
  <1>2. Len(log) \in 0..Len(log)
    OBVIOUS
  <1> QED BY <1>1, <1>2 DEF Path

\* An entry that is logged as it is written keeps the log accounting for the set.
LEMMA LoggedEntry ==
    ASSUME NEW old \in SUBSET Record, NEW log \in Seq(LogEntry), NEW mid \in SUBSET Record,
           Accounts(old, log, mid), NEW e \in LogEntry, NEW new \in SUBSET Record,
           UniqueRdata(new), Effect(mid, e, new)
    PROVE  Append(log, e) \in Seq(LogEntry) /\ Accounts(old, Append(log, e), new)
  <1>1. Append(log, e) \in Seq(LogEntry)
    OBVIOUS
  <1>2. Explains(old, log, mid) /\ Decides(log, mid) /\ \E st : Path(st, old, log, mid)
    BY DEF Accounts
  <1>3. \E st : Path(st, old, Append(log, e), new)
    BY <1>2, PathAppend
  <1>4. ASSUME NEW r \in Record
        PROVE  /\ r \in old <=> (r \in new /\ ~Touches(Append(log, e), r)) \/ FirstIsDel(Append(log, e), r)
               /\ Touches(Append(log, e), r) => (r \in new <=> LastIsAdd(Append(log, e), r))
    <2>1. /\ r \in old <=> (r \in mid /\ ~Touches(log, r)) \/ FirstIsDel(log, r)
          /\ Touches(log, r) => (r \in mid <=> LastIsAdd(log, r))
      BY <1>2 DEF Explains, Decides
    <2>2. /\ r \in e.records => (e.op = "ADD" /\ r \notin mid /\ r \in new) \/ (e.op = "DEL" /\ r \in mid /\ r \notin new)
          /\ r \notin e.records => (r \in new <=> r \in mid)
      BY DEF Effect
    <2>3. PICK long : long = Append(log, e)
      BY Zenon
    <2>4. /\ Touches(long, r) <=> Touches(log, r) \/ r \in e.records
          /\ FirstIsDel(long, r) <=> FirstIsDel(log, r) \/ (~Touches(log, r) /\ e.op = "DEL" /\ r \in e.records)
          /\ r \in e.records => (LastIsAdd(long, r) <=> e.op = "ADD")
          /\ r \notin e.records => (LastIsAdd(long, r) <=> LastIsAdd(log, r))
      BY <2>3, AppendedEntry
    <2>5. r \in old <=> (r \in new /\ ~Touches(long, r)) \/ FirstIsDel(long, r)
      BY <2>1, <2>2, <2>4, Zenon
    <2>6. Touches(long, r) => (r \in new <=> LastIsAdd(long, r))
      BY <2>1, <2>2, <2>4, Zenon
    <2> QED BY <2>3, <2>5, <2>6
  <1>5. Explains(old, Append(log, e), new) /\ Decides(Append(log, e), new)
    BY <1>4 DEF Explains, Decides
  <1> QED BY <1>1, <1>3, <1>5 DEF Accounts

\* Deleting rows of the set and logging them keeps the log accounting for the set.
LEMMA LoggedDelete ==
    ASSUME NEW old \in SUBSET Record, NEW log \in Seq(LogEntry), NEW mid \in SUBSET Record,
           Accounts(old, log, mid), NEW rows \in SUBSET mid
    PROVE  /\ LogRows(log, "DEL", rows) \in Seq(LogEntry)
           /\ Accounts(old, LogRows(log, "DEL", rows), mid \ rows)
  <1>1. CASE rows = {}
    BY <1>1 DEF LogRows
  <1>2. CASE rows # {}
    <2>1. PICK e : e = [op |-> "DEL", records |-> rows]
      BY Zenon
    <2>2. e \in LogEntry /\ e.op = "DEL" /\ e.records = rows
      BY <2>1 DEF LogEntry
    <2>3. LogRows(log, "DEL", rows) = Append(log, e)
      BY <1>2, <2>1 DEF LogRows
    <2>4. PICK new : new = mid \ rows
      BY Zenon
    <2>5. new \in SUBSET Record /\ UniqueRdata(new) /\ Effect(mid, e, new)
      BY <2>2, <2>4, AccountedUnique DEF UniqueRdata, Effect
    <2>6. Append(log, e) \in Seq(LogEntry) /\ Accounts(old, Append(log, e), new)
      BY <2>2, <2>5, LoggedEntry
    <2> QED BY <2>3, <2>4, <2>6, Zenon
  <1> QED BY <1>1, <1>2

\* Inserting rows the set lacks and logging them does too.
LEMMA LoggedInsert ==
    ASSUME NEW old \in SUBSET Record, NEW log \in Seq(LogEntry), NEW mid \in SUBSET Record,
           Accounts(old, log, mid), NEW rows \in SUBSET Record, rows \cap mid = {},
           UniqueRdata(mid \cup rows)
    PROVE  /\ LogRows(log, "ADD", rows) \in Seq(LogEntry)
           /\ Accounts(old, LogRows(log, "ADD", rows), mid \cup rows)
  <1>1. CASE rows = {}
    BY <1>1 DEF LogRows
  <1>2. CASE rows # {}
    <2>1. PICK e : e = [op |-> "ADD", records |-> rows]
      BY Zenon
    <2>2. e \in LogEntry /\ e.op = "ADD" /\ e.records = rows
      BY <2>1 DEF LogEntry
    <2>3. LogRows(log, "ADD", rows) = Append(log, e)
      BY <1>2, <2>1 DEF LogRows
    <2>4. PICK new : new = mid \cup rows
      BY Zenon
    <2>5. new \in SUBSET Record /\ UniqueRdata(new) /\ Effect(mid, e, new)
      BY <2>2, <2>4 DEF Effect
    <2>6. Append(log, e) \in Seq(LogEntry) /\ Accounts(old, Append(log, e), new)
      BY <2>2, <2>5, LoggedEntry
    <2> QED BY <2>3, <2>4, <2>6, Zenon
  <1> QED BY <1>1, <1>2

\* SOA rows touch no record.
LEMMA LoggedSoa ==
    ASSUME NEW old \in SUBSET Record, NEW log \in Seq(LogEntry), NEW mid \in SUBSET Record,
           Accounts(old, log, mid)
    PROVE  LogSoa(log) \in Seq(LogEntry) /\ Accounts(old, LogSoa(log), mid)
  <1>1. PICK e : e = [op |-> "SOA", records |-> {}]
    BY Zenon
  <1>2. e \in LogEntry /\ e.op = "SOA" /\ e.records = {}
    BY <1>1 DEF LogEntry
  <1>3. LogSoa(log) = Append(log, e)
    BY <1>1 DEF LogSoa
  <1>4. UniqueRdata(mid) /\ Effect(mid, e, mid)
    BY <1>2, AccountedUnique DEF Effect
  <1> QED BY <1>2, <1>3, <1>4, LoggedEntry

\* Deletions followed by insertions: an inserted row may equal a deleted one
\* (a rewrite) but never a surviving one.
LEMMA LoggedReplace ==
    ASSUME NEW old \in SUBSET Record, NEW log \in Seq(LogEntry), NEW mid \in SUBSET Record,
           Accounts(old, log, mid),
           NEW dels \in SUBSET mid, NEW adds \in SUBSET Record, adds \cap (mid \ dels) = {},
           UniqueRdata((mid \ dels) \cup adds)
    PROVE  /\ LogRows(LogRows(log, "DEL", dels), "ADD", adds) \in Seq(LogEntry)
           /\ Accounts(old, LogRows(LogRows(log, "DEL", dels), "ADD", adds), (mid \ dels) \cup adds)
  <1>1. /\ LogRows(log, "DEL", dels) \in Seq(LogEntry)
        /\ Accounts(old, LogRows(log, "DEL", dels), mid \ dels)
    BY LoggedDelete
  <1>2. mid \ dels \in SUBSET Record
    OBVIOUS
  <1> QED BY <1>1, <1>2, LoggedInsert

-----------------------------------------------------------------------------
(* Reconstruction                                                          *)

\* A log with the entries of one more, later serial.
ExtendsBy(history, longer, next) ==
    /\ next \in Int
    /\ \A s \in DOMAIN history : s \in Int /\ s < next
    /\ \A s \in DOMAIN history : history[s] \in Seq(LogEntry)
    /\ DOMAIN longer = DOMAIN history \cup {next}
    /\ \A s \in DOMAIN history : longer[s] = history[s]
    /\ longer[next] \in Seq(LogEntry)

\* Extending the log by entries that explain the step from the old to the new
\* record set changes no earlier reconstruction.
LEMMA ReconstructExtended ==
    ASSUME NEW old \in SUBSET Record, NEW new \in SUBSET Record,
           NEW history, NEW longer, NEW next, NEW serial \in Int, serial < next,
           ExtendsBy(history, longer, next),
           Explains(old, longer[next], new)
    PROVE  Reconstruct(new, longer, serial) = Reconstruct(old, history, serial)
  <1> USE DEF ExtendsBy
  <1> DEFINE log == longer[next]
             Quiet(r) == \A s \in DOMAIN history : s > serial => ~Touches(history[s], r)
             Restored(r) == \E s \in DOMAIN history :
                               /\ s > serial
                               /\ FirstIsDel(history[s], r)
                               /\ \A u \in DOMAIN history :
                                     serial < u /\ u < s => ~Touches(history[u], r)
  <1>1. SUFFICES ASSUME NEW r \in Record
                 PROVE  r \in Reconstruct(new, longer, serial) <=> r \in Reconstruct(old, history, serial)
    <2>1. \A s \in DOMAIN longer : longer[s] \in Seq(LogEntry)
      OBVIOUS
    <2>2. /\ Reconstruct(new, longer, serial) \in SUBSET Record
          /\ Reconstruct(old, history, serial) \in SUBSET Record
      BY <2>1, ReconstructRecords
    <2> QED BY <1>1, <2>2, Zenon
  <1>2. r \in Reconstruct(old, history, serial) <=> (r \in old /\ Quiet(r)) \/ Restored(r)
    BY ReconstructMember
  <1>3. (\A s \in DOMAIN longer : s > serial => ~Touches(longer[s], r)) <=>
            Quiet(r) /\ ~Touches(log, r)
    OBVIOUS
  <1>4. (\E s \in DOMAIN longer :
            /\ s > serial
            /\ FirstIsDel(longer[s], r)
            /\ \A u \in DOMAIN longer : serial < u /\ u < s => ~Touches(longer[u], r)) <=>
            Restored(r) \/ (FirstIsDel(log, r) /\ Quiet(r))
    <2> DEFINE Undone(s) == /\ s > serial
                            /\ FirstIsDel(longer[s], r)
                            /\ \A u \in DOMAIN longer :
                                  serial < u /\ u < s => ~Touches(longer[u], r)
    <2>1. Undone(next) <=> FirstIsDel(log, r) /\ Quiet(r)
      OBVIOUS
    <2>2. ASSUME NEW s \in DOMAIN history
          PROVE  Undone(s) <=> /\ s > serial
                               /\ FirstIsDel(history[s], r)
                               /\ \A u \in DOMAIN history :
                                     serial < u /\ u < s => ~Touches(history[u], r)
      OBVIOUS
    <2>3. (\E s \in DOMAIN longer : Undone(s)) <=>
              Undone(next) \/ \E s \in DOMAIN history : Undone(s)
      OBVIOUS
    <2> QED BY <2>1, <2>2, <2>3
  <1>5. r \in Reconstruct(new, longer, serial) <=>
            (r \in new /\ Quiet(r) /\ ~Touches(log, r)) \/ Restored(r) \/ (FirstIsDel(log, r) /\ Quiet(r))
    BY <1>3, <1>4, ReconstructMember
  <1>6. r \in old <=> (r \in new /\ ~Touches(log, r)) \/ FirstIsDel(log, r)
    BY DEF Explains
  <1> QED BY <1>2, <1>5, <1>6

-----------------------------------------------------------------------------
(* Undoing the log                                                         *)

\* The naturals are well ordered. The library of well-founded relations proves
\* it below; the walks along the log take it as a hypothesis.
WellOrdered == \A S \in SUBSET Nat : S # {} => \E x \in S : \A y \in S : x <= y

\* A set of naturals that has a member has a least one.
LEMMA LeastOfSet ==
    ASSUME WellOrdered, NEW S \in SUBSET Nat, S # {}
    PROVE  \E x \in S : \A y \in S : x <= y
  BY DEF WellOrdered

AgreesDown(lo, hi, f, g) ==
    f[hi] = g[hi] /\ \A i \in lo..(hi - 1) : f[i + 1] = g[i + 1] => f[i] = g[i]

\* A walk down from hi that agrees with g at hi, and at i whenever it does at
\* i + 1, agrees with it everywhere.
LEMMA Downward ==
    ASSUME WellOrdered, NEW lo \in Int, NEW hi \in Int, NEW f, NEW g, AgreesDown(lo, hi, f, g)
    PROVE  \A i \in lo..hi : f[i] = g[i]
  <1>0. f[hi] = g[hi] /\ \A i \in lo..(hi - 1) : f[i + 1] = g[i + 1] => f[i] = g[i]
    BY DEF AgreesDown
  <1> DEFINE Bad == {k \in Nat : lo <= hi - k /\ f[hi - k] # g[hi - k]}
  <1>1. SUFFICES Bad = {}
    <2> SUFFICES ASSUME NEW i \in lo..hi PROVE f[i] = g[i]
      OBVIOUS
    <2>1. PICK k : k = hi - i
      OBVIOUS
    <2>2. k \in Nat /\ hi - k = i /\ lo <= hi - k
      BY <2>1
    <2>3. k \notin Bad
      BY <1>1
    <2> QED BY <2>2, <2>3
  <1>2. SUFFICES ASSUME Bad # {} PROVE FALSE
    OBVIOUS
  <1>3. PICK k \in Bad : \A j \in Bad : k <= j
    BY <1>2, LeastOfSet, Zenon
  <1>4. k \in Nat /\ lo <= hi - k /\ f[hi - k] # g[hi - k]
    BY <1>3
  <1>5. k # 0
    BY <1>0, <1>4
  <1>6. k - 1 \in Nat /\ k - 1 \notin Bad
    BY <1>3, <1>4, <1>5
  <1>7. f[hi - (k - 1)] = g[hi - (k - 1)]
    BY <1>4, <1>5, <1>6
  <1>8. PICK i : i = hi - k
    OBVIOUS
  <1>9. i \in lo..(hi - 1) /\ hi - (k - 1) = i + 1
    BY <1>4, <1>5, <1>8
  <1> QED BY <1>0, <1>4, <1>7, <1>8, <1>9

\* Undoing one entry by match key takes back exactly what writing it did, since
\* no two rows of a version have the same key.
LEMMA UndoEffect ==
    ASSUME NEW before \in SUBSET Record, NEW after \in SUBSET Record, NEW e \in LogEntry,
           Effect(before, e, after), UniqueRdata(after)
    PROVE  UndoEntry(after, e) = before
  <1>1. CASE e.op = "ADD"
    <2>1. e.records \cap before = {} /\ after = before \cup e.records
      BY <1>1 DEF Effect
    <2>2. ASSUME NEW x \in after, NEW r \in e.records PROVE MatchKey(x) = MatchKey(r) <=> x = r
      BY <2>1 DEF MatchKey, UniqueRdata, SameRdata
    <2>3. UndoEntry(after, e) = {x \in after : \A r \in e.records : MatchKey(x) # MatchKey(r)}
      BY <1>1 DEF UndoEntry, UndoAdd
    <2>4. {x \in after : \A r \in e.records : MatchKey(x) # MatchKey(r)} = after \ e.records
      BY <2>1, <2>2
    <2> QED BY <2>1, <2>3, <2>4, Zenon
  <1>2. CASE e.op = "DEL"
    BY <1>2 DEF Effect, UndoEntry
  <1>3. CASE e.op = "SOA"
    BY <1>3 DEF Effect, UndoEntry
  <1> QED BY <1>1, <1>2, <1>3 DEF Effect

\* The rows of a serial, undone newest-first, give the version before it.
LEMMA UndoLogExact ==
    ASSUME WellOrdered, NEW old, NEW log \in Seq(LogEntry), NEW new, NEW st, Path(st, old, log, new)
    PROVE  UndoLog(new, log) = old
  <1>1. PICK n : n = Len(log)
    OBVIOUS
  <1>0. n \in Nat /\ \A i \in 1..n : log[i] \in LogEntry
    BY <1>1
  <1>2. /\ st = [i \in 0..n |-> st[i]] /\ st[0] = old /\ st[n] = new
        /\ \A i \in 0..n : st[i] \in SUBSET Record /\ UniqueRdata(st[i])
        /\ \A i \in 1..n : Effect(st[i - 1], log[i], st[i])
    BY <1>1, Zenon DEF Path
  <1>3. ASSUME NEW i \in 0..(n - 1) PROVE UndoEntry(st[i + 1], log[i + 1]) = st[i]
    <2>1. i + 1 \in 1..n /\ i + 1 \in 0..n /\ i \in 0..n /\ (i + 1) - 1 = i
      BY <1>0
    <2>2. Effect(st[i], log[i + 1], st[i + 1])
      BY <1>2, <2>1, Zenon
    <2> QED BY <1>0, <1>2, <2>1, <2>2, UndoEffect
  <1> DEFINE Undoes(f) == f = [i \in 0..n |-> IF i = n THEN new ELSE UndoEntry(f[i + 1], log[i + 1])]
  <1>4. Undoes(st)
    <2>1. ASSUME NEW i \in 0..n PROVE st[i] = IF i = n THEN new ELSE UndoEntry(st[i + 1], log[i + 1])
      <3>1. CASE i = n
        BY <1>2, <3>1, Zenon
      <3>2. CASE i # n
        <4>1. i \in 0..(n - 1)
          BY <1>0, <3>2
        <4> QED BY <1>3, <3>2, <4>1, Zenon
      <3> QED BY <3>1, <3>2
    <2> QED BY <1>2, <2>1, Zenon
  <1>5. PICK f : f = CHOOSE g : Undoes(g)
    OBVIOUS
  <1>6. Undoes(f)
    BY <1>4, <1>5, Zenon
  <1>7. UndoLog(new, log) = f[0]
    BY <1>1, <1>5 DEF UndoLog
  <1>8. f[n] = st[n]
    BY <1>0, <1>2, <1>6
  <1>9. ASSUME NEW i \in 0..(n - 1), f[i + 1] = st[i + 1] PROVE f[i] = st[i]
    BY <1>0, <1>3, <1>6, <1>9
  <1>10. \A i \in 0..n : f[i] = st[i]
    <2> HIDE DEF Undoes
    <2>1. n \in Int /\ 0 \in Int /\ \A i \in 0..(n - 1) : f[i + 1] = st[i + 1] => f[i] = st[i]
      BY <1>0, <1>9
    <2>2. f[n] = st[n]
      BY <1>8
    <2>3. AgreesDown(0, n, f, st)
      BY <2>1, <2>2 DEF AgreesDown
    <2> QED BY <2>1, <2>3, Downward
  <1> QED BY <1>0, <1>2, <1>7, <1>10

\* The loop over the serials, newest first, reaches the version of each of them.
LEMMA ReconstructsVersion ==
    ASSUME WellOrdered, IndInv, zone # NoZone, NEW serial \in DOMAIN snapshots
    PROVE  ReconstructRecordsAtSerial(serial) = RecordsAt(serial)
  <1>1. PICK newest : newest = zone.serial
    OBVIOUS
  <1>2. /\ newest \in 1..MaxSerial /\ newest \in Int /\ serial \in Int /\ serial <= newest
        /\ serial..newest \subseteq DOMAIN snapshots /\ DOMAIN changes = DOMAIN snapshots
        /\ RecordsAt(newest) = records
    BY <1>1, CurrentVersion, SerialAssumption DEF IndInv, TypeOK, SnapshotsContiguous
  <1>3. PICK v : v = [s \in serial..newest |-> RecordsAt(s)]
    BY Zenon
  <1>4. ASSUME NEW s \in serial..(newest - 1) PROVE UndoLog(v[s + 1], ChangesOf(s + 1)) = v[s]
    <2>1. s \in serial..newest /\ s + 1 \in serial..newest
      BY <1>2
    <2>2. /\ s \in DOMAIN changes /\ s + 1 \in DOMAIN changes /\ changes[s + 1] \in Seq(LogEntry)
          /\ v[s] = RecordsAt(s) /\ v[s + 1] = RecordsAt(s + 1) /\ ChangesOf(s + 1) = changes[s + 1]
      BY <1>2, <1>3, <2>1 DEF IndInv, TypeOK, ChangesOf
    <2>3. Accounts(v[s], changes[s + 1], v[s + 1])
      BY <2>2 DEF IndInv, LogsAccount
    <2>4. PICK st : Path(st, v[s], changes[s + 1], v[s + 1])
      BY <2>3 DEF Accounts
    <2> QED BY <2>2, <2>4, UndoLogExact
  <1> DEFINE Walks(f) == f = [s \in serial..newest |-> IF s = newest THEN records ELSE UndoLog(f[s + 1], ChangesOf(s + 1))]
  <1>5. Walks(v)
    <2>1. ASSUME NEW s \in serial..newest
          PROVE  v[s] = IF s = newest THEN records ELSE UndoLog(v[s + 1], ChangesOf(s + 1))
      BY <1>2, <1>3, <1>4
    <2>2. v = [s \in serial..newest |-> v[s]]
      BY <1>3
    <2> QED BY <2>1, <2>2, Zenon
  <1>6. PICK f : f = CHOOSE g : Walks(g)
    OBVIOUS
  <1>7. Walks(f)
    BY <1>5, <1>6, Zenon
  <1>8. ReconstructRecordsAtSerial(serial) = f[serial]
    BY <1>1, <1>6 DEF ReconstructRecordsAtSerial
  <1>9. f[newest] = v[newest]
    BY <1>2, <1>3, <1>7
  <1>10. ASSUME NEW s \in serial..(newest - 1), f[s + 1] = v[s + 1] PROVE f[s] = v[s]
    BY <1>2, <1>4, <1>7, <1>10
  <1>11. \A s \in serial..newest : f[s] = v[s]
    <2> HIDE DEF Walks
    <2>1. \A s \in serial..(newest - 1) : f[s + 1] = v[s + 1] => f[s] = v[s]
      BY <1>10
    <2>2. f[newest] = v[newest] /\ serial \in Int /\ newest \in Int
      BY <1>2, <1>9
    <2>3. AgreesDown(serial, newest, f, v)
      BY <2>1, <2>2 DEF AgreesDown
    <2> QED BY <2>2, <2>3, Downward
  <1> QED BY <1>2, <1>3, <1>8, <1>11

\* reconstruct_records_at_serial, which matches rows by a key without the TTL,
\* returns for every serial with a snapshot exactly the rows of its version.
LEMMA ReconstructionFromLog == WellOrdered /\ IndInv => ReconstructionExact
  BY ReconstructsVersion DEF ReconstructionExact, IndInv, SnapshotsContiguous

-----------------------------------------------------------------------------
(* Differences                                                             *)

\* The values of one RRset.
Group(rs, key) == {[value |-> r.value, ttl |-> r.ttl] : r \in {x \in rs : <<x.name, x.type>> = key}}

\* A record is in a set when its values are in its RRset.
LEMMA GroupMember ==
    ASSUME NEW rs \in SUBSET Record, NEW r \in Record
    PROVE  r \in rs <=> [value |-> r.value, ttl |-> r.ttl] \in Group(rs, <<r.name, r.type>>)
  <1>1. r \in rs => [value |-> r.value, ttl |-> r.ttl] \in Group(rs, <<r.name, r.type>>)
    BY DEF Group
  <1>2. ASSUME [value |-> r.value, ttl |-> r.ttl] \in Group(rs, <<r.name, r.type>>) PROVE r \in rs
    <2>1. PICK x \in rs : /\ <<x.name, x.type>> = <<r.name, r.type>>
                          /\ [value |-> r.value, ttl |-> r.ttl] = [value |-> x.value, ttl |-> x.ttl]
      BY <1>2 DEF Group
    <2>2. x.name = r.name /\ x.type = r.type /\ x.value = r.value /\ x.ttl = r.ttl
      BY <2>1
    <2> QED BY <2>2, RecordEquality DEF SameRdata
  <1> QED BY <1>1, <1>2

\* An RRset's identities tell its values apart.
LEMMA IdentitiesDistinct ==
    ASSUME NEW rs, NEW ss, NEW key, GroupIdentities(Group(rs, key)) = GroupIdentities(Group(ss, key))
    PROVE  Group(rs, key) = Group(ss, key)
  <1>1. ASSUME NEW a, NEW b, GroupIdentities(Group(a, key)) = GroupIdentities(Group(b, key)), NEW v \in Group(a, key)
        PROVE  v \in Group(b, key)
    <2>1. PICK r : v = [value |-> r.value, ttl |-> r.ttl]
      BY <1>1 DEF Group
    <2>2. <<v.value, v.ttl>> \in GroupIdentities(Group(b, key))
      BY <1>1, Zenon DEF GroupIdentities
    <2>3. PICK w \in Group(b, key) : <<v.value, v.ttl>> = <<w.value, w.ttl>>
      BY <2>2 DEF GroupIdentities
    <2>4. PICK x : w = [value |-> x.value, ttl |-> x.ttl]
      BY <2>3 DEF Group
    <2>5. v.value = w.value /\ v.ttl = w.ttl
      BY <2>3
    <2>6. v = w
      BY <2>1, <2>4, <2>5
    <2> QED BY <2>3, <2>6
  <1> QED BY <1>1

\* build_record_diff has an entry for exactly the RRsets that differ, and the
\* entry names the values before and after.
LEMMA DiffEntries ==
    ASSUME NEW before, NEW after
    PROVE  /\ \A e \in BuildRecordDiff(before, after) :
                e.from = Group(before, e.key) /\ e.to = Group(after, e.key) /\ e.from # e.to
           /\ \A key : Group(before, key) # Group(after, key) =>
                \E e \in BuildRecordDiff(before, after) : e.key = key
  <1>1. PICK a : a = GroupRrsets(after)
    OBVIOUS
  <1>2. PICK b : b = GroupRrsets(before)
    OBVIOUS
  <1>3. ASSUME NEW rs, NEW key
        PROVE  /\ key \in DOMAIN GroupRrsets(rs) => GroupRrsets(rs)[key] = Group(rs, key) /\ Group(rs, key) # {}
               /\ key \notin DOMAIN GroupRrsets(rs) => Group(rs, key) = {}
    BY Zenon DEF GroupRrsets, Group
  <1>4. PICK diff : diff = BuildRecordDiff(before, after)
    OBVIOUS
  <1>5. diff = {Entry("added", k, {}, a[k]) : k \in DOMAIN a \ DOMAIN b}
                 \cup {Entry("removed", k, b[k], {}) : k \in DOMAIN b \ DOMAIN a}
                 \cup {Entry("changed", k, b[k], a[k]) :
                         k \in {x \in DOMAIN a \cap DOMAIN b : GroupIdentities(a[x]) # GroupIdentities(b[x])}}
    BY <1>1, <1>2, <1>4 DEF BuildRecordDiff
  <1>6. \A c, k, x, y : Entry(c, k, x, y).key = k /\ Entry(c, k, x, y).from = x /\ Entry(c, k, x, y).to = y
    BY DEF Entry
  <1>7. ASSUME NEW e \in diff
        PROVE  e.from = Group(before, e.key) /\ e.to = Group(after, e.key) /\ e.from # e.to
    <2>1. CASE \E k \in DOMAIN a \ DOMAIN b : e = Entry("added", k, {}, a[k])
      BY <1>1, <1>2, <1>3, <1>6, <2>1
    <2>2. CASE \E k \in DOMAIN b \ DOMAIN a : e = Entry("removed", k, b[k], {})
      <3>1. PICK k \in DOMAIN b \ DOMAIN a : e = Entry("removed", k, b[k], {})
        BY <2>2
      <3>2. e.key = k /\ e.from = b[k] /\ e.to = {}
        BY <1>6, <3>1
      <3>3. b[k] = Group(before, k) /\ b[k] # {} /\ Group(after, k) = {}
        BY <1>1, <1>2, <1>3, <3>1
      <3> QED BY <3>2, <3>3
    <2>3. CASE \E k \in DOMAIN a \cap DOMAIN b : GroupIdentities(a[k]) # GroupIdentities(b[k]) /\ e = Entry("changed", k, b[k], a[k])
      BY <1>1, <1>2, <1>3, <1>6, <2>3
    <2> QED BY <1>5, <2>1, <2>2, <2>3
  <1>8. ASSUME NEW key, Group(before, key) # Group(after, key)
        PROVE  \E e \in diff : e.key = key
    <2>1. CASE key \in DOMAIN a /\ key \notin DOMAIN b
      BY <1>5, <1>6, <2>1
    <2>2. CASE key \in DOMAIN b /\ key \notin DOMAIN a
      BY <1>5, <1>6, <2>2
    <2>3. CASE key \in DOMAIN a /\ key \in DOMAIN b
      <3>1. GroupIdentities(a[key]) # GroupIdentities(b[key])
        BY <1>1, <1>2, <1>3, <1>8, <2>3, IdentitiesDistinct
      <3> QED BY <1>5, <1>6, <2>3, <3>1
    <2>4. key \in DOMAIN a \/ key \in DOMAIN b
      BY <1>1, <1>2, <1>3, <1>8, Zenon
    <2> QED BY <2>1, <2>2, <2>3, <2>4
  <1> QED BY <1>4, <1>7, <1>8

\* A difference leads from the one record set to the other.
LEMMA PatchExact ==
    ASSUME NEW before \in SUBSET Record, NEW after \in SUBSET Record
    PROVE  Patch(before, BuildRecordDiff(before, after)) = after
  <1>1. PICK diff : diff = BuildRecordDiff(before, after)
    OBVIOUS
  <1>2. /\ \A e \in diff : e.from = Group(before, e.key) /\ e.to = Group(after, e.key) /\ e.from # e.to
        /\ \A key : Group(before, key) # Group(after, key) => \E e \in diff : e.key = key
    BY <1>1, DiffEntries
  <1>3. ASSUME NEW r \in Patch(before, diff) PROVE r \in after
    <2>1. CASE r \in before /\ ~\E e \in diff : e.key = <<r.name, r.type>>
      <3>1. Group(before, <<r.name, r.type>>) = Group(after, <<r.name, r.type>>)
        BY <1>2, <2>1
      <3> QED BY <2>1, <3>1, GroupMember, Zenon
    <2>2. CASE \E e \in diff : \E v \in e.to :
                 r = [name |-> e.key[1], type |-> e.key[2], value |-> v.value, ttl |-> v.ttl]
      <3>0. PICK e \in diff : \E v \in e.to :
                r = [name |-> e.key[1], type |-> e.key[2], value |-> v.value, ttl |-> v.ttl]
        BY <2>2
      <3>1. PICK v \in e.to : r = [name |-> e.key[1], type |-> e.key[2], value |-> v.value, ttl |-> v.ttl]
        BY <3>0
      <3>2. v \in Group(after, e.key)
        BY <1>2
      <3>3. PICK x \in after : <<x.name, x.type>> = e.key /\ v = [value |-> x.value, ttl |-> x.ttl]
        BY <3>2 DEF Group
      <3>4. r = [name |-> x.name, type |-> x.type, value |-> x.value, ttl |-> x.ttl]
        BY <3>1, <3>3
      <3>5. x \in Record /\ r \in Record
        BY <3>3, <3>4 DEF Record
      <3>6. r = x
        BY <3>4, <3>5, RecordEquality DEF SameRdata
      <3> QED BY <3>3, <3>6
    <2> QED BY <2>1, <2>2 DEF Patch
  <1>4. ASSUME NEW r \in after PROVE r \in Patch(before, diff)
    <2>1. PICK key : key = <<r.name, r.type>>
      BY Zenon
    <2>2. CASE \E e \in diff : e.key = key
      <3>1. PICK e \in diff : e.key = key
        BY <2>2
      <3>2. PICK v : v = [value |-> r.value, ttl |-> r.ttl]
        BY Zenon
      <3>3. v \in e.to
        BY <1>2, <2>1, <3>1, <3>2, GroupMember
      <3>4. r = [name |-> e.key[1], type |-> e.key[2], value |-> v.value, ttl |-> v.ttl]
        BY <2>1, <3>1, <3>2 DEF Record
      <3> QED BY <3>1, <3>3, <3>4 DEF Patch
    <2>3. CASE ~\E e \in diff : e.key = key
      <3>0. Group(before, key) = Group(after, key)
        BY <1>2, <2>3, Zenon
      <3>1. r \in before
        BY <2>1, <3>0, GroupMember, Zenon
      <3> QED BY <2>1, <2>3, <3>1 DEF Patch
    <2> QED BY <2>2, <2>3
  <1> QED BY <1>1, <1>3, <1>4

\* diff_snapshots is complete and minimal between any two serials of a zone.
LEMMA DiffOfVersions == WellOrdered /\ IndInv => DiffExact
  <1> SUFFICES ASSUME WellOrdered, IndInv, zone # NoZone, NEW from \in Diffable, NEW to \in Diffable
               PROVE  /\ Patch(GetSnapshot(from).records, DiffSnapshots(from, to)) = GetSnapshot(to).records
                      /\ \A e \in DiffSnapshots(from, to) : e.from # e.to
    BY DEF DiffExact
  <1>1. ASSUME NEW s \in Diffable PROVE RecordsAtSerial(s) \in SUBSET Record
    <2>1. s = zone.serial \/ s \in DOMAIN snapshots
      BY DEF Diffable
    <2> QED BY <2>1, CurrentVersion, PastVersion, ReconstructsVersion DEF RecordsAtSerial
  <1>2. GetSnapshot(from).records = RecordsAtSerial(from) /\ GetSnapshot(to).records = RecordsAtSerial(to)
    BY DEF GetSnapshot
  <1>3. PICK b, a : b = RecordsAtSerial(from) /\ a = RecordsAtSerial(to)
    OBVIOUS
  <1>4. a \in SUBSET Record /\ b \in SUBSET Record /\ DiffSnapshots(from, to) = BuildRecordDiff(b, a)
    BY <1>1, <1>3 DEF DiffSnapshots
  <1> QED BY <1>2, <1>3, <1>4, PatchExact, DiffEntries

-----------------------------------------------------------------------------
(* Replaying the log                                                       *)

AgreesUp(hi, f, g) == f[0] = g[0] /\ \A i \in 1..hi : f[i - 1] = g[i - 1] => f[i] = g[i]

\* A walk up from 0 that agrees with g at 0, and at i whenever it does at
\* i - 1, agrees with it everywhere.
LEMMA Upward ==
    ASSUME WellOrdered, NEW hi \in Nat, NEW f, NEW g, AgreesUp(hi, f, g)
    PROVE  \A i \in 0..hi : f[i] = g[i]
  <1>0. f[0] = g[0] /\ \A i \in 1..hi : f[i - 1] = g[i - 1] => f[i] = g[i]
    BY DEF AgreesUp
  <1> DEFINE Bad == {k \in 0..hi : f[k] # g[k]}
  <1>1. SUFFICES ASSUME Bad # {} PROVE FALSE
    OBVIOUS
  <1>2. PICK k \in Bad : \A j \in Bad : k <= j
    <2>1. Bad \in SUBSET Nat
      OBVIOUS
    <2> HIDE DEF Bad
    <2> QED BY <1>1, <2>1, LeastOfSet
  <1>3. k \in 0..hi /\ f[k] # g[k] /\ k # 0
    BY <1>0, <1>2
  <1>4. k \in 1..hi /\ k - 1 \in 0..hi /\ k - 1 \notin Bad
    BY <1>2, <1>3
  <1> QED BY <1>0, <1>3, <1>4

\* A record no serial in between touches is in both versions or in neither.
LEMMA Untouched ==
    ASSUME IndInv, NEW s \in Nat, NEW t \in Nat, s <= t, NEW r,
           \A v \in DOMAIN changes : s < v /\ v <= t => ~Touches(changes[v], r)
    PROVE  r \in RecordsAt(s) <=> r \in RecordsAt(t)
  <1>1. DOMAIN changes \subseteq Nat
    BY SerialAssumption DEF IndInv, TypeOK
  <1>2. \A v \in DOMAIN changes : FirstIsDel(changes[v], r) => Touches(changes[v], r)
    BY DEF FirstIsDel, Touches
  <1> DEFINE Quiet(a) == \A v \in DOMAIN changes : v > a => ~Touches(changes[v], r)
             Restored(a) == \E v \in DOMAIN changes :
                               /\ v > a
                               /\ FirstIsDel(changes[v], r)
                               /\ \A u \in DOMAIN changes : a < u /\ u < v => ~Touches(changes[u], r)
  <1>3. r \in RecordsAt(s) <=> (r \in records /\ Quiet(s)) \/ Restored(s)
    BY ReconstructMember DEF RecordsAt
  <1>4. r \in RecordsAt(t) <=> (r \in records /\ Quiet(t)) \/ Restored(t)
    BY ReconstructMember DEF RecordsAt
  <1>5. Quiet(s) <=> Quiet(t)
    BY <1>1
  <1>6. ASSUME Restored(s) PROVE Restored(t)
    <2>1. PICK v \in DOMAIN changes : /\ v > s
                                      /\ FirstIsDel(changes[v], r)
                                      /\ \A u \in DOMAIN changes : s < u /\ u < v => ~Touches(changes[u], r)
      BY <1>6
    <2>2. v > t
      BY <1>1, <1>2, <2>1
    <2>3. \A u \in DOMAIN changes : t < u /\ u < v => ~Touches(changes[u], r)
      BY <1>1, <2>1
    <2> QED BY <2>1, <2>2, <2>3
  <1>7. ASSUME Restored(t) PROVE Restored(s)
    <2>1. PICK v \in DOMAIN changes : /\ v > t
                                      /\ FirstIsDel(changes[v], r)
                                      /\ \A u \in DOMAIN changes : t < u /\ u < v => ~Touches(changes[u], r)
      BY <1>7
    <2>2. \A u \in DOMAIN changes : s < u /\ u < v => ~Touches(changes[u], r)
      BY <1>1, <2>1
    <2> QED BY <1>1, <2>1, <2>2
  <1> QED BY <1>3, <1>4, <1>5, <1>6, <1>7

\* What one section of an IXFR does to a record: it leaves it as the last entry
\* on it does, unless the entries add it and delete it again.
LEMMA SectionMember ==
    ASSUME WellOrdered, NEW log \in Seq(LogEntry), ~AddsThenDeletes(log), NEW rs, NEW r,
           \A i \in DOMAIN log : log[i].op = "SOA" => log[i].records = {}
    PROVE  /\ Touches(log, r) => (r \in ApplySection(rs, log) <=> LastIsAdd(log, r))
           /\ ~Touches(log, r) => (r \in ApplySection(rs, log) <=> r \in rs)
  <1>1. r \in ApplySection(rs, log) <=> (r \in rs /\ r \notin RowsOf(log, "DEL")) \/ r \in RowsOf(log, "ADD")
    BY DEF ApplySection
  <1>2. \A op : r \in RowsOf(log, op) <=> \E i \in DOMAIN log : log[i].op = op /\ r \in log[i].records
    BY DEF RowsOf
  <1>3. ~Touches(log, r) => r \notin RowsOf(log, "DEL") /\ r \notin RowsOf(log, "ADD")
    BY <1>2 DEF Touches
  <1>4. ASSUME LastIsAdd(log, r) PROVE r \in RowsOf(log, "ADD")
    BY <1>2, <1>4 DEF LastIsAdd
  <1>5. ASSUME r \in RowsOf(log, "ADD") PROVE LastIsAdd(log, r)
    <2>1. PICK i \in DOMAIN log : log[i].op = "ADD" /\ r \in log[i].records
      BY <1>2, <1>5
    <2>2. DOMAIN log = 1..Len(log) /\ Len(log) \in Nat
      OBVIOUS
    <2> DEFINE Later == {k \in Nat : Len(log) - k \in DOMAIN log /\ r \in log[Len(log) - k].records}
    <2>3. Len(log) - i \in Later
      BY <2>1, <2>2
    <2>4. PICK k \in Later : \A j \in Later : k <= j
      BY <2>3, LeastOfSet, Zenon
    <2>5. PICK last : last = Len(log) - k
      OBVIOUS
    <2>6. /\ last \in DOMAIN log /\ r \in log[last].records /\ i <= last
          /\ \A j \in DOMAIN log : last < j => r \notin log[j].records
      <3>1. last \in DOMAIN log /\ r \in log[last].records
        BY <2>4, <2>5
      <3>2. i <= last
        <4>1. k <= Len(log) - i /\ k \in Nat
          BY <2>3, <2>4
        <4> QED BY <2>2, <2>5, <4>1
      <3>3. ASSUME NEW j \in DOMAIN log, last < j, r \in log[j].records PROVE FALSE
        <4>1. Len(log) - j \in Nat /\ Len(log) - (Len(log) - j) = j
          BY <2>2
        <4>2. Len(log) - j \in Later
          BY <3>3, <4>1
        <4>3. k <= Len(log) - j /\ k \in Nat
          BY <2>4, <4>2
        <4> QED BY <2>2, <2>5, <3>3, <4>3
      <3> QED BY <3>1, <3>2, <3>3
    <2>7. log[last].op = "ADD"
      <3>1. log[last] \in LogEntry
        BY <2>6
      <3>2. ASSUME log[last].op = "DEL" PROVE FALSE
        <4>1. i # last
          BY <2>1, <3>2
        <4>2. i < last
          BY <2>2, <2>6, <4>1
        <4>3. log[i].records \cap log[last].records # {}
          BY <2>1, <2>6
        <4> QED BY <2>1, <2>6, <3>2, <4>2, <4>3 DEF AddsThenDeletes
      <3>3. log[last].op # "SOA"
        BY <2>6
      <3> QED BY <3>1, <3>2, <3>3 DEF LogEntry
    <2> QED BY <2>6, <2>7 DEF LastIsAdd
  <1>6. ASSUME Touches(log, r), r \notin RowsOf(log, "ADD") PROVE r \in RowsOf(log, "DEL")
    <2>1. PICK i \in DOMAIN log : r \in log[i].records
      BY <1>6 DEF Touches
    <2>2. log[i] \in LogEntry /\ log[i].op # "SOA" /\ log[i].op # "ADD"
      BY <1>2, <1>6, <2>1
    <2> QED BY <1>2, <2>1, <2>2 DEF LogEntry
  <1> QED BY <1>1, <1>3, <1>4, <1>5, <1>6

\* The log of a serial after the first: what it says of its own version and of
\* the records it leaves alone.
LEMMA LogOfSerial ==
    ASSUME IndInv, NEW u \in DOMAIN changes, u - 1 \in DOMAIN changes
    PROVE  /\ changes[u] \in Seq(LogEntry)
           /\ Decides(changes[u], RecordsAt(u))
           /\ \A i \in DOMAIN changes[u] : changes[u][i].op = "SOA" => changes[u][i].records = {}
  <1>1. PICK s : s = u - 1
    OBVIOUS
  <1>2. s \in DOMAIN changes /\ s + 1 = u /\ changes[u] \in Seq(LogEntry)
    BY <1>1, SerialAssumption DEF IndInv, TypeOK
  <1>3. Accounts(RecordsAt(s), changes[u], RecordsAt(u))
    BY <1>2 DEF IndInv, LogsAccount
  <1>4. PICK st : Path(st, RecordsAt(s), changes[u], RecordsAt(u))
    BY <1>3 DEF Accounts
  <1>5. \A i \in 1..Len(changes[u]) : Effect(st[i - 1], changes[u][i], st[i])
    BY <1>4, Zenon DEF Path
  <1>6. ASSUME NEW i \in DOMAIN changes[u], changes[u][i].op = "SOA" PROVE changes[u][i].records = {}
    <2>1. Effect(st[i - 1], changes[u][i], st[i])
      BY <1>2, <1>5
    <2> QED BY <1>6, <2>1 DEF Effect
  <1> QED BY <1>2, <1>3, <1>6 DEF Accounts

\* The sections of an IXFR from the serial low to the serial high, applied to any
\* version in between, give the version of high.
LEMMA DeltaLeadsTo ==
    ASSUME WellOrdered, IndInv, zone # NoZone, Reorderable,
           NEW low \in DOMAIN snapshots, NEW high \in DOMAIN snapshots, NEW base \in low..high, NEW delta,
           DOMAIN delta = {u \in DOMAIN changes : low < u /\ u <= high /\ changes[u] # <<>>},
           \A u \in DOMAIN delta : delta[u] = changes[u]
    PROVE  ApplyDelta(RecordsAt(base), delta) = RecordsAt(high)
  <1>1. /\ DOMAIN snapshots \subseteq 1..MaxSerial /\ DOMAIN changes = DOMAIN snapshots
        /\ low \in Nat /\ high \in Nat /\ base \in Nat /\ MaxSerial \in Nat /\ low > 0 /\ high <= MaxSerial
        /\ low..high \subseteq DOMAIN snapshots
    BY SerialAssumption DEF IndInv, TypeOK, SnapshotsContiguous
  <1>0. low \in Nat /\ high \in Nat /\ MaxSerial \in Nat
    BY <1>1
  <1>2. \A s \in low..high : RecordsAt(s) \in SUBSET Record
    BY <1>1, PastVersion
  <1> DEFINE Before(u) == IF u < high THEN u ELSE high
             Hit(r, u) == \E v \in DOMAIN delta : v <= u /\ Touches(delta[v], r)
             g == [u \in 0..MaxSerial |->
                     {r \in Record : IF Hit(r, u) THEN r \in RecordsAt(Before(u)) ELSE r \in RecordsAt(base)}]
  <1>3. \A u \in DOMAIN delta : /\ u \in low..high /\ u \in 1..MaxSerial /\ u - 1 \in DOMAIN changes /\ u \in DOMAIN changes
                                /\ low < u /\ u <= high /\ delta[u] = changes[u]
    BY <1>1
  <1>a. \A u \in Int : u <= high => Before(u) = u
    BY <1>0
  <1>4. ASSUME NEW r, NEW u \in 1..MaxSerial, low < u, u <= high, u \notin DOMAIN delta \/ ~Touches(delta[u], r)
        PROVE  r \in RecordsAt(u - 1) <=> r \in RecordsAt(u)
    <2>1. \A v \in DOMAIN changes : u - 1 < v /\ v <= u => v = u
      BY <1>1
    <2>2. u \in DOMAIN changes => ~Touches(changes[u], r)
      <3>1. CASE u \in DOMAIN delta
        BY <1>3, <1>4, <3>1
      <3>2. CASE u \notin DOMAIN delta
        <4>1. u \in DOMAIN changes => changes[u] = <<>>
          BY <1>4, <3>2
        <4> QED BY <4>1, EmptyLog
      <3> QED BY <3>1, <3>2
    <2>3. u - 1 \in Nat /\ u \in Nat /\ u - 1 <= u
      BY <1>1
    <2> QED BY <2>1, <2>2, <2>3, Untouched
  <1>5. ASSUME NEW u \in 1..MaxSerial
        PROVE  g[u] = IF u \in DOMAIN delta THEN ApplySection(g[u - 1], delta[u]) ELSE g[u - 1]
    <2>1. u \in 0..MaxSerial /\ u - 1 \in 0..MaxSerial
      BY <1>1
    <2>2. ASSUME NEW r \in Record
          PROVE  /\ r \in g[u] <=> IF Hit(r, u) THEN r \in RecordsAt(Before(u)) ELSE r \in RecordsAt(base)
                 /\ r \in g[u - 1] <=> IF Hit(r, u - 1) THEN r \in RecordsAt(Before(u - 1)) ELSE r \in RecordsAt(base)
      BY <2>1
    <2>3. g[u] \subseteq Record /\ g[u - 1] \subseteq Record
      BY <2>1
    <2> HIDE DEF g
    <2>4. ASSUME NEW r, Hit(r, u - 1) PROVE Hit(r, u) /\ low < u - 1
      BY <1>1, <1>3, <2>4
    <2>5. ASSUME NEW r, Hit(r, u), ~Hit(r, u - 1) PROVE u \in DOMAIN delta /\ Touches(delta[u], r)
      BY <1>1, <1>3, <2>5
    <2>6. CASE u \in DOMAIN delta
      <3>0. low < u /\ u <= high /\ u \in DOMAIN changes /\ u - 1 \in DOMAIN changes /\ delta[u] = changes[u]
        BY <1>3, <2>6
      <3>1. /\ low < u /\ u <= high /\ u \in DOMAIN changes /\ u - 1 \in DOMAIN changes /\ delta[u] = changes[u]
            /\ Before(u) = u /\ Before(u - 1) = u - 1
        <4>1. u \in Int /\ u - 1 \in Int /\ u <= high /\ u - 1 <= high
          BY <1>0, <3>0
        <4>2. Before(u) = u /\ Before(u - 1) = u - 1
          BY <1>a, <4>1, ZenonT(30)
        <4> QED BY <3>0, <4>2, Zenon
      <3>2. /\ delta[u] \in Seq(LogEntry) /\ Decides(delta[u], RecordsAt(u)) /\ ~AddsThenDeletes(delta[u])
            /\ \A i \in DOMAIN delta[u] : delta[u][i].op = "SOA" => delta[u][i].records = {}
        BY <3>1, LogOfSerial DEF Reorderable
      <3>3. ASSUME NEW r \in Record PROVE r \in g[u] <=> r \in ApplySection(g[u - 1], delta[u])
        <4>1. CASE Touches(delta[u], r)
          <5>1. Hit(r, u)
            BY <2>6, <4>1
          <5>2. r \in RecordsAt(u) <=> LastIsAdd(delta[u], r)
            BY <3>2, <4>1 DEF Decides
          <5>3. r \in ApplySection(g[u - 1], delta[u]) <=> LastIsAdd(delta[u], r)
            BY <3>2, <4>1, SectionMember
          <5> QED BY <2>2, <3>1, <5>1, <5>2, <5>3
        <4>2. CASE ~Touches(delta[u], r)
          <5>1. r \in ApplySection(g[u - 1], delta[u]) <=> r \in g[u - 1]
            BY <3>2, <4>2, SectionMember
          <5>2. Hit(r, u) <=> Hit(r, u - 1)
            BY <2>4, <2>5, <4>2, ZenonT(30)
          <5>3. r \in RecordsAt(u - 1) <=> r \in RecordsAt(u)
            BY <1>4, <3>1, <4>2, Zenon
          <5> QED BY <2>2, <3>1, <5>1, <5>2, <5>3, ZenonT(30)
        <4> QED BY <4>1, <4>2
      <3>4. ApplySection(g[u - 1], delta[u]) \subseteq Record
        <4>1. ASSUME NEW i \in DOMAIN delta[u] PROVE delta[u][i].records \subseteq Record
          <5>1. delta[u][i] \in LogEntry
            BY <3>2
          <5> QED BY <5>1 DEF LogEntry
        <4> QED BY <2>3, <4>1 DEF ApplySection, RowsOf
      <3>5. g[u] = ApplySection(g[u - 1], delta[u])
        BY <2>3, <3>3, <3>4, Zenon
      <3> QED BY <2>6, <3>5
    <2>7. CASE u \notin DOMAIN delta
      <3>1. ASSUME NEW r \in Record PROVE r \in g[u] <=> r \in g[u - 1]
        <4>1. Hit(r, u) <=> Hit(r, u - 1)
          BY <2>4, <2>5, <2>7, Zenon
        <4>2. CASE ~Hit(r, u - 1)
          BY <2>2, <4>1, <4>2
        <4>3. CASE Hit(r, u - 1) /\ u <= high
          <5>0. low < u - 1
            BY <2>4, <4>3
          <5>1. low < u /\ Before(u) = u /\ Before(u - 1) = u - 1
            <6>1. u \in Int /\ u - 1 \in Int /\ u <= high /\ u - 1 <= high /\ low < u
              BY <1>0, <4>3, <5>0
            <6> QED BY <1>a, <6>1, Zenon
          <5>2. r \in RecordsAt(u - 1) <=> r \in RecordsAt(u)
            BY <1>4, <2>7, <4>3, <5>1
          <5> QED BY <2>2, <4>1, <4>3, <5>1, <5>2, ZenonT(30)
        <4>4. CASE Hit(r, u - 1) /\ ~(u <= high)
          <5>1. Before(u) = high /\ Before(u - 1) = high
            BY <1>1, <4>4
          <5> QED BY <2>2, <4>1, <4>4, <5>1
        <4> QED BY <4>2, <4>3, <4>4
      <3>2. g[u] = g[u - 1]
        BY <2>3, <3>1, Zenon
      <3> QED BY <2>7, <3>2
    <2> QED BY <2>6, <2>7
  <1>6. g[0] = RecordsAt(base)
    <2>1. \A r : ~Hit(r, 0)
      BY <1>1, <1>3
    <2>2. RecordsAt(base) \in SUBSET Record /\ 0 \in 0..MaxSerial
      BY <1>1, <1>2
    <2> QED BY <2>1, <2>2
  <1>7. g[MaxSerial] = RecordsAt(high)
    <2>1. MaxSerial \in 0..MaxSerial /\ Before(MaxSerial) = high /\ high \in low..high
      BY <1>1
    <2>2. ASSUME NEW r \in Record, ~Hit(r, MaxSerial) PROVE r \in RecordsAt(base) <=> r \in RecordsAt(high)
      <3>1. ASSUME NEW v \in DOMAIN changes, base < v, v <= high PROVE ~Touches(changes[v], r)
        <4>1. low < v /\ v <= MaxSerial
          BY <1>1, <3>1
        <4>2. CASE changes[v] = <<>>
          BY <4>2, EmptyLog
        <4>3. CASE changes[v] # <<>>
          <5>1. v \in DOMAIN delta
            BY <3>1, <4>1, <4>3
          <5> QED BY <1>3, <2>2, <4>1, <5>1
        <4> QED BY <4>2, <4>3
      <3>2. base <= high
        BY <1>1
      <3> QED BY <1>1, <3>1, <3>2, Untouched
    <2>3. RecordsAt(high) \in SUBSET Record
      BY <1>2, <2>1
    <2>4. ASSUME NEW r \in Record PROVE r \in g[MaxSerial] <=> r \in RecordsAt(high)
      BY <2>1, <2>2
    <2>5. g[MaxSerial] \subseteq Record
      BY <2>1
    <2> HIDE DEF g
    <2> QED BY <2>3, <2>4, <2>5, Zenon
  <1>8. g = [u \in 0..MaxSerial |-> g[u]]
    OBVIOUS
  <1>9. PICK h : h = g
    BY Zenon
  <1> HIDE DEF g, Before, Hit
  <1> DEFINE Applies(f) == f = [s \in 0..MaxSerial |->
                                  IF s = 0 THEN RecordsAt(base)
                                  ELSE IF s \in DOMAIN delta THEN ApplySection(f[s - 1], delta[s]) ELSE f[s - 1]]
  <1>10. Applies(h)
    <2>1. ASSUME NEW s \in 0..MaxSerial
          PROVE  h[s] = IF s = 0 THEN RecordsAt(base)
                        ELSE IF s \in DOMAIN delta THEN ApplySection(h[s - 1], delta[s]) ELSE h[s - 1]
      <3>1. CASE s = 0
        BY <1>6, <1>9, <3>1
      <3>2. CASE s # 0
        <4>1. s \in 1..MaxSerial
          BY <1>1, <3>2
        <4> QED BY <1>5, <1>9, <3>2, <4>1
      <3> QED BY <3>1, <3>2
    <2> QED BY <1>8, <1>9, <2>1, Zenon
  <1>11. PICK f : f = CHOOSE x : Applies(x)
    OBVIOUS
  <1>12. Applies(f)
    BY <1>10, <1>11, Zenon
  <1>13. ApplyDelta(RecordsAt(base), delta) = f[MaxSerial]
    BY <1>11 DEF ApplyDelta
  <1>14. f[0] = h[0]
    BY <1>1, <1>10, <1>12
  <1>15. ASSUME NEW s \in 1..MaxSerial, f[s - 1] = h[s - 1] PROVE f[s] = h[s]
    <2>1. s \in 0..MaxSerial /\ s # 0
      BY <1>1
    <2>2. f[s] = IF s \in DOMAIN delta THEN ApplySection(f[s - 1], delta[s]) ELSE f[s - 1]
      BY <1>12, <2>1, Zenon
    <2>3. h[s] = IF s \in DOMAIN delta THEN ApplySection(h[s - 1], delta[s]) ELSE h[s - 1]
      BY <1>10, <2>1, Zenon
    <2> QED BY <1>15, <2>2, <2>3
  <1>16. \A s \in 0..MaxSerial : f[s] = h[s]
    <2> HIDE DEF Applies
    <2>1. \A s \in 1..MaxSerial : f[s - 1] = h[s - 1] => f[s] = h[s]
      BY <1>15
    <2>2. MaxSerial \in Nat
      BY <1>1
    <2>3. AgreesUp(MaxSerial, f, h)
      BY <1>14, <2>1 DEF AgreesUp
    <2> QED BY <2>2, <2>3, Upward
  <1>17. MaxSerial \in 0..MaxSerial
    BY <1>1
  <1> QED BY <1>7, <1>9, <1>13, <1>16, <1>17
=============================================================================
