---------------------------- MODULE VersionProofs ---------------------------
(***************************************************************************)
(* What secondaries, readers of the history and rollbacks are given is a   *)
(* version of the zone, for every value of the constants, whatever writes, *)
(* re-creations and transfers interleave. The storage keeps its invariant  *)
(* (ZoneStoreProofs), so the log determines every version (HistoryProofs), *)
(* and the steps of the server keep theirs (TransferProofs).               *)
(***************************************************************************)
EXTENDS ZoneStoreProofs, TransferProofs

\* A leaf that names no prover: SMT, then Zenon, then SMT once more with more time.
USE SMTT(30), ZenonT(20), SMTT(60)

-----------------------------------------------------------------------------
(* The writers' steps                                                      *)

\* A row seen before a write of the zone is still one afterwards, and the records
\* loaded under it are either older than the new serial or untouched.
LEMMA WriteKeeps ==
    ASSUME IndInv, Tables, Write, NEW id, NEW serial, Seen(id, serial)
    PROVE  Seen(id, serial)' /\ \A rs : Fresh(id, serial, rs) => Fresh(id, serial, rs)'
  <1>1. /\ [Next]_vars /\ zoneId' = ZoneIdAfter
        /\ top' = (IF zone' = NoZone \/ zone'.serial <= top THEN top ELSE zone'.serial)
        /\ top \in Nat /\ zoneId \in Nat
        /\ id \in ZoneIds /\ id \in Nat /\ id <= zoneId /\ serial \in Nat /\ serial <= top
    BY DEF Write, Tables, Seen, ZoneIds
  <1>a. above' => above
    BY Zenon DEF Write
  <1>b. above' /\ zoneId' # zoneId => zone'.serial > top
    BY Zenon DEF Write
  <1>2. CASE CreateStep
    <2>1. PICK soa \in Soa, first \in 1..MaxSerial : CreateZone(soa, first)
      BY <1>2 DEF CreateStep
    <2>2. zone = NoZone /\ zone' = [serial |-> first, soa |-> soa] /\ DOMAIN snapshots' = {first}
      BY <2>1 DEF CreateZone
    <2>3. zone' # NoZone /\ zone'.serial = first /\ first \in Nat
      BY <2>2, AbsenceAssumption, SerialAssumption DEF ZoneRow
    <2>4. zoneId' = zoneId + 1 /\ top' >= top /\ top' \in Nat
      BY <1>1, <2>2, <2>3 DEF ZoneIdAfter
    <2>5. id <= zoneId' /\ id # zoneId' /\ ~Live(id)'
      BY <1>1, <2>4 DEF Live
    <2>6. above' => serial < first
      <3> HAVE above'
      <3>1. zone'.serial > top
        BY <1>1, <1>b, <2>4
      <3> QED BY <1>1, <2>3, <3>1
    <2> QED BY <1>1, <2>2, <2>4, <2>5, <2>6 DEF Seen, Fresh
  <1>3. CASE DeleteZone
    <2>1. zone' = NoZone /\ zoneId' = zoneId /\ top' = top /\ ~Live(id)'
      BY <1>1, <1>3 DEF DeleteZone, ZoneIdAfter, Live
    <2> QED BY <1>1, <2>1 DEF Seen, Fresh
  <1>4. CASE WriteStep
    <2>1. Writable /\ zone.serial \in 1..MaxSerial /\ zone.serial \in DOMAIN snapshots
      BY <1>4, CurrentVersion DEF WriteStep, Writable, IndInv, SnapshotsContiguous
    <2>2. PICK soa, new, log : SoundCommit(soa, new, log)
      BY <1>4 DEF WriteStep
    <2>3. /\ zone' = [serial |-> NextSerial, soa |-> soa] /\ DOMAIN snapshots' = DOMAIN snapshots \cup {NextSerial}
          /\ NextSerial \in 1..MaxSerial /\ soa \in Soa
      BY <2>1, <2>2, CommitAppends, Zenon DEF SoundCommit
    <2>4. zone' # NoZone /\ zone'.serial = zone.serial + 1 /\ zone'.serial \in Nat /\ zone.serial \in Nat
      BY <2>1, <2>3, AbsenceAssumption, SerialAssumption DEF ZoneRow, NextSerial
    <2>5. zoneId' = zoneId /\ top' >= top /\ top' \in Nat
      BY <1>1, <2>1, <2>4 DEF ZoneIdAfter, Writable
    <2>6. Live(id)' => Live(id) /\ serial <= zone.serial
      BY <2>1, <2>5 DEF Live, Writable, Seen
    <2>7. above' /\ id # zoneId' => \A s \in DOMAIN snapshots' : serial < s
      <3> HAVE above' /\ id # zoneId'
      <3>1. \A s \in DOMAIN snapshots : serial < s
        BY <1>a, <2>1, <2>5 DEF Seen, Writable
      <3> QED BY <1>1, <2>1, <2>3, <2>4, <3>1 DEF NextSerial
    <2> QED BY <1>1, <2>4, <2>5, <2>6, <2>7 DEF Seen, Fresh
  <1>5. CASE PendingStep
    <2>1. UNCHANGED <<zone, records, snapshots>> /\ zoneId' = zoneId
      BY <1>1, <1>5 DEF PendingStep, ZoneIdAfter
    <2>2. top' >= top /\ top' \in Nat
      <3>1. zone # NoZone => zone.serial \in Nat
        BY CurrentVersion, SerialAssumption
      <3> QED BY <1>1, <2>1, <3>1
    <2> QED BY <1>1, <1>a, <2>1, <2>2 DEF Seen, Fresh, Live
  <1> QED BY <1>1, <1>2, <1>3, <1>4, <1>5, NextSteps

\* A write keeps the invariant.
LEMMA WriteTransferStep ==
    ASSUME TransferInv, Write
    PROVE  TransferInv'
  <1>1. IndInv /\ Tables /\ Held /\ UNCHANGED <<cache, conns, copies>> /\ [Next]_vars
    BY DEF TransferInv, Write
  <1>2. IndInv'
    BY <1>1, NextSteps, CreateIndInv, DeleteIndInv, WriteIndInv, PendingIndInv
  <1>3. Tables'
    <2>1. zone' # NoZone => zone'.serial \in Nat
      <3> HAVE zone' # NoZone
      <3>1. zone' \in ZoneRow
        BY <1>2 DEF IndInv, TypeOK
      <3> QED BY <3>1, SerialAssumption DEF ZoneRow
    <2>a. above' \in BOOLEAN
      BY Zenon DEF Write
    <2>b. /\ zoneId' = ZoneIdAfter /\ zoneId' <= MaxZones /\ zoneId \in Nat /\ top \in Nat
          /\ top' = (IF zone' = NoZone \/ zone'.serial <= top THEN top ELSE zone'.serial)
          /\ zone # NoZone => zoneId \in ZoneIds
      BY <1>1 DEF Write, Tables
    <2>2. zoneId' \in Nat /\ top' \in Nat /\ (zone' # NoZone => zone'.serial <= top')
      BY <2>1, <2>b DEF ZoneIdAfter
    <2>3. zone' # NoZone => zoneId' \in ZoneIds
      BY <2>b, ZonesAssumption DEF ZoneIdAfter, ZoneIds
    <2> QED BY <1>1, <2>a, <2>2, <2>3 DEF Tables
  <1>4. ASSUME NEW n \in Secondaries PROVE ConnOK(n)' /\ CopyOK(n)'
    <2>1. ConnOK(n) /\ CopyOK(n)
      BY <1>1 DEF Held
    <2>2. CopyOK(n)'
      BY <1>1, <2>1, WriteKeeps DEF CopyOK
    <2>3. ConnOK(n)'
      BY <1>1, <2>1, WriteKeeps, Zenon DEF ConnOK, Reading
    <2> QED BY <2>2, <2>3
  <1>5. ASSUME NEW id \in ZoneIds PROVE EntryOK(id)'
    BY <1>1, WriteKeeps DEF Held, EntryOK
  <1> QED BY <1>2, <1>3, <1>4, <1>5 DEF TransferInv, Held

-----------------------------------------------------------------------------
(* The theorems on transfers                                               *)

\* The initial state has the invariant.
LEMMA TransferInitInv == TransferInit => TransferInv
  <1> SUFFICES ASSUME TransferInit PROVE TransferInv
    OBVIOUS
  <1>1. IndInv /\ zone = NoZone
    BY InitIndInv DEF TransferInit, Init
  <1>2. Tables
    BY <1>1 DEF TransferInit, Tables
  <1>3. \A n \in Secondaries : ConnOK(n) /\ CopyOK(n)
    BY DEF TransferInit, ConnOK, CopyOK, Reading, Idle
  <1>4. \A id \in ZoneIds : EntryOK(id)
    BY DEF TransferInit, EntryOK
  <1> QED BY <1>1, <1>2, <1>3, <1>4 DEF TransferInv, Held

\* Every step keeps it.
LEMMA TransferNextInv == TransferInv /\ [TransferNext]_<<vars, transferVars>> => TransferInv'
  <1> SUFFICES ASSUME TransferInv, [TransferNext]_<<vars, transferVars>> PROVE TransferInv'
    OBVIOUS
  <1>1. ASSUME NEW n \in Secondaries, AxfrNext(n) \/ IxfrNext(n) \/ Receive(n) \/ Lose(n) PROVE TransferInv'
    BY <1>1, AxfrReadZoneStep, AxfrLookupStep, AxfrLoadStep, AxfrStoreStep, IxfrReadZoneStep, IxfrUpToDateStep,
       IxfrReadChangesStep, IxfrReadSnapshotsStep, ReceiveStep, LoseStep DEF AxfrNext, IxfrNext
  <1>2. CASE UNCHANGED <<vars, transferVars>>
    <2>1. UNCHANGED <<vars, zoneId, top, above, copies, conns, cache>>
      BY <1>2 DEF transferVars
    <2>2. IndInv'
      BY <2>1, IndInvStays DEF TransferInv
    <2>3. Tables'
      BY <2>1 DEF TransferInv, Tables, vars
    <2>4. Held'
      BY <2>1, Stays, Zenon DEF TransferInv, Held, ConnOK, CopyOK, EntryOK, Reading
    <2> QED BY <2>2, <2>3, <2>4 DEF TransferInv
  <1> QED BY <1>1, <1>2, WriteTransferStep, EvictStep DEF TransferNext

\* Every reachable state has it.
THEOREM TransferInvariant == TransferSpec => []TransferInv
  BY TransferInitInv, TransferNextInv, PTL DEF TransferSpec

\* "an entry matching the zone's current serial is always fresh" (zone_cache),
\* however the loads, stores, writes and re-creations interleave.
THEOREM CacheIsFresh == TransferSpec => []CacheFresh
  <1>1. TransferInv => CacheFresh
    BY DEF TransferInv, Tables, Held, EntryOK, Fresh, Live, CacheFresh
  <1> QED BY <1>1, TransferInvariant, PTL

\* A secondary that transfers a zone from handle_axfr or handle_ixfr never goes
\* back to an earlier serial of it.
THEOREM NoStepBack == TransferSpec => CopiesAdvance
  <1>0. \A k \in Nat : k >= k
    OBVIOUS
  <1>1. TransferInv /\ [TransferNext]_<<vars, transferVars>> =>
          [\A n \in Secondaries :
             copies[n] # NoCopy /\ copies'[n].id = copies[n].id =>
                 copies'[n].zone.serial >= copies[n].zone.serial]_copies
    <2> SUFFICES ASSUME TransferInv, [TransferNext]_<<vars, transferVars>>, copies' # copies,
                        NEW n \in Secondaries, copies[n] # NoCopy, copies'[n].id = copies[n].id
                 PROVE  copies'[n].zone.serial >= copies[n].zone.serial
      OBVIOUS
    <2>1. PICK m \in Secondaries : Receive(m)
      BY Zenon DEF TransferNext, AxfrNext, IxfrNext, AxfrReadZone, AxfrLookup, AxfrLoad, AxfrStore, IxfrReadZone,
             IxfrUpToDate, IxfrReadChanges, IxfrReadSnapshots, Lose, Evict, Write, ServerStep, transferVars
    <2>2. Seen(copies[n].id, copies[n].zone.serial) /\ ConnOK(n)
      BY DEF TransferInv, Held, CopyOK
    <2>3. copies[n].zone.serial \in Nat
      BY <2>2 DEF Seen
    <2>4. CASE m = n
      <3>1. copies'[n] = conns[n].copy /\ conns[n].pc = "answer"
        BY <2>1, <2>4 DEF Receive, TransferInv, Tables
      <3>2. copies[n].zone.serial <= conns[n].copy.zone.serial /\ conns[n].copy.zone.serial \in Nat
        BY <2>2, <3>1, Zenon DEF ConnOK, Seen
      <3> QED BY <2>3, <3>1, <3>2
    <2>5. CASE m # n
      <3>1. copies'[n] = copies[n]
        BY <2>1, <2>5 DEF Receive, TransferInv, Tables
      <3> QED BY <1>0, <2>3, <3>1, Zenon
    <2> QED BY <2>4, <2>5
  <1> QED BY <1>1, TransferInvariant, PTL DEF TransferSpec, CopiesAdvance

\* A zone created above every serial its name has had (ZoneService::create) is
\* told apart from its predecessors by every secondary that still holds one.
THEOREM RecreationIsDetected == TransferSpec => []RecreationDetected
  <1>1. TransferInv => RecreationDetected
    BY DEF TransferInv, Held, CopyOK, Seen, RecreationDetected
  <1> QED BY <1>1, TransferInvariant, PTL

-----------------------------------------------------------------------------
(* Copies are versions                                                     *)

\* If a row read before a write is still the zone's, the write appended a version
\* at most and left the others alone.
LEMMA WriteAppends ==
    ASSUME IndInv, Tables, Write, NEW id, id \in Nat, id <= zoneId, Live(id)'
    PROVE  /\ Live(id) /\ DOMAIN changes = DOMAIN snapshots /\ DOMAIN changes' = DOMAIN snapshots'
           /\ \A s \in DOMAIN snapshots : /\ s \in DOMAIN snapshots' /\ snapshots'[s] = snapshots[s]
                                          /\ changes'[s] = changes[s] /\ RecordsAt(s)' = RecordsAt(s)
           /\ \A s \in DOMAIN snapshots' : s \in DOMAIN snapshots \/ zone.serial < s
  <1>1. [Next]_vars /\ zoneId' = ZoneIdAfter /\ zoneId \in Nat
    BY DEF Write, Tables
  <1>2. DOMAIN changes = DOMAIN snapshots
    BY DEF IndInv, TypeOK
  <1>3. CASE CreateStep
    <2>1. PICK soa \in Soa, first \in 1..MaxSerial : CreateZone(soa, first)
      BY <1>3 DEF CreateStep
    <2>2. zone = NoZone /\ zone' = [serial |-> first, soa |-> soa]
      BY <2>1 DEF CreateZone
    <2>3. zone' # NoZone
      BY <2>2, AbsenceAssumption, SerialAssumption DEF ZoneRow
    <2>4. zoneId' = zoneId + 1
      BY <1>1, <2>2, <2>3 DEF ZoneIdAfter
    <2> QED BY <1>1, <2>4 DEF Live
  <1>4. CASE DeleteZone
    BY <1>4 DEF DeleteZone, Live
  <1>5. CASE WriteStep
    <2>1. Writable /\ zone.serial \in 1..MaxSerial
      BY <1>5, CurrentVersion DEF WriteStep, Writable
    <2>2. PICK soa, new, log : SoundCommit(soa, new, log)
      BY <1>5 DEF WriteStep
    <2>3. /\ DOMAIN snapshots' = DOMAIN snapshots \cup {NextSerial} /\ DOMAIN changes' = DOMAIN snapshots'
          /\ \A s \in DOMAIN snapshots : snapshots'[s] = snapshots[s]
          /\ \A s \in DOMAIN changes : changes'[s] = changes[s]
          /\ \A s \in DOMAIN snapshots : Reconstruct(records', changes', s) = RecordsAt(s)
      BY <2>1, <2>2, CommitAppends, ZenonT(30)
    <2>4. \A s \in DOMAIN snapshots : RecordsAt(s)' = RecordsAt(s)
      BY <2>3 DEF RecordsAt
    <2>5. zone.serial < NextSerial
      BY <2>1, SerialAssumption DEF NextSerial
    <2>6. Live(id)
      BY <1>1, <2>1 DEF Live, Writable, ZoneIdAfter
    <2> QED BY <1>2, <2>3, <2>4, <2>5, <2>6
  <1>6. CASE PendingStep
    <2>1. UNCHANGED <<zone, records, changes, snapshots>> /\ zoneId' = zoneId
      BY <1>1, <1>6 DEF PendingStep, ZoneIdAfter
    <2> QED BY <1>2, <2>1 DEF Live, RecordsAt
  <1> QED BY <1>1, <1>3, <1>4, <1>5, <1>6, NextSteps, Zenon

\* Rows, versions and sections of the zone outlast a write.
LEMMA WriteKeepsWhole ==
    ASSUME IndInv, Tables, Write, NEW id, NEW serial, Seen(id, serial), NEW low, NEW high, NEW x
    PROVE  /\ RowOf(id, x) => RowOf(id, x)'
           /\ OneVersion(id, low, high, x) => OneVersion(id, low, high, x)'
           /\ Sections(id, low, serial, x) => Sections(id, low, serial, x)'
  <1>1. CASE ~Live(id)'
    BY <1>1, Zenon DEF RowOf, OneVersion, Sections
  <1>2. CASE Live(id)'
    <2>0. id \in Nat /\ id <= zoneId /\ serial \in Nat
      BY DEF Seen, ZoneIds
    <2>1. /\ Live(id) /\ DOMAIN changes = DOMAIN snapshots /\ DOMAIN changes' = DOMAIN snapshots'
          /\ \A s \in DOMAIN snapshots : /\ s \in DOMAIN snapshots' /\ snapshots'[s] = snapshots[s]
                                         /\ changes'[s] = changes[s] /\ RecordsAt(s)' = RecordsAt(s)
          /\ \A s \in DOMAIN snapshots' : s \in DOMAIN snapshots \/ zone.serial < s
      BY <1>2, <2>0, WriteAppends, ZenonT(30)
    <2>2. RowOf(id, x) => RowOf(id, x)'
      BY <1>2, <2>1 DEF RowOf
    <2>3. Reorderable' => Reorderable
      BY <2>1 DEF Reorderable
    <2>4. OneVersion(id, low, high, x) => OneVersion(id, low, high, x)'
      BY <1>2, <2>1, <2>3, Zenon DEF OneVersion
    <2>5. ASSUME Sections(id, low, serial, x) PROVE Sections(id, low, serial, x)'
      <3>1. /\ DOMAIN x = {u \in DOMAIN changes : low < u /\ u <= serial /\ changes[u] # <<>>}
            /\ \A u \in DOMAIN x : x[u] = changes[u]
        BY <2>1, <2>5 DEF Sections
      <3>2. \A u \in DOMAIN changes' : u <= serial => u \in DOMAIN changes
        <4>1. serial <= zone.serial /\ zone.serial \in Nat
          BY <2>1, CurrentVersion, SerialAssumption DEF Seen, Live
        <4>2. DOMAIN snapshots' \subseteq Nat
          <5>1. TypeOK'
            BY NextSteps, CreateIndInv, DeleteIndInv, WriteIndInv, PendingIndInv DEF IndInv, Write
          <5> QED BY <5>1, SerialAssumption DEF TypeOK
        <4> QED BY <2>0, <2>1, <4>1, <4>2
      <3>3. \A u \in DOMAIN changes : u \in DOMAIN changes' /\ changes'[u] = changes[u]
        BY <2>1
      <3>4. DOMAIN x = {u \in DOMAIN changes' : low < u /\ u <= serial /\ changes'[u] # <<>>}
        BY <3>1, <3>2, <3>3
      <3> QED BY <3>1, <3>3, <3>4 DEF Sections
    <2> QED BY <2>2, <2>4, <2>5
  <1> QED BY <1>1, <1>2

\* A write keeps the invariant.
LEMMA WholeWrite ==
    ASSUME TransferInv, Whole, Write
    PROVE  Whole'
  <1>1. IndInv /\ Tables /\ Held /\ UNCHANGED <<cache, conns, copies>>
    BY DEF TransferInv, Write
  <1>2. ASSUME NEW n \in Secondaries PROVE ConnWhole(n)' /\ CopyWhole(n)'
    <2>1. ConnOK(n) /\ CopyOK(n) /\ ConnWhole(n) /\ CopyWhole(n)
      BY <1>1 DEF Held, Whole
    <2>2. CopyWhole(n)'
      BY <1>1, <2>1, WriteKeepsWhole, Zenon DEF CopyWhole, CopyOK
    <2>3. CASE Reading(n)
      <3>1. Seen(conns[n].id, conns[n].zone.serial) /\ conns[n].pc # "answer"
        BY <2>1, <2>3, Zenon DEF ConnOK, Reading
      <3> QED BY <1>1, <2>1, <2>2, <2>3, <3>1, WriteKeepsWhole, Zenon DEF ConnWhole, Reading
    <2>4. CASE conns[n].pc = "answer"
      <3>1. Seen(conns[n].copy.id, conns[n].copy.zone.serial) /\ ~Reading(n)
        BY <2>1, <2>4 DEF ConnOK, Reading
      <3>2. RowOf(conns[n].copy.id, conns[n].copy.zone)'
        BY <1>1, <2>1, <2>4, <3>1, WriteKeepsWhole, Zenon DEF ConnWhole
      <3>3. OneVersion(conns[n].copy.id, conns[n].copy.zone.serial, MaxSerial, conns[n].copy.records)'
        BY <1>1, <2>1, <2>4, <3>1, WriteKeepsWhole, Zenon DEF ConnWhole
      <3> QED BY <1>1, <2>2, <2>4, <3>2, <3>3, ZenonT(30) DEF ConnWhole, Reading
    <2>5. CASE ~Reading(n) /\ conns[n].pc # "answer"
      BY <1>1, <2>2, <2>5, Zenon DEF ConnWhole, Reading
    <2> QED BY <2>3, <2>4, <2>5
  <1>3. ASSUME NEW id \in ZoneIds PROVE EntryWhole(id)'
    <2>1. EntryOK(id) /\ EntryWhole(id)
      BY <1>1 DEF Held, Whole
    <2> QED BY <1>1, <2>1, WriteKeepsWhole, Zenon DEF EntryOK, EntryWhole
  <1> QED BY <1>2, <1>3 DEF Whole

\* Every step keeps the invariant.
LEMMA WholeNext == TransferInv /\ Whole /\ Replays /\ [TransferNext]_<<vars, transferVars>> => Whole'
  <1> SUFFICES ASSUME TransferInv, Whole, Replays, [TransferNext]_<<vars, transferVars>> PROVE Whole'
    OBVIOUS
  <1>1. ASSUME NEW n \in Secondaries, AxfrNext(n) \/ IxfrNext(n) \/ Receive(n) \/ Lose(n) PROVE Whole'
    <2>1. ASSUME IxfrUpToDate(n) \/ Lose(n) PROVE Whole'
      BY <2>1, WholeIdleStep DEF IxfrUpToDate, Lose
    <2> QED BY <1>1, <2>1, WholeReadZone, WholeLookup, WholeLoad, WholeStore, WholeReadChanges, WholeReadSnapshots,
               WholeReceive DEF AxfrNext, IxfrNext
  <1>2. CASE UNCHANGED <<vars, transferVars>>
    <2>1. UNCHANGED <<vars, zoneId>> /\ UNCHANGED <<copies, conns, cache>>
      BY <1>2 DEF transferVars
    <2> QED BY <2>1, WholeStays, Zenon DEF Whole, ConnWhole, CopyWhole, EntryWhole, Reading
  <1> QED BY <1>1, <1>2, WholeWrite, WholeEvict DEF TransferNext

-----------------------------------------------------------------------------
(* The theorems on versions                                                *)

INSTANCE NaturalsInduction
INSTANCE WellFoundedInduction

\* The hypothesis of the walks along the log.
LEMMA NaturalsWellOrdered == WellOrdered
  <1> SUFFICES ASSUME NEW S \in SUBSET Nat, S # {}
               PROVE  \E x \in S : \A y \in S : x <= y
    BY DEF WellOrdered
  <1> DEFINE Less == {ss \in Nat \X Nat : ss[1] < ss[2]}
  <1>1. IsWellFoundedOn(Less, Nat)
    BY NatLessThanWellFounded DEF OpToRel
  <1>2. \E x \in S : \A y \in S : ~(<<y, x>> \in Less)
    <2> HIDE DEF Less
    <2> QED BY <1>1, WFMin, Zenon
  <1>3. \A x, y \in Nat : <<y, x>> \in Less <=> y < x
    OBVIOUS
  <1> HIDE DEF Less
  <1>4. PICK x \in S : \A y \in S : ~(<<y, x>> \in Less)
    BY <1>2
  <1>5. \A y \in S : ~(y < x)
    BY <1>3, <1>4, Zenon
  <1>6. \A y \in S : x <= y
    BY <1>5
  <1> QED BY <1>6

\* reconstruct_records_at_serial gives the version of every serial that has a
\* snapshot, whatever was written, rolled back or deleted since.
THEOREM ReconstructionIsExact == Spec => []ReconstructionExact
  BY NaturalsWellOrdered, ReconstructionFromLog, Invariance, PTL

\* diff_snapshots is complete and minimal between any two serials of a zone.
THEOREM DiffIsExact == Spec => []DiffExact
  BY NaturalsWellOrdered, DiffOfVersions, Invariance, PTL

\* What IXFR sends between two serials leads from any version in between to the
\* version of the second.
LEMMA SectionsReplay == IndInv => Replays
  <1> SUFFICES ASSUME IndInv, zone # NoZone, Reorderable,
                      NEW low \in DOMAIN snapshots, NEW high \in DOMAIN snapshots, NEW base \in low..high,
                      NEW delta, Sections(zoneId, low, high, delta)
               PROVE  ApplyDelta(RecordsAt(base), delta) = RecordsAt(high)
    BY Zenon DEF Replays
  <1>1. /\ DOMAIN delta = {u \in DOMAIN changes : low < u /\ u <= high /\ changes[u] # <<>>}
        /\ \A u \in DOMAIN delta : delta[u] = changes[u]
    BY Zenon DEF Sections, Live
  <1> QED BY <1>1, NaturalsWellOrdered, DeltaLeadsTo

\* What handle_axfr and handle_ixfr leave a secondary with is one version of the
\* zone: the SOA of its serial, and the records of that serial or of a later one,
\* through any interleaving of transfers with writes and re-creations, as long as
\* no serial adds a record and deletes it again.
THEOREM CopiesAreVersions == TransferSpec => []CopyIsOneVersion
  <1>1. TransferInit => Whole
    BY DEF TransferInit, Whole, ConnWhole, CopyWhole, EntryWhole, Reading, Idle
  <1>2. TransferInv /\ Whole => CopyIsOneVersion
    <2> SUFFICES ASSUME TransferInv, Whole, Reorderable, NEW n \in Secondaries, Holds(n)
                 PROVE  /\ copies[n].zone.serial \in DOMAIN snapshots
                        /\ copies[n].zone.soa = snapshots[copies[n].zone.serial]
                        /\ \E s \in copies[n].zone.serial..zone.serial : copies[n].records = RecordsAt(s)
      BY DEF CopyIsOneVersion
    <2>1. Live(copies[n].id) /\ copies[n] # NoCopy /\ zone # NoZone
      BY DEF Holds, Live
    <2>2. /\ RowOf(copies[n].id, copies[n].zone)
          /\ OneVersion(copies[n].id, copies[n].zone.serial, MaxSerial, copies[n].records)
      BY <2>1 DEF Whole, CopyWhole
    <2>3. copies[n].zone.serial \in DOMAIN snapshots /\ copies[n].zone.soa = snapshots[copies[n].zone.serial]
      BY <2>1, <2>2 DEF RowOf
    <2>4. PICK s \in DOMAIN snapshots : copies[n].zone.serial <= s /\ copies[n].records = RecordsAt(s)
      BY <2>1, <2>2 DEF OneVersion
    <2>5. DOMAIN snapshots \subseteq Nat /\ s <= zone.serial /\ zone.serial \in DOMAIN snapshots
      BY <2>1, SerialAssumption DEF TransferInv, IndInv, TypeOK, SnapshotsContiguous
    <2>6. s \in copies[n].zone.serial..zone.serial
      BY <2>3, <2>4, <2>5
    <2> QED BY <2>3, <2>4, <2>6, ZenonT(30)
  <1>3. TransferInv => Replays
    BY SectionsReplay DEF TransferInv
  <1> QED BY <1>1, <1>2, <1>3, WholeNext, TransferInvariant, PTL DEF TransferSpec
=============================================================================
