---------------------------- MODULE ServerProofs ----------------------------
(***************************************************************************)
(* Theorems about what the users of a server rely on. For any zones,       *)
(* secondaries and bounds on each of the databases, a serial of the        *)
(* catalog names one list of members and no transfer takes a secondary     *)
(* back (Catalog). For any number of processes, CLI invocations and        *)
(* images, a running daemon is reachable and the CLI's reports are true    *)
(* (Daemon).                                                               *)
(***************************************************************************)
EXTENDS Catalog, Daemon, TLAPS

\* A leaf that names no prover: SMT, then Zenon, then SMT once more with more time.
USE SMTT(30), ZenonT(20), SMTT(60)

-----------------------------------------------------------------------------
(* The catalog: the inductive invariant                                    *)

\* A catalog that was given out is no newer than the row of catalog_zone_state,
\* and lists the members of that row if its serial is the row's.
BehindRow(p) ==
    \/ p.serial = 0 /\ p.members = {}
    \/ /\ p.serial > 0 /\ state # NoRow /\ p.serial <= state.serial
       /\ p.serial = state.serial => p.members = DOMAIN state.signature

CatalogInv ==
    /\ TypeOK
    /\ \A p \in Published : BehindRow(p)
    /\ SerialNamesOneList
    /\ \A c \in Secondaries : conns[c].pc = "answered" => conns[c].catalog.serial >= copies[c].serial

-----------------------------------------------------------------------------
(* The upsert                                                              *)

\* A set of naturals with a bound has a greatest element, and Max is it. The
\* lemmas take it as a hypothesis; the library of well-founded relations gives
\* it below.
MaxGreatest ==
    \A N \in Nat : \A S \in SUBSET (0..N) : S # {} => Max(S) \in S /\ \A y \in S : Max(S) >= y

\* What a list of zones is.
LEMMA ZoneListTyped ==
  ASSUME NEW list \in ZoneLists
  PROVE  DOMAIN list \in SUBSET ZoneNames /\ list \in [DOMAIN list -> 1..MaxZone]
  BY DEF ZoneLists

\* The serial proposed for a list is positive and one of a zone.
LEMMA BaseSerialTyped ==
  ASSUME MaxGreatest, NEW list \in ZoneLists
  PROVE  BaseSerial(list) \in 1..MaxZone
  <1>1. list \in [DOMAIN list -> 1..MaxZone]
    BY ZoneListTyped
  <1>2. CASE DOMAIN list = {}
    BY <1>2, CatalogAssumption DEF BaseSerial
  <1>3. CASE DOMAIN list # {}
    <2> DEFINE S == {list[n] : n \in DOMAIN list}
    <2>1. S \in SUBSET (0..MaxZone) /\ S # {} /\ S \in SUBSET (1..MaxZone) /\ MaxZone \in Nat
      BY <1>1, <1>3, CatalogAssumption
    <2>2. BaseSerial(list) = Max(S)
      BY <1>3 DEF BaseSerial
    <2> HIDE DEF S
    <2>3. Max(S) \in S
      BY <2>1, Zenon DEF MaxGreatest
    <2> QED BY <2>1, <2>2, <2>3, Zenon
  <1> QED BY <1>2, <1>3, Zenon

\* The upsert of each database: the row has the new signature; its serial stays
\* with the signature and grows with a new one.
LEMMA UpsertRow ==
  ASSUME MaxGreatest, backend \in Backends, NEW row \in StateRow \cup {NoRow}, NEW list \in ZoneLists, NEW base \in Nat \ {0}
  PROVE  LET new == Upsert(row, Signature(list), base) IN
         /\ new.signature = list
         /\ new = [signature |-> list, serial |-> new.serial]
         /\ new.serial \in Nat \ {0}
         /\ row # NoRow => /\ new.serial >= row.serial
                           /\ new.serial = row.serial => row.signature = list
  <1> DEFINE new == Upsert(row, Signature(list), base)
  <1>2. CASE row = NoRow
    BY <1>2 DEF Upsert, UpsertMysql, UpsertPostgres, UpsertSqlite, Signature, Backends
  <1>3. CASE row # NoRow
    <2>1. row \in StateRow /\ row.serial \in Nat \ {0}
      BY <1>3, CatalogAssumption DEF StateRow
    <2> DEFINE S == {row.serial + 1, base}
    <2>2. Max(S) \in S /\ \A y \in S : Max(S) >= y
      <3>1. PICK N \in Nat : S \in SUBSET (0..N)
        <4> WITNESS row.serial + 1 + base \in Nat
        <4> QED BY <2>1
      <3>2. S # {}
        OBVIOUS
      <3> HIDE DEF S
      <3> QED BY <3>1, <3>2, Zenon DEF MaxGreatest
    <2>3. Max(S) \in Nat /\ Max(S) > row.serial
      BY <2>1, <2>2
    <2> DEFINE serial == IF row.signature = list THEN row.serial ELSE Max(S)
    <2>4. new = [signature |-> list, serial |-> serial]
      <3> HIDE DEF S
      <3>1. row = [signature |-> row.signature, serial |-> row.serial]
        BY <2>1 DEF StateRow
      <3>2. UpsertPostgres(row, list, base) = [signature |-> list, serial |-> serial]
        BY <1>3 DEF UpsertPostgres, S
      <3>3. UpsertSqlite(row, list, base) = [signature |-> list, serial |-> serial]
        BY <1>3 DEF UpsertSqlite, S
      <3>4. UpsertMysql(row, list, base) = [signature |-> list, serial |-> serial]
        BY <1>3, <2>1, Zenon DEF UpsertMysql, S, StateRow
      <3> QED BY <3>2, <3>3, <3>4 DEF Upsert, Signature, Backends
    <2> HIDE DEF new, S
    <2> QED BY <1>3, <2>1, <2>3, <2>4 DEF new
  <1> QED BY <1>2, <1>3

-----------------------------------------------------------------------------
(* Invariance                                                              *)

\* The shapes of a connection.
LEMMA ConnTyped ==
  ASSUME TypeOK, NEW c \in Secondaries
  PROVE  /\ conns[c] = Idle \/ conns[c].pc \in {"listed", "answered"}
         /\ Idle.pc = "idle"
         /\ conns[c].pc = "listed" => conns[c].list \in ZoneLists /\ conns[c].want \in {"SOA", "AXFR"}
         /\ conns[c].pc = "answered" => conns[c].catalog \in CatalogZone /\ conns[c].want \in {"SOA", "AXFR"}
  <1>1. conns[c] \in Conns
    BY DEF TypeOK
  <1>2. CASE conns[c] = Idle
    BY <1>2 DEF Idle
  <1>3. CASE conns[c] \in [pc : {"listed"}, want : {"SOA", "AXFR"}, list : ZoneLists]
    BY <1>3 DEF Idle
  <1>4. CASE conns[c] \in [pc : {"answered"}, want : {"SOA", "AXFR"}, catalog : CatalogZone]
    BY <1>4 DEF Idle
  <1> QED BY <1>1, <1>2, <1>3, <1>4 DEF Conns

\* A step that gives out no catalog and leaves the row alone.
LEMMA NothingPublished ==
  ASSUME CatalogInv, TypeOK', UNCHANGED <<state, copies>>,
         \A c \in Secondaries : conns'[c] = conns[c] \/ conns'[c].pc # "answered"
  PROVE  CatalogInv'
  <1>1. Published' \subseteq Published
    BY DEF Published
  <1>2. \A p \in Published' : BehindRow(p)'
    BY <1>1 DEF CatalogInv, BehindRow
  <1>3. SerialNamesOneList'
    BY <1>1 DEF CatalogInv, SerialNamesOneList
  <1>4. \A c \in Secondaries : conns'[c].pc = "answered" => conns'[c].catalog.serial >= copies'[c].serial
    BY DEF CatalogInv
  <1> QED BY <1>2, <1>3, <1>4 DEF CatalogInv

\* A write to the zones table.
LEMMA WriteKeeps ==
  ASSUME CatalogInv, NEW new \in ZoneLists, Write(new)
  PROVE  CatalogInv'
  <1>1. TypeOK'
    BY CatalogAssumption DEF CatalogInv, TypeOK, Write
  <1> QED BY <1>1, NothingPublished DEF Write

\* Creations, deletions and updates of zones are such writes.
LEMMA WriteZonesKeeps ==
  ASSUME CatalogInv, WriteZones
  PROVE  CatalogInv'
  <1>1. zones \in ZoneLists /\ DOMAIN zones \in SUBSET ZoneNames /\ zones \in [DOMAIN zones -> 1..MaxZone]
    BY ZoneListTyped DEF CatalogInv, TypeOK
  <1>2. ASSUME NEW name \in ZoneNames, NEW serial \in 1..MaxZone, CreateZone(name, serial) PROVE CatalogInv'
    <2> DEFINE new == [n \in DOMAIN zones \cup {name} |-> IF n = name THEN serial ELSE zones[n]]
    <2>1. new \in [DOMAIN zones \cup {name} -> 1..MaxZone] /\ DOMAIN zones \cup {name} \in SUBSET ZoneNames
      BY <1>1
    <2>2. new \in ZoneLists /\ Write(new)
      BY <1>2, <2>1 DEF ZoneLists, CreateZone
    <2> QED BY <2>2, WriteKeeps
  <1>3. ASSUME NEW name \in ZoneNames, DeleteZone(name) PROVE CatalogInv'
    <2> DEFINE new == [n \in DOMAIN zones \ {name} |-> zones[n]]
    <2>1. new \in [DOMAIN zones \ {name} -> 1..MaxZone] /\ DOMAIN zones \ {name} \in SUBSET ZoneNames
      BY <1>1
    <2>2. new \in ZoneLists /\ Write(new)
      BY <1>3, <2>1 DEF ZoneLists, DeleteZone
    <2> QED BY <2>2, WriteKeeps
  <1>4. ASSUME NEW name \in ZoneNames, NEW to \in ZoneNames, UpdateZone(name, to) PROVE CatalogInv'
    <2> DEFINE names == (DOMAIN zones \ {name}) \cup {to}
               new == [n \in names |-> IF n = to THEN zones[name] + 1 ELSE zones[n]]
    <2>1. names \in SUBSET ZoneNames /\ zones[name] + 1 \in 1..MaxZone
      BY <1>1, <1>4, CatalogAssumption DEF UpdateZone
    <2>2. new \in [names -> 1..MaxZone]
      BY <1>1, <2>1
    <2>3. new \in ZoneLists /\ Write(new)
      BY <1>4, <2>1, <2>2 DEF ZoneLists, UpdateZone
    <2> QED BY <2>3, WriteKeeps
  <1> QED BY <1>2, <1>3, <1>4 DEF WriteZones

\* Listing the zones, giving up and losing an answer give out no catalog.
LEMMA ListOrIdleKeeps ==
  ASSUME CatalogInv, NEW c \in Secondaries, UNCHANGED <<backend, zones, state, copies, served, changes>>,
         (\E want \in {"SOA", "AXFR"} : List(c, want)) \/ conns' = [conns EXCEPT ![c] = Idle]
  PROVE  CatalogInv'
  <1>1. PICK x \in Conns : conns' = [conns EXCEPT ![c] = x] /\ x.pc # "answered"
    <2>1. CASE conns' = [conns EXCEPT ![c] = Idle]
      <3>1. Idle \in Conns /\ Idle.pc # "answered"
        BY DEF Conns, Idle
      <3> QED BY <2>1, <3>1, Zenon
    <2>2. CASE \E want \in {"SOA", "AXFR"} : List(c, want)
      <3>1. PICK want \in {"SOA", "AXFR"} : conns' = [conns EXCEPT ![c] = Listed(want, zones)]
        BY <2>2, Zenon DEF List
      <3>2. Listed(want, zones) \in Conns /\ Listed(want, zones).pc = "listed"
        BY DEF Listed, Conns, CatalogInv, TypeOK
      <3> QED BY <3>1, <3>2, Zenon
    <2> QED BY <2>1, <2>2
  <1>2. TypeOK'
    BY <1>1 DEF CatalogInv, TypeOK
  <1> QED BY <1>1, <1>2, NothingPublished DEF CatalogInv, TypeOK

\* A list gets its serial: the catalog that goes out is the row's, and no older
\* catalog has that serial with other members.
LEMMA AssignSerialKeeps ==
  ASSUME MaxGreatest, CatalogInv, NEW c \in Secondaries, AssignSerial(c)
  PROVE  CatalogInv'
  <1> DEFINE list == conns[c].list
             base == BaseSerial(list)
             row == Upsert(state, Signature(list), base)
             sent == [serial |-> row.serial, members |-> DOMAIN list]
  <1>1. /\ conns[c].pc = "listed" /\ row.serial <= MaxSerial /\ state' = row
        /\ conns' = [conns EXCEPT ![c] = Answered(conns[c].want, sent)]
        /\ UNCHANGED <<backend, zones, copies, served, changes>>
    BY DEF AssignSerial
  <1>2. TypeOK /\ list \in ZoneLists /\ conns[c].want \in {"SOA", "AXFR"} /\ DOMAIN list \in SUBSET ZoneNames
    BY <1>1, ConnTyped, ZoneListTyped DEF CatalogInv
  <1>3. base \in Nat \ {0}
    BY <1>2, BaseSerialTyped, CatalogAssumption
  <1> HIDE DEF base, list
  <1>4. /\ row.signature = list /\ row = [signature |-> list, serial |-> row.serial]
        /\ row.serial \in Nat \ {0}
        /\ state # NoRow => /\ row.serial >= state.serial
                            /\ row.serial = state.serial => state.signature = list
    BY <1>2, <1>3, UpsertRow DEF TypeOK
  <1> HIDE DEF row
  <1>5. row \in StateRow /\ row # NoRow /\ sent \in CatalogZone
    BY <1>1, <1>2, <1>4, CatalogAssumption DEF StateRow, CatalogZone
  <1>0. PICK p : p = sent
    BY Zenon
  <1>6. Answered(conns[c].want, p) \in Conns /\ Answered(conns[c].want, p).pc = "answered"
        /\ Answered(conns[c].want, p).catalog = p
    BY <1>0, <1>2, <1>5 DEF Answered, Conns
  <1>7. /\ conns'[c].pc = "answered" /\ conns'[c].catalog = p
        /\ \A d \in Secondaries \ {c} : conns'[d] = conns[d]
    BY <1>0, <1>1, <1>2, <1>6 DEF TypeOK
  <1>8. TypeOK'
    BY <1>0, <1>1, <1>2, <1>5, <1>6 DEF TypeOK
  <1>9. Published' \subseteq Published \cup {p}
    BY <1>1, <1>7 DEF Published
  <1>10. p.serial = row.serial /\ p.members = DOMAIN list
    BY <1>0
  <1> HIDE DEF sent
  <1>11. \A q \in Published : q.serial \in Nat
    BY <1>2, ConnTyped, CatalogAssumption DEF Published, CatalogZone, TypeOK
  <1>12. ASSUME NEW q \in Published PROVE BehindRow(q)'
    <2>1. CASE q.serial = 0 /\ q.members = {}
      BY <2>1 DEF BehindRow
    <2>2. CASE ~(q.serial = 0 /\ q.members = {})
      <3>1. /\ q.serial > 0 /\ state # NoRow /\ q.serial <= state.serial
            /\ q.serial = state.serial => q.members = DOMAIN state.signature
        BY <2>2 DEF CatalogInv, BehindRow
      <3>2. state.serial \in Nat
        BY <1>2, <3>1, CatalogAssumption DEF TypeOK, StateRow
      <3>3. q.serial <= row.serial /\ (q.serial = row.serial => q.members = DOMAIN list)
        BY <1>4, <1>11, <3>1, <3>2
      <3> QED BY <1>1, <1>4, <1>5, <3>1, <3>3 DEF BehindRow
    <2> QED BY <2>1, <2>2
  <1>13. BehindRow(p)'
    BY <1>1, <1>4, <1>5, <1>10 DEF BehindRow
  <1>14. \A q \in Published' : BehindRow(q)'
    BY <1>9, <1>12, <1>13
  <1>15. \A q \in Published : q.serial = p.serial => q.members = p.members
    BY <1>1, <1>4, <1>10, <1>12 DEF BehindRow
  <1>16. SerialNamesOneList'
    BY <1>9, <1>15 DEF CatalogInv, SerialNamesOneList
  <1>17. \A d \in Secondaries : conns'[d].pc = "answered" => conns'[d].catalog.serial >= copies'[d].serial
    <2>1. p.serial >= copies[c].serial
      <3>1. copies[c] \in Published
        BY DEF Published
      <3> QED BY <1>1, <1>4, <1>10, <1>11, <1>12, <3>1 DEF BehindRow
    <2> QED BY <1>1, <1>7, <2>1 DEF CatalogInv
  <1> QED BY <1>8, <1>14, <1>16, <1>17 DEF CatalogInv

\* A secondary installs a catalog that was given out.
LEMMA InstallKeeps ==
  ASSUME CatalogInv, NEW c \in Secondaries, Install(c)
  PROVE  CatalogInv'
  <1>1. /\ TypeOK /\ conns[c].pc = "answered" /\ conns[c].catalog \in CatalogZone
        /\ Idle \in Conns /\ Idle.pc # "answered"
    BY ConnTyped DEF CatalogInv, Install, Conns, Idle
  <1>2. /\ conns' = [conns EXCEPT ![c] = Idle] /\ copies' = [copies EXCEPT ![c] = conns[c].catalog]
        /\ UNCHANGED <<backend, zones, state, changes>>
    BY DEF Install
  <1>3. served' \in [Secondaries -> SUBSET ZoneNames]
    BY <1>1 DEF Install, TypeOK, CatalogZone
  <1>4. TypeOK'
    BY <1>1, <1>2, <1>3, Zenon DEF TypeOK
  <1>5. /\ conns'[c].pc # "answered" /\ copies'[c] = conns[c].catalog
        /\ \A d \in Secondaries \ {c} : conns'[d] = conns[d] /\ copies'[d] = copies[d]
    BY <1>1, <1>2 DEF TypeOK
  <1>6. Published' \subseteq Published
    BY <1>1, <1>5 DEF Published
  <1>7. \A p \in Published' : BehindRow(p)'
    BY <1>2, <1>6 DEF CatalogInv, BehindRow
  <1>8. SerialNamesOneList'
    BY <1>6 DEF CatalogInv, SerialNamesOneList
  <1>9. \A d \in Secondaries : conns'[d].pc = "answered" => conns'[d].catalog.serial >= copies'[d].serial
    BY <1>5 DEF CatalogInv
  <1> QED BY <1>4, <1>7, <1>8, <1>9 DEF CatalogInv

\* Every step keeps the invariant.
LEMMA NextKeeps == MaxGreatest /\ CatalogInv /\ [Next]_vars => CatalogInv'
  <1> SUFFICES ASSUME MaxGreatest, CatalogInv, [Next]_vars PROVE CatalogInv'
    OBVIOUS
  <1>1. CASE WriteZones
    BY <1>1, WriteZonesKeeps
  <1>2. ASSUME NEW c \in Secondaries, AssignSerial(c) PROVE CatalogInv'
    BY <1>2, AssignSerialKeeps
  <1>3. ASSUME NEW c \in Secondaries, AssignRefused(c) PROVE CatalogInv'
    BY <1>3, ListOrIdleKeeps, Zenon DEF AssignRefused
  <1>4. ASSUME NEW c \in Secondaries, Poll(c) PROVE CatalogInv'
    BY <1>4, ListOrIdleKeeps DEF Poll
  <1>5. ASSUME NEW c \in Secondaries, Transfer(c) PROVE CatalogInv'
    BY <1>5, ListOrIdleKeeps DEF Transfer
  <1>6. ASSUME NEW c \in Secondaries, Install(c) PROVE CatalogInv'
    BY <1>6, InstallKeeps
  <1>7. ASSUME NEW c \in Secondaries, Lose(c) PROVE CatalogInv'
    BY <1>7, ListOrIdleKeeps, Zenon DEF Lose
  <1>8. CASE UNCHANGED vars
    <2>1. TypeOK'
      BY <1>8 DEF vars, CatalogInv, TypeOK
    <2> QED BY <1>8, <2>1, NothingPublished DEF vars
  <1> QED BY <1>1, <1>2, <1>3, <1>4, <1>5, <1>6, <1>7, <1>8 DEF Next, Serve

\* It holds before the first query.
LEMMA InitEstablishes == Init => CatalogInv
  <1> SUFFICES ASSUME Init PROVE CatalogInv
    OBVIOUS
  <1>1. zones \in ZoneLists
    <2>1. << >> \in [{} -> 1..MaxZone]
      OBVIOUS
    <2> QED BY <2>1, Zenon DEF Init, ZoneLists
  <1>2. Idle \in Conns /\ Idle.pc # "answered"
    BY DEF Idle, Conns
  <1>3. [serial |-> 0, members |-> {}] \in CatalogZone
    BY CatalogAssumption DEF CatalogZone
  <1>4. TypeOK
    <2>1. 0 \in 0..MaxChanges
      BY CatalogAssumption
    <2> QED BY <1>1, <1>2, <1>3, <2>1 DEF Init, TypeOK
  <1>5. \A p \in Published : p = [serial |-> 0, members |-> {}]
    BY <1>2 DEF Init, Published
  <1>6. \A p \in Published : p.serial = 0 /\ p.members = {}
    BY <1>5
  <1> QED BY <1>2, <1>4, <1>6, Zenon DEF CatalogInv, BehindRow, SerialNamesOneList, Init

INSTANCE WellFoundedInduction

\* The naturals are well ordered: the distances from the bound have a least one.
LEMMA MaxIsGreatest ==
  ASSUME NEW N \in Nat, NEW S \in SUBSET (0..N), S # {}
  PROVE  Max(S) \in S /\ \A y \in S : Max(S) >= y
  <1> DEFINE Less == {ss \in Nat \X Nat : ss[1] < ss[2]}
             T == {x \in Nat : \E y \in S : x = N - y}
  <1>1. IsWellFoundedOn(Less, Nat)
    BY NatLessThanWellFounded DEF OpToRel
  <1>2. T \in SUBSET Nat /\ T # {}
    <2>1. PICK y \in S : TRUE
      BY Zenon
    <2>2. N - y \in T
      OBVIOUS
    <2> QED BY <2>2, Zenon
  <1>3. \E x \in T : \A y \in T : ~(<<y, x>> \in Less)
    <2> HIDE DEF Less, T
    <2> QED BY <1>1, <1>2, WFMin, Zenon
  <1>4. \A x, y \in Nat : <<y, x>> \in Less <=> y < x
    OBVIOUS
  <1>5. PICK x \in T : \A y \in T : ~(<<y, x>> \in Less)
    BY <1>3
  <1> HIDE DEF Less
  <1>6. \A y \in T : ~(y < x)
    BY <1>2, <1>4, <1>5, Zenon
  <1>7. PICK g \in S : x = N - g
    OBVIOUS
  <1>8. \A y \in S : g >= y
    <2> SUFFICES ASSUME NEW y \in S PROVE g >= y
      OBVIOUS
    <2>1. N - y \in T
      OBVIOUS
    <2>2. ~(N - y < N - g)
      BY <1>6, <1>7, <2>1
    <2> QED BY <2>2
  <1> QED BY <1>8, Zenon DEF Max

\* It holds throughout.
LEMMA CatalogInvariant == Spec => []CatalogInv
  <1>1. MaxGreatest
    BY MaxIsGreatest, Zenon DEF MaxGreatest
  <1> QED BY <1>1, InitEstablishes, NextKeeps, PTL DEF Spec

\* A serial of the catalog names one list of members, although
\* generate_catalog_zone lists the zones outside the transaction that assigns it.
THEOREM OneListPerSerial == Spec => []SerialNamesOneList
  <1>1. CatalogInv => SerialNamesOneList
    BY DEF CatalogInv
  <1> QED BY <1>1, CatalogInvariant, PTL

\* A secondary's catalog never goes back: the serial of an answer that is on its
\* way is not below the one the secondary has.
THEOREM CatalogNeverGoesBack == Spec => CatalogAdvances
  <1> DEFINE A == \A c \in Secondaries : copies'[c].serial >= copies[c].serial
  <1>1. CatalogInv /\ [Next]_vars => A
    <2> SUFFICES ASSUME CatalogInv, [Next]_vars, NEW c \in Secondaries
                 PROVE  copies'[c].serial >= copies[c].serial
      OBVIOUS
    <2>1. copies \in [Secondaries -> CatalogZone] /\ copies[c].serial \in Nat
      BY CatalogAssumption DEF CatalogInv, TypeOK, CatalogZone
    <2>2. CASE copies' = copies
      <3>1. \A k \in Nat : k >= k
        OBVIOUS
      <3> QED BY <2>1, <2>2, <3>1, Zenon
    <2>3. ASSUME NEW d \in Secondaries, Install(d) PROVE copies'[c].serial >= copies[c].serial
      BY <2>1, <2>3 DEF Install, CatalogInv
    <2>4. copies' = copies \/ \E d \in Secondaries : Install(d)
      BY Zenon DEF Next, vars, WriteZones, CreateZone, DeleteZone, UpdateZone, Write, Serve, AssignSerial,
             AssignRefused, Poll, Transfer, Lose
    <2> QED BY <2>2, <2>3, <2>4
  <1> HIDE DEF A
  <1>2. Spec => [][A]_vars
    BY <1>1, CatalogInvariant, PTL DEF Spec
  <1> QED BY <1>2 DEF A, CatalogAdvances

-----------------------------------------------------------------------------
(* The daemon and its CLI: the inductive invariant                         *)

Pcs == {"off", "check", "remove", "bind", "api", "run"}

ProcTypes == proc \in [Procs -> [pc : Pcs, image : Nat, path : {0, 1, 2}, can : {{}} \cup Permissions]]

CliRecords ==
    [cmd : Commands, pc : {"status", "send", "sent", "poll", "done"}, before : Nat, asked : Nat,
     unread : BOOLEAN, result : {"", "failed", "stopped", "restarted"}, alone : BOOLEAN]

CliTypes == cli \in [Clis -> CliRecords]

Types ==
    /\ ProcTypes /\ CliTypes
    /\ file \in [Paths -> Nat]
    /\ control \in [Procs -> SUBSET {"shutdown", "restart"}]
    /\ images \in Nat

\* Image numbers are handed out once, and none is ahead of the counter.
ImagesKnown ==
    /\ \A p \in Procs : /\ proc[p].image <= images
                        /\ proc[p].pc = "off" => proc[p] = Off
                        /\ proc[p].pc # "off" => proc[p].image # 0 /\ proc[p].path \in Paths
    /\ \A p, q \in Procs : proc[p].image = proc[q].image /\ proc[p].image # 0 => p = q
    /\ \A c \in Clis : cli[c].before <= images /\ cli[c].asked <= images
    /\ \A n \in Paths : file[n] <= images

Listens(p) == proc[p].pc \in {"api", "run"}

Searches(p) == proc[p].pc \in {"check", "remove", "bind"}

\* The file a process is about to remove is no listening daemon's, unless that
\* one is exposed; a listening daemon that is not has its file; an image that
\* looks for a socket has none.
SocketsOwned ==
    /\ \A p, q \in Procs : proc[p].pc = "remove" /\ Listens(q) /\ file[proc[p].path] = proc[q].image =>
                             proc[q].image \in exposed
    /\ \A p \in Procs : Listens(p) /\ proc[p].image \notin exposed => file[proc[p].path] = proc[p].image
    /\ \A p \in Procs, n \in Paths : Searches(p) => file[n] # proc[p].image

\* An image that was asked listens for as long as it lives.
AskedListens ==
    \A c \in Clis, p \in Procs : cli[c].asked # 0 /\ proc[p].image = cli[c].asked => Listens(p)

\* Between its status request and its result, and while the image it knows is up,
\* a restart that is alone has no other that listens before it.
OneListener ==
    \A c \in Clis : cli[c].alone /\ cli[c].pc \in {"send", "sent", "poll"} /\ cli[c].cmd = "restart" =>
        \A p, q \in Procs : cli[c].before # 0 /\ proc[q].image = cli[c].before /\ Listens(p) =>
                             proc[p].image = cli[c].before

DaemonInv == Types /\ ImagesKnown /\ SocketsOwned /\ AskedListens /\ OneListener

-----------------------------------------------------------------------------
(* Processes                                                               *)

\* A process that is off has no image.
LEMMA OffFacts == Off.pc = "off" /\ Off.image = 0 /\ Off \in [pc : Pcs, image : Nat, path : {0, 1, 2}, can : {{}} \cup Permissions]
  BY DEF Off, Pcs

Others(p) == \A q \in Procs \ {p} : proc'[q] = proc[q]

\* What Goto and Quit do, field by field.
Moved(p, pc, path) ==
    proc'[p].pc = pc /\ proc'[p].path = path /\ proc'[p].image = proc[p].image /\ Others(p)

\* A process image goes on to another step of its bootstrap.
LEMMA GotoMoves ==
    ASSUME ProcTypes, NEW p \in Procs, NEW pc \in Pcs, NEW path \in {0, 1, 2}, Goto(p, pc, path)
    PROVE  ProcTypes' /\ Moved(p, pc, path)
  BY DEF ProcTypes, Goto, Moved, Others

\* A process ends.
LEMMA QuitMoves ==
    ASSUME ProcTypes, NEW p \in Procs, Quit(p)
    PROVE  ProcTypes' /\ proc'[p] = Off /\ Others(p)
  BY OffFacts DEF ProcTypes, Quit, Others

\* The image a CLI reaches is the one of a process that listens.
LEMMA ReachedListens ==
    ASSUME Reached # 0
    PROVE  \E p \in Procs : proc[p].image = Reached /\ Listens(p)
  BY DEF Reached, Connects, Listening, Listens

\* A process that listens with its file in place is reached, or another is.
LEMMA ListeningReached ==
    ASSUME NEW p \in Procs, Listens(p), proc[p].image # 0, proc[p].path \in Paths, file[proc[p].path] = proc[p].image
    PROVE  Reached # 0
  <1>1. Listening(file[proc[p].path])
    BY DEF Listening, Listens
  <1>2. proc[p].path = 1 \/ proc[p].path = 2
    BY DEF Paths
  <1>3. \A n \in Paths : Connects(n) => file[n] # 0
    BY DEF Connects, Listening
  <1>4. 1 \in Paths /\ 2 \in Paths
    BY DEF Paths
  <1> QED BY <1>1, <1>2, <1>3, <1>4 DEF Reached, Connects

\* What a step of a process does to the CLIs' records: one may learn that it is
\* not alone.
SameClis ==
    \A c \in Clis : /\ cli'[c].cmd = cli[c].cmd /\ cli'[c].pc = cli[c].pc /\ cli'[c].before = cli[c].before
                    /\ cli'[c].asked = cli[c].asked /\ cli'[c].result = cli[c].result
                    /\ cli'[c].alone => cli[c].alone

\* A step of a process that is no (re-)execution: it keeps its image, or ends.
KeepsOrEnds ==
    /\ \A q \in Procs : \/ proc'[q] = Off
                        \/ /\ proc'[q].image = proc[q].image /\ proc[q].pc # "off"
                           /\ proc'[q].pc # "off" /\ proc'[q].path \in Paths
                           /\ Listens(q) => Listens(q)'
    /\ images' = images

\* Images are known and the CLIs' knowledge of them holds while processes go on
\* or end.
LEMMA KeptOrEnded ==
    ASSUME DaemonInv, KeepsOrEnds, SameClis, \A n \in Paths : file'[n] <= images
    PROVE  ImagesKnown' /\ AskedListens'
  <1>1. ImagesKnown'
    <2>1. \A q \in Procs : /\ proc'[q].image <= images
                           /\ proc'[q].pc = "off" => proc'[q] = Off
                           /\ proc'[q].pc # "off" => proc'[q].image # 0 /\ proc'[q].path \in Paths
      BY OffFacts DEF KeepsOrEnds, DaemonInv, ImagesKnown, Types
    <2>2. \A p, q \in Procs : proc'[p].image = proc'[q].image /\ proc'[p].image # 0 => p = q
      BY OffFacts DEF KeepsOrEnds, DaemonInv, ImagesKnown
    <2>3. \A c \in Clis : cli'[c].before <= images /\ cli'[c].asked <= images
      BY Zenon DEF SameClis, DaemonInv, ImagesKnown
    <2> QED BY <2>1, <2>2, <2>3 DEF ImagesKnown, KeepsOrEnds
  <1>2. AskedListens'
    <2> SUFFICES ASSUME NEW c \in Clis, NEW q \in Procs, cli[c].asked # 0, proc'[q].image = cli[c].asked
                 PROVE  Listens(q)'
      BY Zenon DEF AskedListens, SameClis
    <2>1. proc'[q] # Off
      BY OffFacts, Zenon
    <2> QED BY <2>1, Zenon DEF KeepsOrEnds, AskedListens, DaemonInv
  <1> QED BY <1>1, <1>2

\* Nobody begins to listen.
NoNewListener == \A q \in Procs : Listens(q)' => Listens(q)

\* Then a restart that is alone stays so.
LEMMA ListenersKept ==
    ASSUME DaemonInv, KeepsOrEnds, SameClis, NoNewListener
    PROVE  OneListener'
  <1> SUFFICES ASSUME NEW c \in Clis, cli'[c].alone, cli'[c].pc \in {"send", "sent", "poll"}, cli'[c].cmd = "restart",
                      NEW q \in Procs, NEW r \in Procs, cli'[c].before # 0, proc'[r].image = cli'[c].before, Listens(q)'
               PROVE  proc'[q].image = cli'[c].before
    BY Zenon DEF OneListener
  <1>1. /\ cli[c].alone /\ cli[c].pc \in {"send", "sent", "poll"} /\ cli[c].cmd = "restart"
        /\ cli'[c].before = cli[c].before
    BY Zenon DEF SameClis
  <1>2. Listens(q) /\ proc'[q] # Off /\ proc'[r] # Off
    BY <1>1, OffFacts DEF NoNewListener, Listens
  <1>3. proc'[q].image = proc[q].image /\ proc'[r].image = proc[r].image
    BY <1>2, Zenon DEF KeepsOrEnds
  <1> QED BY <1>1, <1>2, <1>3, Zenon DEF DaemonInv, OneListener

\* A new image: its number is new, so nothing that is known of older ones
\* changes, and no file is its own.
LEMMA Executed ==
    ASSUME DaemonInv, NEW p \in Procs, NEW can \in Permissions \cup {{}}, Execute(p, can),
           UNCHANGED <<file, cli, exposed>>
    PROVE  DaemonInv'
  <1>1. /\ images \in Nat /\ ProcTypes /\ CliTypes /\ file \in [Paths -> Nat]
        /\ control' \in [Procs -> SUBSET {"shutdown", "restart"}]
    BY DEF DaemonInv, Types, Execute
  <1>2. ProcTypes'
    BY <1>1 DEF Execute, ProcTypes, Pcs
  <1>3. /\ proc'[p].pc = "check" /\ proc'[p].image = images + 1 /\ proc'[p].path = 1
        /\ Others(p)
        /\ images' = images + 1
    BY <1>1 DEF Execute, ProcTypes, Others
  <1>4. Types'
    BY <1>1, <1>2, <1>3 DEF Types, CliTypes
  <1>5. \A c \in Clis : cli[c].before \in Nat /\ cli[c].asked \in Nat /\ cli[c].before <= images /\ cli[c].asked <= images
    BY <1>1, Zenon DEF DaemonInv, CliTypes, CliRecords, ImagesKnown
  <1>6. \A n \in Paths : file[n] \in Nat /\ file[n] <= images
    BY <1>1 DEF DaemonInv, ImagesKnown
  <1>7. ImagesKnown'
    <2>1. \A q \in Procs : proc[q].image \in Nat /\ proc[q].image <= images
      BY <1>1 DEF ProcTypes, DaemonInv, ImagesKnown
    <2>2. 1 \in Paths
      BY DEF Paths
    <2>3. \A q \in Procs : /\ proc'[q].image <= images'
                           /\ proc'[q].pc = "off" => proc'[q] = Off
                           /\ proc'[q].pc # "off" => proc'[q].image # 0 /\ proc'[q].path \in Paths
      BY <1>1, <1>3, <2>1, <2>2 DEF Others, DaemonInv, ImagesKnown
    <2>4. \A q, r \in Procs : proc'[q].image = proc'[r].image /\ proc'[q].image # 0 => q = r
      BY <1>1, <1>3, <2>1 DEF Others, DaemonInv, ImagesKnown
    <2>5. \A c \in Clis : cli'[c].before <= images' /\ cli'[c].asked <= images'
      BY <1>1, <1>3, <1>5
    <2>6. \A n \in Paths : file'[n] <= images'
      BY <1>1, <1>3, <1>6
    <2> QED BY <2>3, <2>4, <2>5, <2>6 DEF ImagesKnown
  <1>8. \A q \in Procs : q # p => proc'[q] = proc[q]
    BY <1>3 DEF Others
  <1>9. ~Listens(p)'
    BY <1>3 DEF Listens
  <1>10. SocketsOwned'
    <2>1. \A n \in Paths : file'[n] # proc'[p].image
      BY <1>1, <1>3, <1>6
    <2>2. SocketsOwned
      BY DEF DaemonInv
    <2> QED BY <1>3, <1>8, <1>9, <2>1, <2>2 DEF SocketsOwned, Listens, Searches
  <1>11. \A c \in Clis : proc'[p].image # cli[c].asked /\ proc'[p].image # cli[c].before
    BY <1>1, <1>3, <1>5
  <1>12. AskedListens'
    BY <1>8, <1>11, Zenon DEF AskedListens, DaemonInv, Listens
  <1>13. OneListener'
    <2> SUFFICES ASSUME NEW c \in Clis, cli[c].alone, cli[c].pc \in {"send", "sent", "poll"}, cli[c].cmd = "restart",
                        NEW q \in Procs, NEW r \in Procs, cli[c].before # 0, proc'[r].image = cli[c].before, Listens(q)'
                 PROVE  proc'[q].image = cli[c].before
      BY Zenon DEF OneListener
    <2>1. proc'[q] = proc[q] /\ proc'[r] = proc[r]
      BY <1>8, <1>9, <1>11, Zenon
    <2>2. Listens(q) /\ proc[r].image = cli[c].before
      BY <2>1 DEF Listens
    <2>3. proc[q].image = cli[c].before
      BY <2>2, Zenon DEF OneListener, DaemonInv
    <2> QED BY <2>1, <2>3
  <1> QED BY <1>4, <1>7, <1>10, <1>12, <1>13 DEF DaemonInv

-----------------------------------------------------------------------------
(* A CLI's step                                                            *)

OtherClis(c) == \A d \in Clis \ {c} : cli'[d] = cli[d]

\* What Finish does, field by field.
LEMMA Finishes ==
    ASSUME CliTypes, NEW c \in Clis, NEW result \in {"failed", "stopped", "restarted"}, Finish(c, result)
    PROVE  /\ CliTypes' /\ OtherClis(c)
           /\ cli'[c].pc = "done" /\ cli'[c].result = result /\ cli'[c].cmd = cli[c].cmd
           /\ cli'[c].before = cli[c].before /\ cli'[c].asked = cli[c].asked /\ cli'[c].alone = cli[c].alone
  BY ZenonT(30) DEF CliTypes, CliRecords, Finish, OtherClis

\* What the request for the status does.
LEMMA StatusAsked ==
    ASSUME CliTypes, file \in [Paths -> Nat], NEW c \in Clis, AskStatus(c), Reached # 0
    PROVE  /\ CliTypes' /\ OtherClis(c)
           /\ cli'[c].pc = "send" /\ cli'[c].result = cli[c].result /\ cli'[c].cmd = cli[c].cmd
           /\ cli'[c].before = Reached /\ cli'[c].asked = cli[c].asked
           /\ cli'[c].alone = \A p \in Procs : Listening(proc[p].image) => proc[p].image = Reached
  <1>1. Reached \in Nat
    BY DEF Reached, Paths
  <1> DEFINE alone == \A p \in Procs : Listening(proc[p].image) => proc[p].image = Reached
  <1>2. cli' = [cli EXCEPT ![c].pc = "send", ![c].before = Reached, ![c].alone = alone]
    BY DEF AskStatus
  <1>3. alone \in BOOLEAN
    OBVIOUS
  <1> HIDE DEF alone
  <1>4. /\ CliTypes' /\ OtherClis(c)
        /\ cli'[c].pc = "send" /\ cli'[c].result = cli[c].result /\ cli'[c].cmd = cli[c].cmd
        /\ cli'[c].before = Reached /\ cli'[c].asked = cli[c].asked /\ cli'[c].alone = alone
    <2>1. OtherClis(c)
      BY <1>2 DEF CliTypes, OtherClis
    <2>2. cli'[c].pc = "send" /\ cli'[c].before = Reached /\ cli'[c].alone = alone
      BY <1>2 DEF CliTypes
    <2>3. cli'[c].result = cli[c].result /\ cli'[c].cmd = cli[c].cmd /\ cli'[c].asked = cli[c].asked
      BY <1>2 DEF CliTypes
    <2>4. CliTypes'
      <3> DEFINE r == [cli[c] EXCEPT !.pc = "send", !.before = Reached, !.alone = alone]
      <3>1. cli' = [cli EXCEPT ![c] = r]
        BY <1>2, Zenon
      <3>2. cli[c] \in CliRecords
        BY DEF CliTypes
      <3>3. r \in CliRecords
        BY <1>1, <1>3, <3>2, ZenonT(30) DEF CliRecords
      <3> QED BY <3>1, <3>3 DEF CliTypes
    <2> QED BY <2>1, <2>2, <2>3, <2>4
  <1> QED BY <1>4 DEF alone

\* What sending the command does.
LEMMA CommandSent ==
    ASSUME CliTypes, file \in [Paths -> Nat], NEW c \in Clis, SendCommand(c), Reached # 0
    PROVE  /\ CliTypes' /\ OtherClis(c)
           /\ cli'[c].pc = "sent" /\ cli'[c].result = cli[c].result /\ cli'[c].cmd = cli[c].cmd
           /\ cli'[c].before = cli[c].before /\ cli'[c].asked = Reached /\ cli'[c].alone = cli[c].alone
  <1>1. Reached \in Nat
    BY DEF Reached, Paths
  <1>2. cli' = [cli EXCEPT ![c].pc = "sent", ![c].asked = Reached, ![c].unread = TRUE]
    BY DEF SendCommand
  <1>3. OtherClis(c)
    BY <1>2 DEF CliTypes, OtherClis
  <1>4. cli'[c].pc = "sent" /\ cli'[c].asked = Reached
    BY <1>2 DEF CliTypes
  <1>5. cli'[c].result = cli[c].result /\ cli'[c].cmd = cli[c].cmd /\ cli'[c].before = cli[c].before /\ cli'[c].alone = cli[c].alone
    BY <1>2 DEF CliTypes
  <1>6. CliTypes'
    <2> DEFINE r == [cli[c] EXCEPT !.pc = "sent", !.asked = Reached, !.unread = TRUE]
    <2>1. cli' = [cli EXCEPT ![c] = r]
      BY <1>2, Zenon
    <2>2. cli[c] \in CliRecords
      BY DEF CliTypes
    <2>3. r \in CliRecords
      BY <1>1, <2>2, Zenon DEF CliRecords
    <2> QED BY <2>1, <2>3 DEF CliTypes
  <1> QED BY <1>3, <1>4, <1>5, <1>6

\* What the daemon's handling of the request does to the CLI.
LEMMA ClientHandled ==
    ASSUME CliTypes, NEW c \in Clis, HandleClient(c)
    PROVE  /\ CliTypes' /\ OtherClis(c)
           /\ cli'[c].pc = (IF cli[c].pc = "sent" THEN "poll" ELSE cli[c].pc)
           /\ cli'[c].result = cli[c].result /\ cli'[c].cmd = cli[c].cmd
           /\ cli'[c].before = cli[c].before /\ cli'[c].asked = cli[c].asked /\ cli'[c].alone = cli[c].alone
  BY ZenonT(30) DEF CliTypes, CliRecords, OtherClis, HandleClient

-----------------------------------------------------------------------------
(* The steps of a process                                                  *)

\* A process that moves on, other than to a new image, keeps its image.
LEMMA MoveKeeps ==
    ASSUME DaemonInv, NEW p \in Procs, proc[p].pc # "off", UNCHANGED images,
           NEW pc \in Pcs \ {"off"}, NEW path \in Paths, Listens(p) => pc \in {"api", "run"}, Moved(p, pc, path)
    PROVE  KeepsOrEnds
  <1>1. proc'[p].image = proc[p].image /\ proc'[p].pc # "off" /\ proc'[p].path \in Paths /\ (Listens(p) => Listens(p)')
    BY DEF Moved, Listens
  <1>2. ASSUME NEW q \in Procs, q # p
        PROVE  \/ proc'[q] = Off
               \/ /\ proc'[q].image = proc[q].image /\ proc[q].pc # "off"
                  /\ proc'[q].pc # "off" /\ proc'[q].path \in Paths
                  /\ Listens(q) => Listens(q)'
    <2>1. proc'[q] = proc[q]
      BY <1>2 DEF Moved, Others
    <2> QED BY <2>1 DEF DaemonInv, ImagesKnown, Listens
  <1> QED BY <1>1, <1>2 DEF KeepsOrEnds

\* So it is when one ends.
LEMMA QuitKeeps ==
    ASSUME DaemonInv, NEW p \in Procs, UNCHANGED images, proc'[p] = Off, Others(p)
    PROVE  KeepsOrEnds /\ NoNewListener
  <1>1. ASSUME NEW q \in Procs, q # p
        PROVE  \/ proc'[q] = Off
               \/ /\ proc'[q].image = proc[q].image /\ proc[q].pc # "off"
                  /\ proc'[q].pc # "off" /\ proc'[q].path \in Paths
                  /\ Listens(q) => Listens(q)'
    <2>1. proc'[q] = proc[q]
      BY <1>1 DEF Others
    <2> QED BY <2>1 DEF DaemonInv, ImagesKnown, Listens
  <1>2. NoNewListener
    BY OffFacts DEF NoNewListener, Listens, Others
  <1> QED BY <1>1, <1>2 DEF KeepsOrEnds

\* The end of a process takes no socket file with it.
LEMMA QuitOwned ==
    ASSUME SocketsOwned, NEW p \in Procs, UNCHANGED <<file, exposed>>, proc'[p] = Off, Others(p)
    PROVE  SocketsOwned'
  BY OffFacts DEF SocketsOwned, Searches, Listens, Others

\* Nor does a process that goes on to the next candidate or to bind.
LEMMA SearchOwned ==
    ASSUME SocketsOwned, NEW p \in Procs, Searches(p), UNCHANGED <<file, exposed>>, NEW path,
           Moved(p, "check", path) \/ Moved(p, "bind", path)
    PROVE  SocketsOwned' /\ NoNewListener
  BY DEF SocketsOwned, Searches, Listens, Moved, Others, NoNewListener

\* What is left to show of a step of a process that the CLIs do not notice.
LEMMA ProcStep ==
    ASSUME DaemonInv, KeepsOrEnds, NoNewListener, ProcTypes', UNCHANGED cli, file' \in [Paths -> Nat],
           \A n \in Paths : file'[n] <= images,
           control' \in [Procs -> SUBSET {"shutdown", "restart"}], SocketsOwned'
    PROVE  DaemonInv'
  <1>1. CliTypes' /\ images' \in Nat /\ SameClis
    BY DEF DaemonInv, Types, CliTypes, KeepsOrEnds, SameClis
  <1>2. ImagesKnown' /\ AskedListens' /\ OneListener'
    BY <1>1, KeptOrEnded, ListenersKept, Zenon
  <1> QED BY <1>1, <1>2 DEF DaemonInv, Types

\* A process quits and leaves the files as they are.
LEMMA QuitStep ==
    ASSUME DaemonInv, NEW p \in Procs, Quit(p), UNCHANGED <<file, cli, images, exposed>>,
           control' \in [Procs -> SUBSET {"shutdown", "restart"}]
    PROVE  DaemonInv'
  <1>1. ProcTypes /\ SocketsOwned /\ file' \in [Paths -> Nat] /\ \A n \in Paths : file'[n] <= images
    BY DEF DaemonInv, Types, ImagesKnown
  <1>2. ProcTypes' /\ proc'[p] = Off /\ Others(p)
    BY <1>1, QuitMoves
  <1>3. KeepsOrEnds /\ NoNewListener
    BY <1>2, QuitKeeps, Zenon
  <1>4. SocketsOwned'
    BY <1>1, <1>2, QuitOwned, Zenon
  <1> QED BY <1>1, <1>2, <1>3, <1>4, ProcStep, Zenon

\* bind_daemon_socket trying the next candidate.
LEMMA NextCandidateStep ==
    ASSUME DaemonInv, NEW p \in Procs, Searches(p), NextCandidate(p), UNCHANGED <<file, control, cli, images, exposed>>
    PROVE  DaemonInv'
  <1>1. /\ ProcTypes /\ proc[p].pc # "off" /\ ~Listens(p) /\ SocketsOwned
        /\ file' \in [Paths -> Nat] /\ \A n \in Paths : file'[n] <= images
        /\ control' \in [Procs -> SUBSET {"shutdown", "restart"}]
    BY DEF DaemonInv, Types, ImagesKnown, Searches, Listens
  <1>2. CASE Quit(p)
    BY <1>1, <1>2, QuitStep
  <1>3. CASE Goto(p, "check", 2)
    <2>1. ProcTypes' /\ Moved(p, "check", 2)
      BY <1>1, <1>3, GotoMoves DEF Pcs
    <2>2. KeepsOrEnds
      BY <1>1, <2>1, MoveKeeps DEF Pcs, Paths
    <2>3. SocketsOwned' /\ NoNewListener
      BY <1>1, <2>1, SearchOwned
    <2> QED BY <1>1, <2>1, <2>2, <2>3, ProcStep
  <1> QED BY <1>2, <1>3 DEF NextCandidate

\* prepare_socket_path up to its decision.
LEMMA CheckPathStep ==
    ASSUME DaemonInv, NEW p \in Procs, CheckPath(p)
    PROVE  DaemonInv'
  <1> DEFINE path == proc[p].path
  <1>1. /\ ProcTypes /\ proc[p].pc = "check" /\ Searches(p) /\ ~Listens(p) /\ SocketsOwned /\ path \in Paths
        /\ UNCHANGED <<file, control, cli, images, exposed>>
        /\ file' \in [Paths -> Nat] /\ \A n \in Paths : file'[n] <= images
        /\ control' \in [Procs -> SUBSET {"shutdown", "restart"}]
    BY DEF DaemonInv, Types, ImagesKnown, CheckPath, Searches, Listens
  <1>2. CASE NextCandidate(p)
    BY <1>1, <1>2, NextCandidateStep
  <1>3. CASE Quit(p)
    BY <1>1, <1>3, QuitStep
  <1>4. CASE Goto(p, "bind", path)
    <2>1. ProcTypes' /\ Moved(p, "bind", path)
      BY <1>1, <1>4, GotoMoves DEF Pcs, Paths
    <2>2. KeepsOrEnds
      BY <1>1, <2>1, MoveKeeps DEF Pcs
    <2>3. SocketsOwned' /\ NoNewListener
      BY <1>1, <2>1, SearchOwned
    <2> QED BY <1>1, <2>1, <2>2, <2>3, ProcStep
  <1>5. CASE Goto(p, "remove", path) /\ ~Connects(path)
    <2>1. ProcTypes' /\ Moved(p, "remove", path)
      BY <1>1, <1>5, GotoMoves DEF Pcs, Paths
    <2>2. KeepsOrEnds
      BY <1>1, <2>1, MoveKeeps DEF Pcs
    <2>3. ASSUME NEW q \in Procs, Listens(q) PROVE proc[q].image # file[path]
      <3>1. proc[q].image # 0
        BY <2>3 DEF Listens, DaemonInv, ImagesKnown
      <3> QED BY <1>5, <2>3, <3>1 DEF Connects, Listening, Listens
    <2> HIDE DEF path
    <2>4. SocketsOwned' /\ NoNewListener
      BY <1>1, <2>1, <2>3 DEF SocketsOwned, Searches, Listens, Moved, Others, NoNewListener
    <2> QED BY <1>1, <2>1, <2>2, <2>4, ProcStep
  <1> QED BY <1>2, <1>3, <1>4, <1>5 DEF CheckPath, SetPc

\* remove_file: the file was stale when it was looked at and still is, or it is
\* one of an image that is exposed.
LEMMA RemoveStaleStep ==
    ASSUME DaemonInv, NEW p \in Procs, RemoveStale(p)
    PROVE  DaemonInv'
  <1> DEFINE path == proc[p].path
  <1>1. /\ ProcTypes /\ proc[p].pc = "remove" /\ Searches(p) /\ ~Listens(p) /\ SocketsOwned /\ path \in Paths
        /\ UNCHANGED <<control, cli, images, exposed>> /\ file \in [Paths -> Nat] /\ images \in Nat
        /\ control' \in [Procs -> SUBSET {"shutdown", "restart"}]
    BY DEF DaemonInv, Types, ImagesKnown, RemoveStale, Searches, Listens
  <1>2. CASE NextCandidate(p) /\ file' = file
    BY <1>1, <1>2, NextCandidateStep
  <1>3. CASE Goto(p, "bind", path) /\ file' = [file EXCEPT ![path] = 0]
    <2>1. ProcTypes' /\ Moved(p, "bind", path)
      BY <1>1, <1>3, GotoMoves DEF Pcs, Paths
    <2>2. KeepsOrEnds
      BY <1>1, <2>1, MoveKeeps DEF Pcs
    <2>3. file' \in [Paths -> Nat] /\ file'[path] = 0 /\ \A n \in Paths \ {path} : file'[n] = file[n]
      BY <1>1, <1>3
    <2>4. \A n \in Paths : file'[n] <= images
      BY <1>1, <2>3 DEF DaemonInv, ImagesKnown
    <2>5. \A q \in Procs : proc[q].pc # "off" => proc[q].path \in Paths /\ proc[q].image # 0
      BY DEF DaemonInv, ImagesKnown
    <2>6. \A q \in Procs : q # p => proc'[q] = proc[q]
      BY <2>1 DEF Moved, Others
    <2>7. proc'[p].pc = "bind" /\ proc'[p].image = proc[p].image
      BY <2>1 DEF Moved
    <2> HIDE DEF path
    <2>8. SocketsOwned'
      <3>1. ASSUME NEW q \in Procs, NEW r \in Procs, proc'[q].pc = "remove", Listens(r)',
                   file'[proc'[q].path] = proc'[r].image
            PROVE  proc'[r].image \in exposed'
        <4>1. q # p /\ r # p /\ proc'[q] = proc[q] /\ proc'[r] = proc[r]
          BY <2>6, <2>7, <3>1 DEF Listens
        <4>2. proc[q].path \in Paths /\ proc[r].image # 0 /\ Listens(r)
          BY <2>5, <3>1, <4>1 DEF Listens
        <4>3. proc[q].path # path
          BY <2>3, <3>1, <4>1, <4>2
        <4>4. file[proc[q].path] = proc[r].image
          BY <2>3, <3>1, <4>1, <4>2, <4>3
        <4> QED BY <1>1, <3>1, <4>1, <4>2, <4>4 DEF SocketsOwned
      <3>2. ASSUME NEW q \in Procs, Listens(q)', proc'[q].image \notin exposed' PROVE file'[proc'[q].path] = proc'[q].image
        <4>1. q # p /\ proc'[q] = proc[q] /\ Listens(q) /\ proc[q].path \in Paths
          BY <2>5, <2>6, <2>7, <3>2 DEF Listens
        <4>2. file[proc[q].path] = proc[q].image
          BY <1>1, <3>2, <4>1 DEF SocketsOwned
        <4>3. proc[q].path # path
          BY <1>1, <3>2, <4>1, <4>2 DEF SocketsOwned, path
        <4> QED BY <2>3, <4>1, <4>2, <4>3
      <3>3. ASSUME NEW q \in Procs, NEW n \in Paths, Searches(q)' PROVE file'[n] # proc'[q].image
        <4>1. Searches(q) /\ proc'[q].image = proc[q].image /\ proc[q].image # 0
          BY <1>1, <2>5, <2>6, <2>7, <3>3 DEF Searches
        <4>2. file'[n] = 0 \/ file'[n] = file[n]
          BY <2>3
        <4> QED BY <1>1, <4>1, <4>2 DEF SocketsOwned
      <3> QED BY <3>1, <3>2, <3>3 DEF SocketsOwned
    <2>9. NoNewListener
      BY <2>6, <2>7 DEF NoNewListener, Listens
    <2> QED BY <1>1, <2>1, <2>2, <2>3, <2>4, <2>8, <2>9, ProcStep
  <1> QED BY <1>1, <1>2, <1>3, Zenon DEF RemoveStale, SetPc

\* UnixListener::bind: no listening daemon has a socket where no file is; a
\* process about to remove the new file exposes it; a restart that knows an image
\* that is up is not alone any more.
LEMMA BindSocketStep ==
    ASSUME DaemonInv, NEW p \in Procs, BindSocket(p)
    PROVE  DaemonInv'
  <1> DEFINE path == proc[p].path
  <1>1. /\ ProcTypes /\ CliTypes /\ proc[p].pc = "bind" /\ ~Listens(p) /\ SocketsOwned /\ path \in Paths
        /\ UNCHANGED <<control, images>> /\ file \in [Paths -> Nat] /\ images \in Nat
        /\ control' \in [Procs -> SUBSET {"shutdown", "restart"}]
    BY DEF DaemonInv, Types, ImagesKnown, BindSocket, Listens
  <1>2. CASE Quit(p) /\ UNCHANGED <<file, cli, exposed>>
    BY <1>1, <1>2, QuitStep
  <1>3. CASE /\ file[path] = 0 /\ Goto(p, "api", path) /\ file' = [file EXCEPT ![path] = proc[p].image]
             /\ cli' = [c \in Clis |-> [cli[c] EXCEPT !.alone = @ /\ ~Alive(cli[c].before)]]
             /\ exposed' = IF \E q \in Procs : proc[q].pc = "remove" /\ proc[q].path = path
                            THEN exposed \cup {proc[p].image} ELSE exposed
    <2>1. ProcTypes' /\ Moved(p, "api", path)
      BY <1>1, <1>3, GotoMoves DEF Pcs, Paths
    <2>2. KeepsOrEnds
      BY <1>1, <2>1, MoveKeeps DEF Pcs
    <2>3. file' \in [Paths -> Nat] /\ file'[path] = proc[p].image /\ \A n \in Paths \ {path} : file'[n] = file[n]
      BY <1>1, <1>3 DEF ProcTypes
    <2>4. \A n \in Paths : file'[n] <= images
      BY <2>3 DEF DaemonInv, ImagesKnown
    <2>5. /\ \A q \in Procs : proc[q].pc # "off" => proc[q].path \in Paths /\ proc[q].image # 0
          /\ \A q \in Procs : proc[q].image = proc[p].image => q = p
      BY <1>1 DEF DaemonInv, ImagesKnown
    <2>6. \A q \in Procs : q # p => proc'[q] = proc[q]
      BY <2>1 DEF Moved, Others
    <2>7. proc'[p].pc = "api" /\ proc'[p].image = proc[p].image /\ proc'[p].path = path
      BY <2>1 DEF Moved
    <2>8. /\ \A x : x \in exposed => x \in exposed'
          /\ \A x : x \in exposed' => x \in exposed \/ x = proc[p].image
          /\ (\E q \in Procs : proc[q].pc = "remove" /\ proc[q].path = path) => proc[p].image \in exposed'
      BY <1>3
    <2>9. ASSUME NEW c \in Clis
          PROVE  /\ cli'[c] \in CliRecords
                 /\ cli'[c].cmd = cli[c].cmd /\ cli'[c].pc = cli[c].pc /\ cli'[c].before = cli[c].before
                 /\ cli'[c].asked = cli[c].asked /\ cli'[c].result = cli[c].result
                 /\ cli'[c].alone => cli[c].alone /\ ~Alive(cli[c].before)
      <3> DEFINE alone == cli[c].alone /\ ~Alive(cli[c].before)
      <3>1. cli[c] \in CliRecords /\ cli'[c] = [cli[c] EXCEPT !.alone = alone]
        BY <1>1, <1>3, Zenon DEF CliTypes
      <3>2. alone \in BOOLEAN /\ (alone => cli[c].alone /\ ~Alive(cli[c].before))
        OBVIOUS
      <3> HIDE DEF alone
      <3> QED BY <3>1, <3>2, Zenon DEF CliRecords
    <2>10. CliTypes' /\ SameClis
      <3>1. cli' = [c \in Clis |-> cli'[c]]
        BY <1>3, Zenon
      <3> QED BY <2>9, <3>1, Zenon DEF CliTypes, SameClis
    <2> HIDE DEF path
    <2>11. SocketsOwned'
      <3>1. ASSUME NEW q \in Procs, NEW r \in Procs, proc'[q].pc = "remove", Listens(r)',
                   file'[proc'[q].path] = proc'[r].image
            PROVE  proc'[r].image \in exposed'
        <4>1. q # p /\ proc'[q] = proc[q] /\ proc[q].path \in Paths /\ proc'[r].image = proc[r].image
          BY <2>5, <2>6, <2>7, <3>1
        <4>2. CASE r = p
          <5>1. proc[q].path = path
            BY <1>1, <2>3, <3>1, <4>1, <4>2 DEF SocketsOwned, Searches
          <5> QED BY <2>8, <3>1, <4>1, <4>2, <5>1
        <4>3. CASE r # p
          <5>1. proc'[r] = proc[r] /\ Listens(r)
            BY <2>6, <3>1, <4>3 DEF Listens
          <5>2. proc[q].path # path
            BY <2>3, <2>5, <3>1, <4>1, <4>3
          <5>3. file[proc[q].path] = proc[r].image
            BY <2>3, <3>1, <4>1, <5>2
          <5> QED BY <1>1, <2>8, <3>1, <4>1, <5>1, <5>3 DEF SocketsOwned
        <4> QED BY <4>2, <4>3
      <3>2. ASSUME NEW q \in Procs, Listens(q)', proc'[q].image \notin exposed' PROVE file'[proc'[q].path] = proc'[q].image
        <4>1. CASE q = p
          BY <2>3, <2>7, <4>1
        <4>2. CASE q # p
          <5>1. proc'[q] = proc[q] /\ Listens(q) /\ proc[q].path \in Paths /\ proc[q].image # 0
            BY <2>5, <2>6, <3>2, <4>2 DEF Listens
          <5>2. file[proc[q].path] = proc[q].image
            BY <1>1, <2>8, <3>2, <5>1 DEF SocketsOwned
          <5>3. proc[q].path # path
            BY <1>3, <5>1, <5>2 DEF path
          <5> QED BY <2>3, <5>1, <5>2, <5>3
        <4> QED BY <4>1, <4>2
      <3>3. ASSUME NEW q \in Procs, NEW n \in Paths, Searches(q)' PROVE file'[n] # proc'[q].image
        <4>1. q # p /\ Searches(q) /\ proc'[q] = proc[q]
          BY <2>6, <2>7, <3>3 DEF Searches
        <4>2. file'[n] = proc[p].image \/ file'[n] = file[n]
          BY <2>3
        <4> QED BY <1>1, <2>5, <4>1, <4>2 DEF SocketsOwned
      <3> QED BY <3>1, <3>2, <3>3 DEF SocketsOwned
    <2>12. ImagesKnown' /\ AskedListens'
      BY <2>2, <2>4, <2>10, KeptOrEnded, Zenon
    <2>13. OneListener'
      <3> SUFFICES ASSUME NEW c \in Clis, cli'[c].alone, cli'[c].before # 0,
                          NEW q \in Procs, proc'[q].image = cli'[c].before
                   PROVE  FALSE
        BY Zenon DEF OneListener
      <3>1. proc'[q].image = proc[q].image
        BY <2>6, <2>7, Zenon
      <3> QED BY <2>9, <3>1, Zenon DEF Alive
    <2>14. images' \in Nat
      BY <1>1
    <2> QED BY <1>1, <2>1, <2>3, <2>10, <2>11, <2>12, <2>13, <2>14 DEF DaemonInv, Types
  <1> QED BY <1>2, <1>3, Zenon DEF BindSocket, SetPc

\* api::initialize.
LEMMA BindApiStep ==
    ASSUME DaemonInv, NEW p \in Procs, BindApi(p)
    PROVE  DaemonInv'
  <1> DEFINE path == proc[p].path
  <1>1. /\ ProcTypes /\ proc[p].pc = "api" /\ SocketsOwned /\ path \in Paths
        /\ UNCHANGED <<file, control, cli, images, exposed>> /\ file' \in [Paths -> Nat]
        /\ \A n \in Paths : file'[n] <= images /\ control' \in [Procs -> SUBSET {"shutdown", "restart"}]
    BY DEF DaemonInv, Types, ImagesKnown, BindApi
  <1>2. CASE Quit(p)
    BY <1>1, <1>2, QuitStep
  <1>3. CASE Goto(p, "run", path)
    <2>1. ProcTypes' /\ Moved(p, "run", path)
      BY <1>1, <1>3, GotoMoves DEF Pcs, Paths
    <2>2. KeepsOrEnds
      BY <1>1, <2>1, MoveKeeps DEF Pcs
    <2>3. \A q \in Procs : proc'[q].image = proc[q].image /\ proc'[q].path = proc[q].path
                           /\ (proc'[q].pc = proc[q].pc \/ (q = p /\ proc'[q].pc = "run"))
      BY <2>1 DEF Moved, Others
    <2>4. NoNewListener
      BY <1>1, <2>3 DEF NoNewListener, Listens
    <2>5. \A q \in Procs : proc'[q].pc = "remove" \/ Searches(q)' => proc'[q].pc = proc[q].pc
      BY <2>3 DEF Searches
    <2>6. SocketsOwned'
      BY <1>1, <2>3, <2>4, <2>5 DEF SocketsOwned, Searches, NoNewListener
    <2> QED BY <1>1, <2>1, <2>2, <2>4, <2>6, ProcStep
  <1> QED BY <1>2, <1>3 DEF BindApi, SetPc

\* A process ends, by Ctrl+C, by a request or by being killed.
LEMMA EndStep ==
    ASSUME DaemonInv, NEW p \in Procs, End(p)
    PROVE  DaemonInv'
  <1>1. Quit(p) /\ UNCHANGED <<file, cli, images, exposed>> /\ control' \in [Procs -> SUBSET {"shutdown", "restart"}]
    BY DEF DaemonInv, Types, End
  <1> QED BY <1>1, QuitStep

\* A process is started as the daemon.
LEMMA StartStep ==
    ASSUME DaemonInv, NEW p \in Procs, Start(p)
    PROVE  DaemonInv'
  <1>1. PICK can \in Permissions : Execute(p, can)
    BY DEF Start
  <1> QED BY <1>1, Executed DEF Start

\* reexec, or its failure.
LEMMA RestartStep ==
    ASSUME DaemonInv, NEW p \in Procs, Restart(p)
    PROVE  DaemonInv'
  <1>1. UNCHANGED <<file, cli, exposed>> /\ Types /\ ImagesKnown /\ SocketsOwned
    BY DEF Restart, DaemonInv
  <1>2. CASE Execute(p, proc[p].can)
    <2>1. proc[p].can \in Permissions \cup {{}}
      BY <1>1 DEF Types, ProcTypes
    <2> QED BY <1>1, <1>2, <2>1, Executed
  <1>3. CASE control' = [control EXCEPT ![p] = @ \ {"restart"}] /\ UNCHANGED <<proc, apiPort, images>>
    <2>1. /\ control' \in [Procs -> SUBSET {"shutdown", "restart"}] /\ ProcTypes' /\ file' \in [Paths -> Nat]
          /\ \A n \in Paths : file'[n] <= images
      BY <1>1, <1>3 DEF Types, ProcTypes, ImagesKnown
    <2>2. KeepsOrEnds /\ NoNewListener
      BY <1>1, <1>3 DEF KeepsOrEnds, DaemonInv, ImagesKnown, Listens, NoNewListener
    <2>3. SocketsOwned'
      BY <1>1, <1>3 DEF SocketsOwned, Searches, Listens
    <2> QED BY <1>1, <2>1, <2>2, <2>3, ProcStep
  <1> QED BY <1>2, <1>3 DEF Restart

-----------------------------------------------------------------------------
(* The steps of a CLI                                                      *)

\* What the invariant says of one CLI.
CliOK(c) ==
    /\ cli[c].before <= images /\ cli[c].asked <= images
    /\ \A p \in Procs : cli[c].asked # 0 /\ proc[p].image = cli[c].asked => Listens(p)
    /\ cli[c].alone /\ cli[c].pc \in {"send", "sent", "poll"} /\ cli[c].cmd = "restart" =>
           \A p, q \in Procs : cli[c].before # 0 /\ proc[q].image = cli[c].before /\ Listens(p) =>
                                proc[p].image = cli[c].before

\* The invariant says it of every CLI.
LEMMA CliParts ==
    ASSUME DaemonInv, NEW c \in Clis
    PROVE  CliOK(c)
  BY Zenon DEF CliOK, DaemonInv, ImagesKnown, AskedListens, OneListener

\* What is left to show of a step of a CLI.
LEMMA CliStep ==
    ASSUME DaemonInv, NEW c \in Clis, UNCHANGED <<proc, file, images, exposed>>, CliTypes', OtherClis(c), CliOK(c)',
           control' \in [Procs -> SUBSET {"shutdown", "restart"}]
    PROVE  DaemonInv'
  <1>1. \A d \in Clis : CliOK(d)'
    <2> SUFFICES ASSUME NEW d \in Clis, d # c PROVE CliOK(d)'
      OBVIOUS
    <2>1. CliOK(d) /\ cli'[d] = cli[d]
      BY CliParts DEF OtherClis
    <2>2. proc' = proc /\ images' = images
      OBVIOUS
    <2> QED BY <2>1, <2>2 DEF CliOK, Listens
  <1>2. Types' /\ SocketsOwned'
    BY DEF DaemonInv, Types, ProcTypes, SocketsOwned, Searches, Listens
  <1>3. ImagesKnown'
    BY <1>1, Zenon DEF CliOK, ImagesKnown, DaemonInv
  <1>4. AskedListens' /\ OneListener'
    BY <1>1, Zenon DEF CliOK, AskedListens, OneListener
  <1> QED BY <1>2, <1>3, <1>4 DEF DaemonInv

\* A CLI has its result.
LEMMA FinishStep ==
    ASSUME DaemonInv, NEW c \in Clis, NEW result \in {"failed", "stopped", "restarted"}, Finish(c, result),
           UNCHANGED <<proc, file, control, images, exposed>>
    PROVE  DaemonInv'
  <1>1. CliTypes /\ control' \in [Procs -> SUBSET {"shutdown", "restart"}] /\ CliOK(c)
    BY CliParts DEF DaemonInv, Types
  <1>2. /\ CliTypes' /\ OtherClis(c)
        /\ cli'[c].pc = "done" /\ cli'[c].result = result /\ cli'[c].cmd = cli[c].cmd
        /\ cli'[c].before = cli[c].before /\ cli'[c].asked = cli[c].asked /\ cli'[c].alone = cli[c].alone
    BY <1>1, Finishes
  <1>3. CliOK(c)'
    BY <1>1, <1>2, ZenonT(30) DEF CliOK, Listens
  <1> QED BY <1>1, <1>2, <1>3, CliStep

\* The image reached is known, and its process is the only one that has it.
LEMMA ReachedKnown ==
    ASSUME DaemonInv, Reached # 0
    PROVE  Reached <= images /\ \A p \in Procs : proc[p].image = Reached => Listens(p)
  <1>1. PICK p \in Procs : proc[p].image = Reached /\ Listens(p)
    BY ReachedListens
  <1> QED BY <1>1 DEF DaemonInv, ImagesKnown

\* restart asks for the status.
LEMMA AskStatusStep ==
    ASSUME DaemonInv, NEW c \in Clis, AskStatus(c)
    PROVE  DaemonInv'
  <1>1. /\ CliTypes /\ file \in [Paths -> Nat] /\ CliOK(c) /\ cli[c].pc = "status"
        /\ UNCHANGED <<proc, file, control, images, exposed>> /\ control' \in [Procs -> SUBSET {"shutdown", "restart"}]
    BY CliParts DEF DaemonInv, Types, AskStatus
  <1>2. CASE Reached = 0
    BY <1>1, <1>2, FinishStep, Zenon DEF AskStatus
  <1>3. CASE Reached # 0
    <2> DEFINE reached == Reached
    <2>1. /\ CliTypes' /\ OtherClis(c)
          /\ cli'[c].pc = "send" /\ cli'[c].result = cli[c].result /\ cli'[c].cmd = cli[c].cmd
          /\ cli'[c].before = reached /\ cli'[c].asked = cli[c].asked
          /\ cli'[c].alone = \A p \in Procs : Listening(proc[p].image) => proc[p].image = reached
      BY <1>1, <1>3, StatusAsked, Zenon
    <2>2. reached <= images /\ reached # 0
      BY <1>3, ReachedKnown
    <2> HIDE DEF reached
    <2>3. cli'[c].alone => \A p \in Procs : Listens(p)' => proc'[p].image = reached
      <3> SUFFICES ASSUME cli'[c].alone, NEW p \in Procs, Listens(p) PROVE proc[p].image = reached
        BY <1>1, Zenon DEF Listens
      <3>1. proc[p].image # 0
        BY DEF DaemonInv, ImagesKnown, Listens
      <3>2. Listening(proc[p].image)
        BY <3>1 DEF Listening, Listens
      <3> QED BY <2>1, <3>2, Zenon
    <2>4. CliOK(c)'
      BY <1>1, <2>1, <2>2, <2>3, ZenonT(30) DEF CliOK, Listens
    <2> QED BY <1>1, <2>1, <2>4, CliStep
  <1> QED BY <1>2, <1>3

\* A CLI sends its command.
LEMMA SendCommandStep ==
    ASSUME DaemonInv, NEW c \in Clis, SendCommand(c)
    PROVE  DaemonInv'
  <1>1. /\ CliTypes /\ file \in [Paths -> Nat] /\ CliOK(c) /\ cli[c].pc = "send"
        /\ UNCHANGED <<proc, file, control, images, exposed>> /\ control' \in [Procs -> SUBSET {"shutdown", "restart"}]
    BY CliParts DEF DaemonInv, Types, SendCommand
  <1>2. CASE Reached = 0
    BY <1>1, <1>2, FinishStep, Zenon DEF SendCommand
  <1>3. CASE Reached # 0
    <2> DEFINE reached == Reached
    <2>1. /\ CliTypes' /\ OtherClis(c)
          /\ cli'[c].pc = "sent" /\ cli'[c].result = cli[c].result /\ cli'[c].cmd = cli[c].cmd
          /\ cli'[c].before = cli[c].before /\ cli'[c].asked = reached /\ cli'[c].alone = cli[c].alone
      BY <1>1, <1>3, CommandSent
    <2>2. reached <= images /\ reached # 0 /\ \A p \in Procs : proc[p].image = reached => Listens(p)
      BY <1>3, ReachedKnown
    <2> HIDE DEF reached
    <2>3. CliOK(c)'
      BY <1>1, <2>1, <2>2, ZenonT(30) DEF CliOK, Listens
    <2> QED BY <1>1, <2>1, <2>3, CliStep
  <1> QED BY <1>2, <1>3

\* The daemon handles the request.
LEMMA HandleClientStep ==
    ASSUME DaemonInv, NEW c \in Clis, HandleClient(c)
    PROVE  DaemonInv'
  <1>1. CliTypes /\ CliOK(c) /\ UNCHANGED <<proc, file, images, exposed>>
    BY CliParts DEF DaemonInv, Types, HandleClient
  <1>2. control' \in [Procs -> SUBSET {"shutdown", "restart"}]
    BY DEF DaemonInv, Types, HandleClient, Requested
  <1>3. /\ CliTypes' /\ OtherClis(c)
        /\ cli'[c].pc = (IF cli[c].pc = "sent" THEN "poll" ELSE cli[c].pc)
        /\ cli'[c].result = cli[c].result /\ cli'[c].cmd = cli[c].cmd
        /\ cli'[c].before = cli[c].before /\ cli'[c].asked = cli[c].asked /\ cli'[c].alone = cli[c].alone
    BY <1>1, ClientHandled
  <1>4. CliOK(c)'
    BY <1>1, <1>3, ZenonT(30) DEF CliOK, Listens
  <1> QED BY <1>1, <1>2, <1>3, <1>4, CliStep, Zenon

\* stop sees that no socket answers: an image that listens and is not exposed
\* would be reached at its file, and one that was asked and lives listens.
LEMMA StopTrue ==
    ASSUME DaemonInv, NEW c \in Clis, PollStop(c)
    PROVE  StopReport(c)
  <1>1. Reached = 0
    BY DEF PollStop, SocketGone
  <1>2. ASSUME NEW p \in Procs, Listens(p) PROVE proc[p].image \in exposed
    <2>1. proc[p].path \in Paths /\ proc[p].image # 0
      BY <1>2 DEF DaemonInv, ImagesKnown, Listens
    <2>2. file[proc[p].path] # proc[p].image
      BY <1>1, <1>2, <2>1, ListeningReached, Zenon
    <2> QED BY <1>2, <2>2 DEF DaemonInv, SocketsOwned
  <1>3. \A p \in Procs : Listening(proc[p].image) => proc[p].image \in exposed
    BY <1>2, Zenon DEF Listening, Listens
  <1>4. ASSUME Alive(cli[c].asked) PROVE cli[c].asked \in exposed
    <2>1. PICK p \in Procs : cli[c].asked # 0 /\ proc[p].image = cli[c].asked
      BY <1>4 DEF Alive
    <2>2. Listens(p)
      BY <2>1, Zenon DEF DaemonInv, AskedListens
    <2> QED BY <1>2, <2>1, <2>2
  <1> QED BY <1>3, <1>4 DEF StopReport

\* restart reaches another image than before: if the old one were up, that one
\* alone would listen.
LEMMA RestartTrue ==
    ASSUME DaemonInv, NEW c \in Clis, PollRestart(c)
    PROVE  RestartReport(c)
  <1> SUFFICES ASSUME cli[c].alone, Alive(cli[c].before) PROVE FALSE
    BY DEF RestartReport
  <1>1. cli[c].pc = "poll" /\ cli[c].cmd = "restart" /\ Reached # 0 /\ Reached # cli[c].before
    BY DEF PollRestart, Replaced
  <1>2. PICK p \in Procs : proc[p].image = Reached /\ Listens(p)
    BY <1>1, ReachedListens
  <1>3. PICK q \in Procs : cli[c].before # 0 /\ proc[q].image = cli[c].before
    BY DEF Alive
  <1>4. proc[p].image = cli[c].before
    BY <1>1, <1>2, <1>3, Zenon DEF DaemonInv, OneListener
  <1> QED BY <1>1, <1>2, <1>4

\* Results come from the two polls, or are failures.
LEMMA ResultsReported ==
    ASSUME DaemonInv, [DaemonNext]_daemonVars, NEW c \in Clis, cli'[c].result # cli[c].result
    PROVE  cli'[c].result = "failed" \/ (PollStop(c) /\ cli'[c].result = "stopped")
                                     \/ (PollRestart(c) /\ cli'[c].result = "restarted")
  <1>1. CliTypes /\ file \in [Paths -> Nat]
    BY DEF DaemonInv, Types
  <1>2. cli' # cli
    OBVIOUS
  <1>3. ASSUME NEW p \in Procs, BindSocket(p) PROVE FALSE
    <2>1. cli' = [d \in Clis |-> [cli[d] EXCEPT !.alone = @ /\ ~Alive(cli[d].before)]]
      BY <1>2, <1>3 DEF BindSocket
    <2> DEFINE alone == cli[c].alone /\ ~Alive(cli[c].before)
    <2>2. cli[c] \in CliRecords /\ cli'[c] = [cli[c] EXCEPT !.alone = alone]
      BY <1>1, <2>1, Zenon DEF CliTypes
    <2> HIDE DEF alone
    <2>3. cli'[c].result = cli[c].result
      BY <2>2, Zenon DEF CliRecords
    <2> QED BY <2>3
  <1>4. ASSUME NEW d \in Clis, NEW result \in {"failed", "stopped", "restarted"}, Finish(d, result)
        PROVE  d = c /\ cli'[c].result = result
    BY <1>1, <1>4, Finishes DEF OtherClis
  <1>5. ASSUME NEW d \in Clis, AskStatus(d) PROVE cli'[c].result = "failed"
    <2>1. CASE Reached = 0
      BY <1>4, <1>5, <2>1 DEF AskStatus
    <2>2. CASE Reached # 0
      BY <1>1, <1>5, <2>2, StatusAsked, Zenon DEF OtherClis
    <2> QED BY <2>1, <2>2
  <1>6. ASSUME NEW d \in Clis, SendCommand(d) PROVE cli'[c].result = "failed"
    <2>1. CASE Reached = 0
      BY <1>4, <1>6, <2>1 DEF SendCommand
    <2>2. CASE Reached # 0
      BY <1>1, <1>6, <2>2, CommandSent DEF OtherClis
    <2> QED BY <2>1, <2>2
  <1>7. ASSUME NEW d \in Clis, HandleClient(d) PROVE FALSE
    BY <1>1, <1>7, ClientHandled DEF OtherClis
  <1>8. ASSUME NEW d \in Clis, PollStop(d) PROVE PollStop(c) /\ cli'[c].result = "stopped"
    BY <1>4, <1>8 DEF PollStop
  <1>9. ASSUME NEW d \in Clis, PollRestart(d) PROVE PollRestart(c) /\ cli'[c].result = "restarted"
    BY <1>4, <1>9 DEF PollRestart
  <1>10. ASSUME NEW d \in Clis, Timeout(d) PROVE cli'[c].result = "failed"
    BY <1>4, <1>10 DEF Timeout
  <1>11. ASSUME NEW p \in Procs, Start(p) \/ CheckPath(p) \/ RemoveStale(p) \/ BindApi(p)
                                \/ End(p) \/ Shutdown(p) \/ Restart(p)
         PROVE  FALSE
    BY <1>2, <1>11, Zenon DEF Start, CheckPath, RemoveStale, BindApi, Shutdown, End, Restart
  <1> QED BY <1>2, <1>3, <1>5, <1>6, <1>7, <1>8, <1>9, <1>10, <1>11, Zenon DEF DaemonNext, AllStopped, daemonVars

-----------------------------------------------------------------------------
(* The theorems                                                            *)

\* The initial state has the invariant.
LEMMA DaemonInitInv == DaemonInit => DaemonInv
  <1> SUFFICES ASSUME NEW commands \in [Clis -> Commands], NEW left \in [Paths -> {0, 1}], DaemonFrom(commands, left)
               PROVE  DaemonInv
    BY DEF DaemonInit
  <1>1. \A p \in Procs : proc[p] = Off
    BY Zenon DEF DaemonFrom
  <1>2. \A c \in Clis : cli[c].before = 0 /\ cli[c].asked = 0 /\ cli[c].pc \in {"send", "status"}
    BY Zenon DEF DaemonFrom
  <1>3. ProcTypes
    BY OffFacts, Zenon DEF DaemonFrom, ProcTypes
  <1>4. CliTypes
    BY Zenon DEF DaemonFrom, CliTypes, CliRecords
  <1>5. images = 1 /\ file = left /\ control = [p \in Procs |-> {}]
    BY Zenon DEF DaemonFrom
  <1>6. Types
    BY <1>3, <1>4, <1>5 DEF Types
  <1>7. ImagesKnown
    <2>1. \A p \in Procs : proc[p].image = 0 /\ proc[p].pc = "off"
      BY <1>1, OffFacts
    <2>2. \A c \in Clis : cli[c].before <= images /\ cli[c].asked <= images
      <3>1. images = 1 /\ 0 <= 1
        BY <1>5
      <3> QED BY <1>2, <3>1, Zenon
    <2>3. /\ \A p \in Procs : proc[p].image <= images
          /\ \A n \in Paths : file[n] <= images
      BY <1>5, <2>1
    <2> QED BY <1>1, <2>1, <2>2, <2>3 DEF ImagesKnown
  <1>8. SocketsOwned
    BY <1>1, OffFacts DEF SocketsOwned, Searches, Listens
  <1>9. AskedListens /\ OneListener
    BY <1>1, <1>2, Zenon DEF AskedListens, OneListener
  <1> QED BY <1>6, <1>7, <1>8, <1>9 DEF DaemonInv

\* Every step keeps it.
LEMMA DaemonNextInv == DaemonInv /\ [DaemonNext]_daemonVars => DaemonInv'
  <1> SUFFICES ASSUME DaemonInv, [DaemonNext]_daemonVars PROVE DaemonInv'
    OBVIOUS
  <1>1. ASSUME NEW p \in Procs, Start(p) \/ CheckPath(p) \/ RemoveStale(p) \/ BindSocket(p) \/ BindApi(p)
                                \/ End(p) \/ Shutdown(p) \/ Restart(p)
        PROVE  DaemonInv'
    BY <1>1, StartStep, CheckPathStep, RemoveStaleStep, BindSocketStep, BindApiStep, EndStep, RestartStep, Zenon DEF Shutdown
  <1>2. ASSUME NEW c \in Clis, PollStop(c) \/ PollRestart(c) \/ Timeout(c)
        PROVE  DaemonInv'
    BY <1>2, FinishStep DEF PollStop, PollRestart, Timeout
  <1>3. ASSUME NEW c \in Clis, AskStatus(c) \/ SendCommand(c) \/ HandleClient(c)
        PROVE  DaemonInv'
    BY <1>3, AskStatusStep, SendCommandStep, HandleClientStep, Zenon
  <1>4. CASE UNCHANGED daemonVars
    <2>1. Types' /\ ImagesKnown'
      BY <1>4, Zenon DEF daemonVars, DaemonInv, Types, ProcTypes, CliTypes, ImagesKnown
    <2>2. SocketsOwned'
      BY <1>4, Zenon DEF daemonVars, DaemonInv, SocketsOwned, Searches, Listens
    <2>3. AskedListens' /\ OneListener'
      BY <1>4 DEF daemonVars, DaemonInv, AskedListens, OneListener, Listens
    <2> QED BY <2>1, <2>2, <2>3 DEF DaemonInv
  <1> QED BY <1>1, <1>2, <1>3, <1>4, Zenon DEF DaemonNext, AllStopped

\* Every reachable state has it.
THEOREM DaemonInvariant == DaemonSpec => []DaemonInv
  BY DaemonInitInv, DaemonNextInv, PTL DEF DaemonSpec

\* A daemon that has bound its socket keeps its socket file, for any number of
\* processes and images and whatever they do at the same time, unless it bound the
\* path between another process's look at the stale file there and its removal
\* (socket::server::prepare_socket_path): that removal is the only one that takes a
\* live daemon's file.
THEOREM RunningDaemonReachable == DaemonSpec => []RunningReachable
  <1>1. DaemonInv => RunningReachable
    BY DEF DaemonInv, SocketsOwned, RunningReachable, Listens
  <1> QED BY <1>1, DaemonInvariant, PTL

\* When stop reports success, the image it asked is gone and no daemon listens,
\* but for one that bound its socket in that race; processes that have not bound
\* theirs, a re-executed daemon among them, may be under way. When restart reports
\* success the image it found running is gone, unless a second one listened while
\* it was up. For any number of processes, images and CLIs.
THEOREM CliReports == DaemonSpec => ReportsTrue
  <1> DEFINE A == \A c \in Clis : cli'[c].result # cli[c].result =>
                      /\ cli'[c].result = "stopped" => StopReport(c)
                      /\ cli'[c].result = "restarted" => RestartReport(c)
  <1>1. DaemonInv /\ [DaemonNext]_daemonVars => A
    <2> SUFFICES ASSUME DaemonInv, [DaemonNext]_daemonVars, NEW c \in Clis, cli'[c].result # cli[c].result
                 PROVE  /\ cli'[c].result = "stopped" => StopReport(c)
                        /\ cli'[c].result = "restarted" => RestartReport(c)
      OBVIOUS
    <2>1. cli'[c].result = "failed" \/ (PollStop(c) /\ cli'[c].result = "stopped")
                                    \/ (PollRestart(c) /\ cli'[c].result = "restarted")
      BY ResultsReported
    <2>2. PollStop(c) => StopReport(c)
      BY StopTrue
    <2>3. PollRestart(c) => RestartReport(c)
      BY RestartTrue
    <2> QED BY <2>1, <2>2, <2>3
  <1> HIDE DEF A
  <1>2. DaemonSpec => [][A]_daemonVars
    BY <1>1, DaemonInvariant, PTL DEF DaemonSpec
  <1> QED BY <1>2 DEF A, ReportsTrue
=============================================================================
