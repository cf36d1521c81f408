------------------------------ MODULE Catalog ------------------------------
(***************************************************************************)
(* The catalog zone (RFC 9432): a virtual zone that lists every zone of    *)
(* the database. Whoever asks for its SOA or for a transfer makes bindizr  *)
(* generate it anew, in two steps that other requests and writers may      *)
(* separate: list the zones, then give the list a serial in a transaction  *)
(* on catalog_zone_state. A secondary polls the SOA, transfers the catalog *)
(* when the serial is ahead of its copy, and configures the members.       *)
(***************************************************************************)
EXTENDS Integers, FiniteSets, Sequences, FiniteSetsExt

CONSTANTS
    ZoneNames,    \* names of zones: sequences of characters
    Secondaries,  \* the BIND servers that read the catalog
    MaxZone,      \* bound: serials of zones
    MaxSerial,    \* i32::MAX, the last serial of the catalog
    MaxChanges,   \* bound: writes to the zones table
    NoRow         \* catalog_zone_state has no row yet

Backends == {"mysql", "postgres", "sqlite"}

\* Zones as ZoneService::list returns them: name -> serial.
ZoneLists == UNION {[names -> 1..MaxZone] : names \in SUBSET ZoneNames}

StateRow == [signature : ZoneLists, serial : 1..MaxSerial]

\* A catalog that was sent: its SOA serial and its member zones.
CatalogZone == [serial : 0..MaxSerial, members : SUBSET ZoneNames]

ASSUME CatalogAssumption ==
    /\ MaxZone \in Nat \ {0}
    /\ MaxSerial \in Nat
    /\ MaxZone <= MaxSerial
    /\ MaxChanges \in Nat
    /\ NoRow \notin StateRow

VARIABLES
    backend,  \* the configured database
    zones,    \* the zones table: name -> serial
    state,    \* the row of catalog_zone_state, or NoRow
    conns,    \* secondary -> the request that is being served to it
    copies,   \* secondary -> the catalog zone it transferred last
    served,   \* secondary -> the member zones it has configured
    changes   \* number of writes so far

vars == <<backend, zones, state, conns, copies, served, changes>>

Idle == [pc |-> "idle"]

Listed(want, list) == [pc |-> "listed", want |-> want, list |-> list]

Answered(want, catalog) == [pc |-> "answered", want |-> want, catalog |-> catalog]

Conns ==
    {Idle}
      \cup [pc : {"listed"}, want : {"SOA", "AXFR"}, list : ZoneLists]
      \cup [pc : {"answered"}, want : {"SOA", "AXFR"}, catalog : CatalogZone]

Init ==
    /\ backend \in Backends
    /\ zones = << >>
    /\ state = NoRow
    /\ conns = [c \in Secondaries |-> Idle]
    /\ copies = [c \in Secondaries |-> [serial |-> 0, members |-> {}]]
    /\ served = [c \in Secondaries |-> {}]
    /\ changes = 0

-----------------------------------------------------------------------------
(* Writers: what the zone services do to names and serials                 *)

Write(new) ==
    /\ changes < MaxChanges
    /\ zones' = new
    /\ changes' = changes + 1
    /\ UNCHANGED <<backend, state, conns, copies, served>>

\* ZoneService::create, at the serial the request asks for.
CreateZone(name, serial) ==
    /\ name \notin DOMAIN zones
    /\ Write([n \in DOMAIN zones \cup {name} |-> IF n = name THEN serial ELSE zones[n]])

\* ZoneService::delete.
DeleteZone(name) ==
    /\ name \in DOMAIN zones
    /\ Write([n \in DOMAIN zones \ {name} |-> zones[n]])

\* Any write to a zone moves its serial; a PUT may give it another name too.
UpdateZone(name, to) ==
    /\ name \in DOMAIN zones
    /\ zones[name] < MaxZone
    /\ to \in {name} \cup (ZoneNames \ DOMAIN zones)
    /\ Write([n \in (DOMAIN zones \ {name}) \cup {to} |->
                IF n = to THEN zones[name] + 1 ELSE zones[n]])

-----------------------------------------------------------------------------
(* Generation: server/catalog/mod.rs                                       *)

\* catalog_signature hashes each member's name and serial, in name order; the
\* hash is taken to be injective. catalog.bind is never a row of zones.
Signature(list) == list

\* generate_catalog_serial: the serial proposed for a list.
BaseSerial(list) ==
    IF DOMAIN list = {} THEN 1 ELSE Max({list[n] : n \in DOMAIN list})

\* ON CONFLICT ... DO UPDATE of PostgreSQL: every right-hand side reads the old row.
UpsertPostgres(row, signature, base) ==
    IF row = NoRow
      THEN [signature |-> signature, serial |-> base]
      ELSE [signature |-> signature,
            serial |-> IF row.signature = signature THEN row.serial
                                                    ELSE Max({row.serial + 1, base})]

\* ON CONFLICT ... DO UPDATE of SQLite: as PostgreSQL, read back by a SELECT.
UpsertSqlite(row, signature, base) ==
    IF row = NoRow
      THEN [signature |-> signature, serial |-> base]
      ELSE [signature |-> signature,
            serial |-> IF row.signature = signature THEN row.serial
                                                    ELSE Max({row.serial + 1, base})]

\* ON DUPLICATE KEY UPDATE of MySQL assigns from left to right, and a later
\* assignment reads what an earlier one wrote: serial first, then signature.
UpsertMysql(row, signature, base) ==
    IF row = NoRow
      THEN [signature |-> signature, serial |-> base]
      ELSE LET first == [row EXCEPT !.serial = IF row.signature = signature
                                                 THEN row.serial
                                                 ELSE Max({row.serial + 1, base})]
           IN [first EXCEPT !.signature = signature]

\* Mutant of Upsert: a changed list takes the highest zone serial only.
UpsertWithoutStep(row, signature, base) ==
    [signature |-> signature,
     serial |-> IF row = NoRow THEN base ELSE Max({row.serial, base})]

Upsert(row, signature, base) ==
    CASE backend = "mysql" -> UpsertMysql(row, signature, base)
      [] backend = "postgres" -> UpsertPostgres(row, signature, base)
      [] backend = "sqlite" -> UpsertSqlite(row, signature, base)

\* The first half of generate_catalog_zone, for an SOA query or a transfer.
List(c, want) == conns' = [conns EXCEPT ![c] = Listed(want, zones)]

\* Mutant of AssignSerial: an upsert that changes nothing counts as failed.
AssignSerialOnChange(c) ==
    /\ conns[c].pc = "listed"
    /\ LET list == conns[c].list
           row == Upsert(state, Signature(list), BaseSerial(list))
       IN /\ row.serial <= MaxSerial
          /\ state' = row
          /\ conns' = [conns EXCEPT ![c] =
                IF state = row
                  THEN Idle
                  ELSE Answered(conns[c].want, [serial |-> row.serial, members |-> DOMAIN list])]
    /\ UNCHANGED <<backend, zones, copies, served, changes>>

\* Mutant of AssignSerial: a transfer is sent under the serial proposed for it.
AssignSerialProposed(c) ==
    /\ conns[c].pc = "listed"
    /\ LET list == conns[c].list
           row == Upsert(state, Signature(list), BaseSerial(list))
           serial == IF conns[c].want = "AXFR" THEN BaseSerial(list) ELSE row.serial
       IN /\ row.serial <= MaxSerial
          /\ state' = row
          /\ conns' = [conns EXCEPT ![c] =
                Answered(conns[c].want, [serial |-> serial, members |-> DOMAIN list])]
    /\ UNCHANGED <<backend, zones, copies, served, changes>>

\* The second half: one transaction on the row of catalog.bind.
AssignSerial(c) ==
    /\ conns[c].pc = "listed"
    /\ LET list == conns[c].list
           row == Upsert(state, Signature(list), BaseSerial(list))
       IN /\ row.serial <= MaxSerial
          /\ state' = row
          /\ conns' = [conns EXCEPT ![c] =
                Answered(conns[c].want, [serial |-> row.serial, members |-> DOMAIN list])]
    /\ UNCHANGED <<backend, zones, copies, served, changes>>

\* Past i32::MAX the statement, or reading its result as an i32, fails and the
\* transaction is rolled back.
AssignRefused(c) ==
    /\ conns[c].pc = "listed"
    /\ LET list == conns[c].list
       IN Upsert(state, Signature(list), BaseSerial(list)).serial > MaxSerial
    /\ conns' = [conns EXCEPT ![c] = Idle]
    /\ UNCHANGED <<backend, zones, state, copies, served, changes>>

-----------------------------------------------------------------------------
(* The secondary                                                           *)

\* A secondary asks for the SOA: on a NOTIFY, at start, or when refresh expires.
Poll(c) ==
    /\ conns[c] = Idle
    /\ List(c, "SOA")
    /\ UNCHANGED <<backend, zones, state, copies, served, changes>>

\* It transfers the catalog if the serial is ahead of its copy; an IXFR of the
\* catalog is answered as an AXFR.
Transfer(c) ==
    /\ conns[c].pc = "answered"
    /\ conns[c].want = "SOA"
    /\ IF conns[c].catalog.serial > copies[c].serial
         THEN List(c, "AXFR")
         ELSE conns' = [conns EXCEPT ![c] = Idle]
    /\ UNCHANGED <<backend, zones, state, copies, served, changes>>

\* zone_name_to_member_id: the label under zones.catalog.bind.
MemberId(name) == [i \in DOMAIN name |-> IF name[i] = "." THEN "-" ELSE name[i]]

\* A member label with two PTR records breaks the catalog (RFC 9432).
LabelsUnique(members) ==
    \A m, n \in members : MemberId(m) = MemberId(n) => m = n

\* The secondary installs the transfer and configures the members, unless the
\* catalog is broken: then it keeps the members it had.
Install(c) ==
    /\ conns[c].pc = "answered"
    /\ conns[c].want = "AXFR"
    /\ copies' = [copies EXCEPT ![c] = conns[c].catalog]
    /\ served' = [served EXCEPT ![c] = IF LabelsUnique(conns[c].catalog.members)
                                         THEN conns[c].catalog.members
                                         ELSE @]
    /\ conns' = [conns EXCEPT ![c] = Idle]
    /\ UNCHANGED <<backend, zones, state, changes>>

\* The connection breaks, or an answer over UDP is lost.
Lose(c) ==
    /\ conns[c].pc = "answered"
    /\ conns' = [conns EXCEPT ![c] = Idle]
    /\ UNCHANGED <<backend, zones, state, copies, served, changes>>

-----------------------------------------------------------------------------
WriteZones ==
    \/ \E n \in ZoneNames, s \in 1..MaxZone : CreateZone(n, s)
    \/ \E n \in ZoneNames : DeleteZone(n)
    \/ \E n, to \in ZoneNames : UpdateZone(n, to)

Serve(c) == AssignSerial(c) \/ AssignRefused(c)

Next ==
    \/ WriteZones
    \/ \E c \in Secondaries :
          Serve(c) \/ Poll(c) \/ Transfer(c) \/ Install(c) \/ Lose(c)

\* A request that was read is served; a secondary keeps polling (its refresh
\* timer), and a network that loses answers does not lose all of them.
Fairness ==
    \A c \in Secondaries :
        /\ WF_vars(Serve(c))
        /\ WF_vars(Poll(c))
        /\ SF_vars(Transfer(c))
        /\ SF_vars(Install(c))

Spec == Init /\ [][Next]_vars

FairSpec == Spec /\ Fairness

-----------------------------------------------------------------------------
TypeOK ==
    /\ backend \in Backends
    /\ zones \in ZoneLists
    /\ state \in StateRow \cup {NoRow}
    /\ conns \in [Secondaries -> Conns]
    /\ copies \in [Secondaries -> CatalogZone]
    /\ served \in [Secondaries -> SUBSET ZoneNames]
    /\ changes \in 0..MaxChanges

\* The catalogs that secondaries hold or are about to receive.
Published ==
    {copies[c] : c \in Secondaries}
      \cup {conns[c].catalog : c \in {d \in Secondaries : conns[d].pc = "answered"}}

\* One serial of the catalog names one list of members, for every secondary and
\* however slow listers and writers interleave (generate_catalog_zone lists
\* outside the transaction that assigns the serial): a secondary whose serial
\* equals the catalog's has the catalog's members.
SerialNamesOneList ==
    \A a, b \in Published : a.serial = b.serial => a.members = b.members

\* A transfer never takes a secondary's catalog back to an earlier serial, so a
\* newer list always wins in the end: update_catalog_serial_for_signature only
\* moves forward, even when a list is assigned after a newer one.
CatalogAdvances ==
    [][\A c \in Secondaries : copies'[c].serial >= copies[c].serial]_vars

\* When the writes stop, every secondary ends with exactly the zones of the
\* database, although a lister that was overtaken may publish an old list under
\* a new serial first ("let secondaries discover created and deleted zones"),
\* as long as the catalog has serials left.
CatalogConverges ==
    \A c \in Secondaries :
        <>[](served[c] = DOMAIN zones \/ (state # NoRow /\ state.serial = MaxSerial))
=============================================================================
