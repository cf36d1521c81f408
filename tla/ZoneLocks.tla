----------------------------- MODULE ZoneLocks -----------------------------
(***************************************************************************)
(* Concurrent requests on the tables: which connection, row lock or unique *)
(* key each transaction waits for, in the order the services ask for them. *)
(* A service locks the zone row first, re-reads under the lock what it     *)
(* read before it, share-locks the caller's policies, and writes at the    *)
(* end. MySQL and PostgreSQL lock rows; SQLite locks the database at BEGIN *)
(* IMMEDIATE. What a write does to the records is in module ZoneStore.     *)
(***************************************************************************)
EXTENDS Integers, FiniteSets

CONSTANTS
    Requests,    \* concurrent requests
    Workload,    \* request -> the operations it may turn out to be
    ZoneNames,   \* names of zones, as numbers: only their order matters
    InitZones,   \* zone id -> name, at the start
    InitRecords, \* record id -> zone id, at the start
    PolicyZone,  \* policy id -> zone id; all policies of one scoped token
    Pool,        \* connections in the pool
    Backends,    \* the databases considered, of mysql, postgres and sqlite
    MaxId        \* bound: zone ids given out

ZoneIds == 1..MaxId

\* write: create, bulk, import, rollback, nsupdate and forced increments of one
\* zone by name. record: update or delete of one record by id. external: an
\* ExternalDNS request over several zones. token: DELETE of the token; revoke:
\* DELETE of one of its policies.
Operation ==
    [kind : {"write"}, zone : ZoneNames, scoped : BOOLEAN]
      \cup [kind : {"record"}, rid : DOMAIN InitRecords, delete : BOOLEAN, scoped : BOOLEAN]
      \cup [kind : {"external"}, zones : (SUBSET ZoneNames) \ {{}}, scoped : BOOLEAN]
      \cup {o \in [kind : {"rename"}, zone : ZoneNames, to : ZoneNames] : o.zone # o.to}
      \cup [kind : {"create"}, to : ZoneNames]
      \cup [kind : {"delete"}, zone : ZoneNames]
      \cup [kind : {"token"}]
      \cup [kind : {"revoke"}, policy : DOMAIN PolicyZone]

ASSUME ZoneLocksAssumption ==
    /\ ZoneNames \subseteq Nat
    /\ MaxId \in Nat
    /\ Pool \in Nat \ {0}
    /\ Backends \subseteq {"mysql", "postgres", "sqlite"}
    /\ InitZones \in [DOMAIN InitZones -> ZoneNames]
    /\ \E n \in 0..MaxId : DOMAIN InitZones = 1..n
    /\ \A i, j \in DOMAIN InitZones : InitZones[i] = InitZones[j] => i = j
    /\ InitRecords \in [DOMAIN InitRecords -> DOMAIN InitZones]
    /\ DOMAIN PolicyZone \subseteq Nat
    /\ PolicyZone \in [DOMAIN PolicyZone -> DOMAIN InitZones]
    /\ Workload \in [Requests -> SUBSET Operation]

VARIABLES
    backend,   \* the configured database
    table,     \* zones, committed: id -> name and serial
    nextId,    \* the id the next zone gets
    records,   \* records, committed: id -> zone id
    policies,  \* zone_token_policies, committed: ids
    op,        \* request -> its operation
    req,       \* request -> where it is and what it holds
    bumps      \* zone id -> committed serial increments

vars == <<backend, table, nextId, records, policies, op, req, bumps>>

stored == <<backend, table, nextId, records, policies, bumps>>

\* A request outside a transaction. conns: connections it holds; seen: the
\* serial it read of each zone it has locked, else 0; zone: the id it works on;
\* todo: names of zones still to lock; shared, excl: locked policies; key:
\* names it has written to the unique index.
Fresh(pc) ==
    [pc |-> pc, conns |-> 0, seen |-> [z \in ZoneIds |-> 0], zone |-> 0, todo |-> {},
     shared |-> {}, excl |-> {}, key |-> {}]

FirstStep(o) ==
    CASE o.kind = "record" -> "find"
      [] o.kind = "create" -> "check"
      [] OTHER -> "begin"

Init ==
    /\ backend \in Backends
    /\ table = [z \in DOMAIN InitZones |-> [name |-> InitZones[z], serial |-> 1]]
    /\ nextId = Cardinality(DOMAIN InitZones) + 1
    /\ records = InitRecords
    /\ policies = DOMAIN PolicyZone
    /\ op \in {f \in [Requests -> Operation] : \A r \in Requests : f[r] \in Workload[r]}
    /\ req = [r \in Requests |-> Fresh(FirstStep(op[r]))]
    /\ bumps = [z \in ZoneIds |-> 0]

-----------------------------------------------------------------------------
(* What is free                                                            *)

\* A transaction keeps one connection; a read outside gives it back at once.
Holders == {q \in Requests : req[q].conns > 0}

Free == Pool - Cardinality(Holders)

Others(r) == Requests \ {r}

Locked(q) == {z \in ZoneIds : req[q].seen[z] > 0}

InTransaction(q) == req[q].pc \in {"list", "zone", "policy", "name", "key", "cascade", "commit"}

IdsNamed(n) == {z \in DOMAIN table : table[z].name = n}

\* The first row or name of S in ascending order.
Smallest(S) == CHOOSE x \in S : \A y \in S : x <= y

PoliciesOf(z) == {p \in policies : PolicyZone[p] = z}

Scoped(o) == o.kind \in {"write", "record", "external"} /\ o.scoped

\* The zone row that SELECT ... FOR UPDATE is after: by id for a record, by
\* name otherwise.
Wanted(r) ==
    IF op[r].kind = "record"
      THEN {req[r].zone} \cap DOMAIN table
      ELSE IdsNamed(Smallest(req[r].todo))

\* The policy rows the next statement locks. A DELETE of the token cascades to
\* its policies one row at a time, in the order of their ids.
Target(r) ==
    CASE op[r].kind = "revoke" -> {op[r].policy} \cap policies
      [] op[r].kind = "token" -> LET rest == policies \ req[r].excl
                                 IN IF rest = {} THEN {} ELSE {Smallest(rest)}
      [] OTHER -> PoliciesOf(req[r].zone)

\* Whoever else changes or removes the unique key of a name.
KeyOwners(r, n) ==
    {q \in Others(r) :
        \/ n \in req[q].key
        \/ /\ req[q].pc = "commit"
           /\ op[q].kind \in {"rename", "delete"}
           /\ IdsNamed(n) \cap Locked(q) # {}}

\* Requests whose locks the next statement of r waits for. On MySQL a locking
\* read also waits for an uncommitted key it meets in the index.
Blockers(r) ==
    CASE req[r].pc = "immediate" -> {q \in Others(r) : InTransaction(q)}
      [] req[r].pc = "zone" ->
            {q \in Others(r) : Wanted(r) \cap Locked(q) # {}}
              \cup (IF backend = "mysql" /\ op[r].kind # "record"
                      THEN {q \in Others(r) : Smallest(req[r].todo) \in req[q].key}
                      ELSE {})
      [] req[r].pc = "policy" /\ Scoped(op[r]) ->
            {q \in Others(r) : PoliciesOf(req[r].zone) \cap req[q].excl # {}}
      [] req[r].pc = "cascade" ->
            {q \in Others(r) : Target(r) \cap (req[q].shared \cup req[q].excl) # {}}
      [] req[r].pc = "key" -> KeyOwners(r, op[r].to)
      [] OTHER -> {}

NeedsConnection(r) == req[r].pc \in {"find", "check", "begin", "name"}

-----------------------------------------------------------------------------
(* Steps of a request                                                      *)

Go(r, changes) == req' = [req EXCEPT ![r] = changes]

\* finish_tx rolls back, or the request never had a transaction: locks, keys
\* and connection are given back.
Refuse(r) == Go(r, Fresh("failed"))

\* update_locked and delete_by_id read the record without a lock first.
Find(r) ==
    /\ req[r].pc = "find"
    /\ Free > 0
    /\ IF op[r].rid \in DOMAIN records
         THEN Go(r, [req[r] EXCEPT !.pc = "begin", !.zone = records[op[r].rid]])
         ELSE Refuse(r)
    /\ UNCHANGED <<stored, op>>

\* The friendly conflict check, on a connection of its own: before the
\* transaction of a creation, inside the one of a rename.
CheckName(r) ==
    /\ req[r].pc \in {"check", "name"}
    /\ Free > 0
    /\ IF IdsNamed(op[r].to) \ Locked(r) # {}
         THEN Refuse(r)
         ELSE Go(r, [req[r] EXCEPT !.pc = IF @ = "check" THEN "begin" ELSE "key"])
    /\ UNCHANGED <<stored, op>>

AfterBegin(o) ==
    CASE o.kind = "external" -> "list"
      [] o.kind = "create" -> "key"
      [] o.kind \in {"token", "revoke"} -> "cascade"
      [] OTHER -> "zone"

\* begin_transaction takes a connection from the pool; SQLite then waits for
\* the write lock with it.
Begin(r) ==
    /\ req[r].pc = "begin"
    /\ Free > 0
    /\ Go(r, [req[r] EXCEPT
                !.pc = IF backend = "sqlite" THEN "immediate" ELSE AfterBegin(op[r]),
                !.conns = 1,
                !.todo = IF op[r].kind \in {"write", "rename", "delete"} THEN {op[r].zone} ELSE {}])
    /\ UNCHANGED <<stored, op>>

\* BEGIN IMMEDIATE.
BeginImmediate(r) ==
    /\ req[r].pc = "immediate"
    /\ Blockers(r) = {}
    /\ Go(r, [req[r] EXCEPT !.pc = AfterBegin(op[r])])
    /\ UNCHANGED <<stored, op>>

\* list_zones_tx and group_ops_by_zone: a name without a zone ends the request.
ListZones(r) ==
    /\ req[r].pc = "list"
    /\ IF \A n \in op[r].zones : IdsNamed(n) # {}
         THEN Go(r, [req[r] EXCEPT !.pc = "zone", !.todo = op[r].zones])
         ELSE Refuse(r)
    /\ UNCHANGED <<stored, op>>

AfterZone(o) ==
    CASE o.kind = "rename" -> "name"
      [] o.kind = "delete" -> "cascade"
      [] OTHER -> "policy"

\* get_record_by_id_tx under the zone lock: the record must still be there, and
\* in the zone that was locked.
RecordGone(r) ==
    /\ op[r].kind = "record"
    /\ op[r].rid \notin DOMAIN records \/ records[op[r].rid] # req[r].zone

\* Mutant of LockZone: the zone is read without FOR UPDATE.
ReadZone(r) ==
    /\ req[r].pc = "zone"
    /\ IF Wanted(r) = {} \/ RecordGone(r)
         THEN Refuse(r)
         ELSE \E z \in Wanted(r) :
                Go(r, [req[r] EXCEPT
                    !.pc = AfterZone(op[r]),
                    !.zone = z,
                    !.seen = [@ EXCEPT ![z] = table[z].serial],
                    !.todo = IF op[r].kind = "record" THEN {} ELSE @ \ {Smallest(@)}])
    /\ UNCHANGED <<stored, op>>

\* Mutant of LockZone: an ExternalDNS request locks its zones in any order.
LockZoneUnordered(r) ==
    /\ req[r].pc = "zone"
    /\ \E n \in IF op[r].kind = "record" THEN {0} ELSE req[r].todo :
         LET wanted == IF op[r].kind = "record" THEN Wanted(r) ELSE IdsNamed(n)
         IN /\ \A q \in Others(r) : wanted \cap Locked(q) = {}
            /\ IF wanted = {} \/ RecordGone(r)
                 THEN Refuse(r)
                 ELSE \E z \in wanted :
                        Go(r, [req[r] EXCEPT
                            !.pc = AfterZone(op[r]),
                            !.zone = z,
                            !.seen = [@ EXCEPT ![z] = table[z].serial],
                            !.todo = @ \ {n}])
    /\ UNCHANGED <<stored, op>>

\* The locking read of the zone row, and of the record a record request is
\* about; BTreeMap iteration asks for the smallest name first.
LockZone(r) ==
    /\ req[r].pc = "zone"
    /\ Blockers(r) = {}
    /\ IF Wanted(r) = {} \/ RecordGone(r)
         THEN Refuse(r)
         ELSE \E z \in Wanted(r) :
                Go(r, [req[r] EXCEPT
                    !.pc = AfterZone(op[r]),
                    !.zone = z,
                    !.seen = [@ EXCEPT ![z] = table[z].serial],
                    !.todo = IF op[r].kind = "record" THEN {} ELSE @ \ {Smallest(@)}])
    /\ UNCHANGED <<stored, op>>

\* Mutant of Authorize: the policies are read without FOR SHARE.
AuthorizeUnlocked(r) ==
    /\ req[r].pc = "policy"
    /\ IF Scoped(op[r]) /\ PoliciesOf(req[r].zone) = {}
         THEN Refuse(r)
         ELSE Go(r, [req[r] EXCEPT !.pc = IF req[r].todo = {} THEN "commit" ELSE "zone"])
    /\ UNCHANGED <<stored, op>>

\* authorize_record_writes_tx share-locks the caller's policies in the zone; a
\* global caller needs none. An ExternalDNS request goes on with its next zone.
Authorize(r) ==
    /\ req[r].pc = "policy"
    /\ Blockers(r) = {}
    /\ IF Scoped(op[r]) /\ PoliciesOf(req[r].zone) = {}
         THEN Refuse(r)
         ELSE Go(r, [req[r] EXCEPT
                !.pc = IF req[r].todo = {} THEN "commit" ELSE "zone",
                !.shared = IF Scoped(op[r]) THEN @ \cup PoliciesOf(req[r].zone) ELSE @])
    /\ UNCHANGED <<stored, op>>

\* Mutant of WriteKey: no UNIQUE(name) behind the friendly check.
WriteKeyUnchecked(r) ==
    /\ req[r].pc = "key"
    /\ Go(r, [req[r] EXCEPT !.pc = "commit", !.key = {op[r].to}])
    /\ UNCHANGED <<stored, op>>

\* INSERT or UPDATE of the zone row: UNIQUE(name) waits for whoever is changing
\* the same key, then refuses a name that is taken (zone_name_race_error).
WriteKey(r) ==
    /\ req[r].pc = "key"
    /\ Blockers(r) = {}
    /\ IF IdsNamed(op[r].to) \ Locked(r) # {}
         THEN Refuse(r)
         ELSE Go(r, [req[r] EXCEPT !.pc = "commit", !.key = {op[r].to}])
    /\ UNCHANGED <<stored, op>>

\* Row locks of a DELETE on policies: of one policy, or by cascade.
LockCascade(r) ==
    /\ req[r].pc = "cascade"
    /\ Blockers(r) = {}
    /\ LET excl == req[r].excl \cup Target(r)
       IN Go(r, [req[r] EXCEPT
            !.pc = IF op[r].kind = "token" /\ policies \ excl # {} THEN "cascade" ELSE "commit",
            !.excl = excl])
    /\ UNCHANGED <<stored, op>>

-----------------------------------------------------------------------------
(* Commit and failure                                                      *)

\* The zones whose serial a commit moves: advance_serial_tx on what the request
\* read under the lock. A zone without a remaining delta keeps its serial.
Bumped(r, changed) ==
    /\ changed \subseteq Locked(r)
    /\ op[r].kind = "external" \/ changed = Locked(r)

Advance(r, changed) ==
    /\ table' = [z \in DOMAIN table |->
            IF z \in changed THEN [table[z] EXCEPT !.serial = req[r].seen[z] + 1] ELSE table[z]]
    /\ bumps' = [z \in ZoneIds |-> IF z \in changed THEN bumps[z] + 1 ELSE bumps[z]]

CommitWrite(r) ==
    /\ op[r].kind \in {"write", "record", "external"}
    /\ \E changed \in SUBSET Locked(r) : Bumped(r, changed) /\ Advance(r, changed)
    /\ records' = IF op[r].kind = "record" /\ op[r].delete
                    THEN [i \in DOMAIN records \ {op[r].rid} |-> records[i]]
                    ELSE records
    /\ UNCHANGED <<nextId, policies>>

CommitRename(r) ==
    /\ op[r].kind = "rename"
    /\ LET z == req[r].zone
       IN /\ table' = [table EXCEPT ![z] = [name |-> op[r].to, serial |-> req[r].seen[z] + 1]]
          /\ bumps' = [bumps EXCEPT ![z] = @ + 1]
    /\ UNCHANGED <<nextId, records, policies>>

CommitCreate(r) ==
    /\ op[r].kind = "create" /\ nextId <= MaxId
    /\ table' = [z \in DOMAIN table \cup {nextId} |->
            IF z = nextId THEN [name |-> op[r].to, serial |-> 1] ELSE table[z]]
    /\ nextId' = nextId + 1
    /\ UNCHANGED <<records, policies, bumps>>

\* DELETE of the zone row cascades to its records and policies.
CommitDelete(r) ==
    /\ op[r].kind = "delete"
    /\ LET z == req[r].zone
       IN /\ table' = [x \in DOMAIN table \ {z} |-> table[x]]
          /\ records' = [i \in {j \in DOMAIN records : records[j] # z} |-> records[i]]
          /\ policies' = policies \ PoliciesOf(z)
    /\ UNCHANGED <<nextId, bumps>>

CommitRevocation(r) ==
    /\ op[r].kind \in {"token", "revoke"}
    /\ policies' = policies \ req[r].excl
    /\ UNCHANGED <<table, nextId, records, bumps>>

Commit(r) ==
    /\ req[r].pc = "commit"
    /\ CommitWrite(r) \/ CommitRename(r) \/ CommitCreate(r) \/ CommitDelete(r)
         \/ CommitRevocation(r)
    /\ Go(r, Fresh("done"))
    /\ UNCHANGED <<backend, op>>

Ended(r) == req[r].pc \in {"done", "failed"}

\* A statement fails, a wait times out, a value is refused by validation.
Fail(r) ==
    /\ ~Ended(r)
    /\ Refuse(r)
    /\ UNCHANGED <<stored, op>>

Step(r) ==
    \/ Find(r)
    \/ CheckName(r)
    \/ Begin(r)
    \/ BeginImmediate(r)
    \/ ListZones(r)
    \/ LockZone(r)
    \/ Authorize(r)
    \/ WriteKey(r)
    \/ LockCascade(r)
    \/ Commit(r)

AllEnded == (\A r \in Requests : Ended(r)) /\ UNCHANGED vars

Next == (\E r \in Requests : Step(r) \/ Fail(r)) \/ AllEnded

Spec == Init /\ [][Next]_vars

-----------------------------------------------------------------------------
(* Properties                                                              *)

Steps ==
    {"find", "check", "begin", "immediate", "list", "zone", "policy", "name", "key", "cascade",
     "commit", "done", "failed"}

RequestRow ==
    [pc : Steps, conns : {0, 1}, seen : [ZoneIds -> Nat], zone : {0} \cup ZoneIds,
     todo : SUBSET ZoneNames, shared : SUBSET DOMAIN PolicyZone, excl : SUBSET DOMAIN PolicyZone,
     key : SUBSET ZoneNames]

\* The rows of the tables and of the requests.
TypeOK ==
    /\ backend \in Backends
    /\ DOMAIN table \subseteq ZoneIds
    /\ table \in [DOMAIN table -> [name : ZoneNames, serial : Nat]]
    /\ nextId \in 1..(MaxId + 1)
    /\ DOMAIN records \subseteq DOMAIN InitRecords
    /\ records \in [DOMAIN records -> DOMAIN table]
    /\ policies \subseteq DOMAIN PolicyZone
    /\ op \in [Requests -> Operation]
    /\ req \in [Requests -> RequestRow]
    /\ bumps \in [ZoneIds -> Nat]

\* No increment is lost: however requests interleave, fail or wait, the serial of
\* a zone is one more than the number of committed changes of it. Every service
\* computes it from the row it locked (generate_serial, advance_serial_tx).
NoLostUpdate ==
    \A z \in DOMAIN table : table[z].serial = bumps[z] + 1

\* What a request decided before is still so when it commits. A scoped token's
\* write has a policy for each zone it touched in the table, since
\* authorize_record_writes_tx holds the policies so "a concurrent revocation waits
\* for this mutation instead of racing it". A record request changes a record
\* that is there, in the zone it has locked, although the record was found before
\* the lock.
CommitsOnCurrentRows ==
    [][\A r \in Requests :
          req[r].pc = "commit" /\ req'[r].pc = "done" =>
            /\ Scoped(op[r]) => \A z \in Locked(r) : PoliciesOf(z) # {}
            /\ op[r].kind = "record" => op[r].rid \in DOMAIN records /\ records[op[r].rid] \in Locked(r)]_vars

\* Two creations or renames that both pass the friendly check do not both get
\* the name: UNIQUE(name) decides.
NamesUnique ==
    \A y, z \in DOMAIN table : table[y].name = table[z].name => y = z

\* r cannot go on before some request of D does: a lock it waits for is held in
\* D, or all connections are.
Stuck(r, D) ==
    \/ Blockers(r) \cap D # {}
    \/ /\ NeedsConnection(r)
       /\ Free <= 0
       /\ Holders \subseteq D

\* No group of requests waits for each other, by row locks, unique keys or
\* connections: "BTreeMap iteration locks zones in name order, so concurrent
\* multi-zone requests cannot deadlock on row locks". The deletion of a token is
\* left out: its cascade locks policies in the order of their ids.
NoWaitCycle ==
    ~ \E D \in SUBSET Requests :
        /\ D # {}
        /\ \A r \in D : Stuck(r, D) /\ op[r].kind # "token"
=============================================================================
