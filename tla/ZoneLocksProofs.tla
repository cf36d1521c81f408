--------------------------- MODULE ZoneLocksProofs ---------------------------
(***************************************************************************)
(* Theorems about ZoneLocks, for any requests, zones, records and policies *)
(* on each of the databases: no serial increment is lost, no name is given *)
(* twice, what a request decided still holds when it commits, and nobody   *)
(* waits in a circle for row locks or connections: requests that lock      *)
(* several zones take them in the order of their names, and the pool has a *)
(* connection for every request that holds one, or no request takes a      *)
(* second.                                                                 *)
(***************************************************************************)
EXTENDS ZoneLocks, TLAPS

\* A leaf that names no prover: SMT, then Zenon, then SMT once more with more time.
USE SMTT(30), ZenonT(20), SMTT(60)

-----------------------------------------------------------------------------
(* The inductive invariant                                                 *)

InTx == {"list", "zone", "policy", "name", "key", "cascade", "commit"}

\* The zones a request row has locked.
Held(x) == {z \in ZoneIds : x.seen[z] > 0}

\* The steps an operation of a kind goes through.
PcsOf(kind) ==
    {"begin", "immediate", "commit", "done", "failed"} \cup
    CASE kind = "write" -> {"zone", "policy"}
      [] kind = "record" -> {"find", "zone", "policy"}
      [] kind = "external" -> {"list", "zone", "policy"}
      [] kind = "rename" -> {"zone", "name", "key"}
      [] kind = "create" -> {"check", "key"}
      [] kind = "delete" -> {"zone", "cascade"}
      [] OTHER -> {"cascade"}

\* Where the request x of the operation o is: outside a transaction it holds
\* nothing.
Place(o, x) ==
    /\ x.pc \in PcsOf(o.kind)
    /\ x.conns = (IF x.pc \in InTx \cup {"immediate"} THEN 1 ELSE 0)
    /\ x.pc = "immediate" => backend = "sqlite"
    /\ x.pc \notin InTx => Held(x) = {} /\ x.shared = {} /\ x.excl = {} /\ x.key = {}

\* The rows it has locked are as it read them, and come before those it has
\* still to lock.
Rows(o, x) ==
    /\ \A z \in Held(x) : z \in DOMAIN table /\ x.seen[z] = table[z].serial
    /\ \A z \in Held(x) : \A n \in x.todo : table[z].name < n
    /\ x.pc = "zone" /\ o.kind # "record" => x.todo # {}
    /\ x.pc = "immediate" /\ o.kind \in {"write", "rename", "delete"} => x.todo # {}
    /\ o.kind \in {"write", "rename", "delete"} => x.todo \subseteq {o.zone}
    /\ o.kind # "external" /\ x.pc = "policy" => x.todo = {}
    /\ x.pc = "list" => Held(x) = {}
    /\ o.kind # "external" => Held(x) \subseteq {x.zone} /\ (x.pc = "zone" => Held(x) = {})
    /\ o.kind \in {"create", "token", "revoke"} => Held(x) = {}
    /\ o.kind \in {"write", "record", "external", "rename", "delete"}
         /\ x.pc \in {"policy", "name", "key", "cascade", "commit"} => x.zone \in Held(x)
    /\ o.kind = "record" /\ x.pc \in {"policy", "commit"} => o.rid \in DOMAIN records /\ records[o.rid] = x.zone

\* The policies it has locked: in share mode those of the zones it has locked,
\* which are still there; exclusively only just before its commit.
Granted(o, x) ==
    /\ x.excl # {} => x.pc = "commit" \/ o.kind = "token"
    /\ \A p \in x.shared : p \in policies /\ PolicyZone[p] \in Held(x)
    /\ Scoped(o) => \A z \in Held(x) :
          (x.pc = "policy" /\ z = x.zone) \/ \E p \in x.shared : PolicyZone[p] = z

\* The name it has written to the unique index is nobody else's.
Keyed(o, x) ==
    /\ x.key # {} => x.pc = "commit" /\ o.kind \in {"create", "rename"}
    /\ o.kind \in {"create", "rename"} /\ x.pc = "commit" => x.key = {o.to}
    /\ \A z \in DOMAIN table : table[z].name \in x.key => z \in Held(x)

\* Two requests hold no lock together.
Apart(x, y) ==
    /\ Held(x) \cap Held(y) = {}
    /\ x.key \cap y.key = {}
    /\ x.excl \cap (y.shared \cup y.excl) = {}
    /\ backend = "sqlite" => ~(x.pc \in InTx /\ y.pc \in InTx)

\* Ids are not reused.
Tables ==
    /\ TypeOK
    /\ \A z \in DOMAIN table : z < nextId
    /\ \A z \in ZoneIds : z >= nextId => bumps[z] = 0

ReqOK(o, x) == Place(o, x) /\ Rows(o, x) /\ Granted(o, x) /\ Keyed(o, x)

LocksInv ==
    /\ Tables /\ NoLostUpdate /\ NamesUnique
    /\ \A r \in Requests : ReqOK(op[r], req[r])
    /\ \A q, r \in Requests : q # r => Apart(req[q], req[r])

-----------------------------------------------------------------------------
(* Operations and request rows                                             *)

Kinds == {"write", "record", "external", "rename", "create", "delete", "token", "revoke"}

\* An operation has the fields of its kind.
LEMMA OperationFields ==
  ASSUME NEW o \in Operation
  PROVE  /\ o.kind \in Kinds
         /\ o.kind \in {"write", "rename", "delete"} => o.zone \in ZoneNames
         /\ o.kind \in {"rename", "create"} => o.to \in ZoneNames
         /\ o.kind = "record" => o.rid \in DOMAIN InitRecords
         /\ o.kind = "external" => o.zones \in SUBSET ZoneNames /\ o.zones # {}
         /\ o.kind = "revoke" => o.policy \in DOMAIN PolicyZone
  <1>1. CASE o \in [kind : {"write"}, zone : ZoneNames, scoped : BOOLEAN]
    BY <1>1 DEF Kinds
  <1>2. CASE o \in [kind : {"record"}, rid : DOMAIN InitRecords, delete : BOOLEAN, scoped : BOOLEAN]
    BY <1>2 DEF Kinds
  <1>3. CASE o \in [kind : {"external"}, zones : (SUBSET ZoneNames) \ {{}}, scoped : BOOLEAN]
    BY <1>3 DEF Kinds
  <1>4. CASE o \in [kind : {"rename"}, zone : ZoneNames, to : ZoneNames]
    BY <1>4 DEF Kinds
  <1>5. CASE o \in [kind : {"create"}, to : ZoneNames]
    BY <1>5 DEF Kinds
  <1>6. CASE o \in [kind : {"delete"}, zone : ZoneNames]
    BY <1>6 DEF Kinds
  <1>7. CASE o \in [kind : {"token"}]
    BY <1>7 DEF Kinds
  <1>8. CASE o \in [kind : {"revoke"}, policy : DOMAIN PolicyZone]
    BY <1>8 DEF Kinds
  <1> QED BY <1>1, <1>2, <1>3, <1>4, <1>5, <1>6, <1>7, <1>8, Zenon DEF Operation

\* The steps of each kind.
LEMMA StepsOfKind ==
  ASSUME NEW kind \in Kinds, NEW pc \in PcsOf(kind)
  PROVE  /\ pc \in Steps
         /\ pc = "find" => kind = "record"
         /\ pc = "check" => kind = "create"
         /\ pc = "list" => kind = "external"
         /\ pc = "zone" => kind \in {"write", "record", "external", "rename", "delete"}
         /\ pc = "policy" => kind \in {"write", "record", "external"}
         /\ pc = "name" => kind = "rename"
         /\ pc = "key" => kind \in {"rename", "create"}
         /\ pc = "cascade" => kind \in {"delete", "token", "revoke"}
  BY DEF PcsOf, Kinds, Steps

\* Conversely.
LEMMA KindHasStep ==
  ASSUME NEW kind \in Kinds
  PROVE  /\ {"begin", "immediate", "commit", "done", "failed"} \subseteq PcsOf(kind)
         /\ kind = "record" => "find" \in PcsOf(kind)
         /\ kind = "create" => {"check", "key"} \subseteq PcsOf(kind)
         /\ kind = "external" => "list" \in PcsOf(kind)
         /\ kind \in {"write", "record", "external"} => {"zone", "policy"} \subseteq PcsOf(kind)
         /\ kind = "rename" => {"zone", "name", "key"} \subseteq PcsOf(kind)
         /\ kind = "delete" => {"zone", "cascade"} \subseteq PcsOf(kind)
         /\ kind \in {"token", "revoke"} => "cascade" \in PcsOf(kind)
  BY DEF PcsOf, Kinds

\* The two ways to write the zones a request has locked.
LEMMA LockedIsHeld == \A q \in Requests : Locked(q) = Held(req[q])
  BY DEF Locked, Held

-----------------------------------------------------------------------------
(* Steps of one request that leave the tables alone                        *)

\* A step that only moves the row of r, to one that satisfies the invariant and
\* shares nothing with the others.
LEMMA RequestStep ==
  ASSUME LocksInv, UNCHANGED <<stored, op>>,
         NEW r \in Requests, NEW x \in RequestRow, Go(r, x),
         ReqOK(op[r], x),
         \A q \in Requests \ {r} : Apart(x, req[q]) /\ Apart(req[q], x)
  PROVE  LocksInv'
  <1>1. /\ req' = [req EXCEPT ![r] = x] /\ req \in [Requests -> RequestRow]
        /\ req'[r] = x /\ \A q \in Requests \ {r} : req'[q] = req[q]
    BY DEF LocksInv, Tables, TypeOK, Go
  <1>2. Tables' /\ NoLostUpdate' /\ NamesUnique'
    BY <1>1 DEF LocksInv, Tables, TypeOK, NoLostUpdate, NamesUnique, stored
  <1>3. \A o, y : ReqOK(o, y) => ReqOK(o, y)'
    BY DEF ReqOK, Place, Rows, Granted, Keyed, stored
  <1>4. \A y, z : Apart(y, z) => Apart(y, z)'
    BY DEF Apart, stored
  <1>5. op' = op
    OBVIOUS
  <1>6. ASSUME NEW q \in Requests PROVE ReqOK(op[q], req[q])'
    BY <1>1, <1>3, <1>5, Zenon DEF LocksInv
  <1>7. ASSUME NEW q \in Requests, NEW s \in Requests, q # s PROVE Apart(req[q], req[s])'
    BY <1>1, <1>4, <1>7, Zenon DEF LocksInv
  <1> QED BY <1>2, <1>6, <1>7 DEF LocksInv

\* The fields of a row outside a transaction, which holds nothing.
LEMMA FreshRow ==
  ASSUME NEW pc \in Steps
  PROVE  /\ Fresh(pc) \in RequestRow
         /\ Fresh(pc).pc = pc /\ Fresh(pc).conns = 0 /\ Held(Fresh(pc)) = {}
         /\ Fresh(pc).todo = {} /\ Fresh(pc).shared = {} /\ Fresh(pc).excl = {} /\ Fresh(pc).key = {}
  <1>1. Fresh(pc).seen = [z \in ZoneIds |-> 0] /\ [z \in ZoneIds |-> 0] \in [ZoneIds -> Nat]
    BY DEF Fresh
  <1>2. Held(Fresh(pc)) = {}
    BY <1>1 DEF Held
  <1> QED BY <1>1, <1>2 DEF Fresh, RequestRow

\* The row of a request that has ended fits every operation and every other
\* request.
LEMMA EndedRow ==
  ASSUME NEW o \in Operation, NEW pc \in {"done", "failed"}
  PROVE  /\ Fresh(pc) \in RequestRow
         /\ ReqOK(o, Fresh(pc))
         /\ \A y : Apart(Fresh(pc), y) /\ Apart(y, Fresh(pc))
  <1>1. pc \in Steps /\ pc \in PcsOf(o.kind) /\ pc \notin InTx \cup {"immediate", "zone", "policy", "commit"}
    BY OperationFields, KindHasStep DEF Steps, InTx
  <1> DEFINE x == Fresh(pc)
  <1>2. /\ x \in RequestRow /\ x.pc = pc /\ x.conns = 0 /\ Held(x) = {}
        /\ x.todo = {} /\ x.shared = {} /\ x.excl = {} /\ x.key = {}
    BY <1>1, FreshRow
  <1> HIDE DEF x
  <1>3. ReqOK(o, x)
    BY <1>1, <1>2 DEF ReqOK, Place, Rows, Granted, Keyed, InTx
  <1>4. \A y : Apart(x, y) /\ Apart(y, x)
    BY <1>1, <1>2 DEF Apart
  <1> QED BY <1>2, <1>3, <1>4 DEF x

\* A request that is refused or fails: everything it held is given back.
LEMMA RefuseKeeps ==
  ASSUME LocksInv, UNCHANGED <<stored, op>>, NEW r \in Requests, Refuse(r)
  PROVE  LocksInv'
  <1>1. op[r] \in Operation
    BY DEF LocksInv, Tables, TypeOK
  <1>2. Fresh("failed") \in RequestRow /\ ReqOK(op[r], Fresh("failed"))
        /\ \A y : Apart(Fresh("failed"), y) /\ Apart(y, Fresh("failed"))
    BY <1>1, EndedRow
  <1> QED BY <1>2, RequestStep DEF Refuse

\* What the invariant says of one request.
LEMMA OneRequest ==
  ASSUME LocksInv, NEW r \in Requests
  PROVE  /\ op[r] \in Operation /\ op[r].kind \in Kinds /\ req[r] \in RequestRow
         /\ ReqOK(op[r], req[r])
         /\ \A q \in Requests \ {r} : Apart(req[r], req[q]) /\ Apart(req[q], req[r])
         /\ Locked(r) = Held(req[r])
  BY OperationFields, LockedIsHeld DEF LocksInv, Tables, TypeOK

\* A step that changes none of what a request holds keeps it apart from the others.
LEMMA StaysApart ==
  ASSUME LocksInv, NEW r \in Requests, NEW x \in RequestRow,
         Held(x) = Held(req[r]), x.shared = req[r].shared, x.excl = req[r].excl, x.key = req[r].key,
         backend = "sqlite" /\ x.pc \in InTx => \A q \in Requests \ {r} : req[q].pc \notin InTx
  PROVE  \A q \in Requests \ {r} : Apart(x, req[q]) /\ Apart(req[q], x)
  BY OneRequest DEF Apart

\* update_locked and delete_by_id find the record's zone.
LEMMA FindKeeps ==
  ASSUME LocksInv, NEW r \in Requests, Find(r)
  PROVE  LocksInv'
  <1>1. CASE ~(op[r].rid \in DOMAIN records)
    BY <1>1, RefuseKeeps DEF Find
  <1>2. CASE op[r].rid \in DOMAIN records
    <2> DEFINE x == [req[r] EXCEPT !.pc = "begin", !.zone = records[op[r].rid]]
    <2>1. Go(r, x) /\ UNCHANGED <<stored, op>> /\ req[r].pc = "find"
      BY <1>2 DEF Find
    <2>2. op[r] \in Operation /\ op[r].kind \in Kinds /\ req[r] \in RequestRow /\ ReqOK(op[r], req[r])
      BY OneRequest
    <2>3. records[op[r].rid] \in ZoneIds
      BY <1>2 DEF LocksInv, Tables, TypeOK
    <2>4. /\ x \in RequestRow /\ x.pc = "begin" /\ x.conns = req[r].conns /\ x.seen = req[r].seen
          /\ x.shared = req[r].shared /\ x.excl = req[r].excl /\ x.key = req[r].key /\ x.todo = req[r].todo
      BY <2>2, <2>3, Zenon DEF RequestRow, Steps
    <2> HIDE DEF x
    <2>5. Held(x) = Held(req[r])
      BY <2>4 DEF Held
    <2>6. Held(x) = {} /\ x.shared = {} /\ x.excl = {} /\ x.key = {} /\ x.conns = 0
      BY <2>1, <2>2, <2>4, <2>5 DEF ReqOK, Place, InTx
    <2>7. ReqOK(op[r], x)
      BY <2>2, <2>4, <2>6, KindHasStep DEF ReqOK, Place, Rows, Granted, Keyed, InTx
    <2>8. \A q \in Requests \ {r} : Apart(x, req[q]) /\ Apart(req[q], x)
      BY <2>4, <2>5, StaysApart DEF InTx
    <2> QED BY <2>1, <2>4, <2>7, <2>8, RequestStep
  <1> QED BY <1>1, <1>2

\* The friendly check of a creation, or of a rename under its lock.
LEMMA CheckNameKeeps ==
  ASSUME LocksInv, NEW r \in Requests, CheckName(r)
  PROVE  LocksInv'
  <1>1. CASE IdsNamed(op[r].to) \ Locked(r) # {}
    BY <1>1, RefuseKeeps DEF CheckName
  <1>2. CASE ~(IdsNamed(op[r].to) \ Locked(r) # {})
    <2> DEFINE x == [req[r] EXCEPT !.pc = IF @ = "check" THEN "begin" ELSE "key"]
    <2>1. Go(r, x) /\ UNCHANGED <<stored, op>> /\ req[r].pc \in {"check", "name"}
      BY <1>2 DEF CheckName
    <2>2. op[r] \in Operation /\ op[r].kind \in Kinds /\ req[r] \in RequestRow /\ ReqOK(op[r], req[r])
      BY OneRequest
    <2>4. /\ x \in RequestRow /\ x.pc = (IF req[r].pc = "check" THEN "begin" ELSE "key")
          /\ x.conns = req[r].conns /\ x.seen = req[r].seen /\ x.zone = req[r].zone
          /\ x.shared = req[r].shared /\ x.excl = req[r].excl /\ x.key = req[r].key /\ x.todo = req[r].todo
      BY <2>2 DEF RequestRow, Steps
    <2> HIDE DEF x
    <2>5. Held(x) = Held(req[r])
      BY <2>4 DEF Held
    <2>6. /\ req[r].pc = "check" => op[r].kind = "create" /\ x.pc = "begin"
          /\ req[r].pc = "name" => op[r].kind = "rename" /\ x.pc = "key"
      BY <2>1, <2>2, <2>4, StepsOfKind DEF ReqOK, Place
    <2>7. ReqOK(op[r], x)
      <3>1. Place(op[r], x)
        BY <2>1, <2>2, <2>4, <2>5, <2>6, KindHasStep DEF ReqOK, Place, InTx
      <3>2. Rows(op[r], x)
        BY <2>1, <2>2, <2>4, <2>5, <2>6 DEF ReqOK, Rows
      <3>3. Granted(op[r], x) /\ Keyed(op[r], x)
        BY <2>1, <2>2, <2>4, <2>5, <2>6 DEF ReqOK, Granted, Keyed, Scoped
      <3> QED BY <3>1, <3>2, <3>3 DEF ReqOK
    <2>8. \A q \in Requests \ {r} : Apart(x, req[q]) /\ Apart(req[q], x)
      <3>1. backend = "sqlite" /\ x.pc \in InTx => \A q \in Requests \ {r} : req[q].pc \notin InTx
        BY <2>1, <2>6, OneRequest DEF InTx, Apart
      <3> QED BY <2>4, <2>5, <3>1, StaysApart
    <2> QED BY <2>1, <2>4, <2>7, <2>8, RequestStep
  <1> QED BY <1>1, <1>2

\* AfterBegin leads to the steps of the kind.
LEMMA AfterBeginStep ==
  ASSUME NEW o \in Operation
  PROVE  /\ AfterBegin(o) \in {"list", "key", "cascade", "zone"} /\ AfterBegin(o) \in PcsOf(o.kind)
         /\ AfterBegin(o) = "list" <=> o.kind = "external"
         /\ AfterBegin(o) = "key" <=> o.kind = "create"
         /\ AfterBegin(o) = "cascade" <=> o.kind \in {"token", "revoke"}
  BY OperationFields, KindHasStep DEF AfterBegin, Kinds

\* begin_transaction: only a connection is taken.
LEMMA BeginKeeps ==
  ASSUME LocksInv, NEW r \in Requests, Begin(r)
  PROVE  LocksInv'
  <1> DEFINE pc == IF backend = "sqlite" THEN "immediate" ELSE AfterBegin(op[r])
             todo == IF op[r].kind \in {"write", "rename", "delete"} THEN {op[r].zone} ELSE {}
             x == [req[r] EXCEPT !.pc = pc, !.conns = 1, !.todo = todo]
  <1>1. Go(r, x) /\ UNCHANGED <<stored, op>> /\ req[r].pc = "begin"
    BY DEF Begin
  <1>2. op[r] \in Operation /\ op[r].kind \in Kinds /\ req[r] \in RequestRow /\ ReqOK(op[r], req[r])
    BY OneRequest
  <1>3. /\ pc \in Steps /\ pc \in PcsOf(op[r].kind) /\ todo \in SUBSET ZoneNames
        /\ pc \in InTx \cup {"immediate"} /\ (pc = "immediate" => backend = "sqlite")
        /\ backend = "sqlite" => pc = "immediate"
        /\ pc \in {"immediate", "zone"} /\ op[r].kind \in {"write", "rename", "delete"} => todo # {}
        /\ pc = "zone" => op[r].kind \in {"write", "rename", "delete", "record"}
        /\ op[r].kind \in {"write", "rename", "delete"} => todo \subseteq {op[r].zone}
        /\ pc \notin {"policy", "name", "commit"}
        /\ pc \in {"key", "cascade"} => op[r].kind \in {"create", "token", "revoke"}
    BY <1>2, AfterBeginStep, OperationFields, KindHasStep DEF Steps, InTx, Kinds
  <1> HIDE DEF pc, todo
  <1>4. /\ x \in RequestRow /\ x.pc = pc /\ x.conns = 1 /\ x.seen = req[r].seen /\ x.todo = todo
        /\ x.shared = req[r].shared /\ x.excl = req[r].excl /\ x.key = req[r].key
    BY <1>2, <1>3, Zenon DEF RequestRow
  <1> HIDE DEF x
  <1>5. Held(x) = Held(req[r])
    BY <1>4 DEF Held
  <1>6. Held(x) = {} /\ x.shared = {} /\ x.excl = {} /\ x.key = {}
    BY <1>1, <1>2, <1>4, <1>5 DEF ReqOK, Place, InTx
  <1>7. ReqOK(op[r], x)
    BY <1>3, <1>4, <1>6 DEF ReqOK, Place, Rows, Granted, Keyed
  <1>8. \A q \in Requests \ {r} : Apart(x, req[q]) /\ Apart(req[q], x)
    <2>1. backend = "sqlite" => x.pc \notin InTx
      BY <1>3, <1>4 DEF InTx
    <2> QED BY <1>4, <1>5, <2>1, StaysApart
  <1> QED BY <1>1, <1>4, <1>7, <1>8, RequestStep

\* BEGIN IMMEDIATE returns when nobody else is in a transaction.
LEMMA BeginImmediateKeeps ==
  ASSUME LocksInv, NEW r \in Requests, BeginImmediate(r)
  PROVE  LocksInv'
  <1> DEFINE pc == AfterBegin(op[r])
             x == [req[r] EXCEPT !.pc = pc]
  <1>1. Go(r, x) /\ UNCHANGED <<stored, op>> /\ req[r].pc = "immediate"
    BY DEF BeginImmediate
  <1>2. op[r] \in Operation /\ op[r].kind \in Kinds /\ req[r] \in RequestRow /\ ReqOK(op[r], req[r])
    BY OneRequest
  <1>3. /\ pc \in Steps /\ pc \in PcsOf(op[r].kind) /\ pc \in InTx
        /\ pc = "zone" => op[r].kind \in {"write", "rename", "delete", "record"}
        /\ pc \notin {"immediate", "policy", "name", "commit"}
        /\ pc \in {"key", "cascade"} => op[r].kind \in {"create", "token", "revoke"}
    BY <1>2, AfterBeginStep, OperationFields DEF Steps, InTx, Kinds
  <1> HIDE DEF pc
  <1>4. /\ x \in RequestRow /\ x.pc = pc /\ x.conns = req[r].conns /\ x.seen = req[r].seen
        /\ x.todo = req[r].todo /\ x.shared = req[r].shared /\ x.excl = req[r].excl /\ x.key = req[r].key
    BY <1>2, <1>3 DEF RequestRow
  <1> HIDE DEF x
  <1>5. Held(x) = Held(req[r])
    BY <1>4 DEF Held
  <1>6. Held(x) = {} /\ x.shared = {} /\ x.excl = {} /\ x.key = {} /\ x.conns = 1
    BY <1>1, <1>2, <1>4, <1>5 DEF ReqOK, Place, InTx
  <1>7. ReqOK(op[r], x)
    BY <1>1, <1>2, <1>3, <1>4, <1>6 DEF ReqOK, Place, Rows, Granted, Keyed
  <1>8. \A q \in Requests \ {r} : Apart(x, req[q]) /\ Apart(req[q], x)
    <2>1. \A q \in Requests \ {r} : req[q].pc \notin InTx
      BY <1>1 DEF BeginImmediate, Blockers, Others, InTransaction, InTx
    <2> QED BY <1>4, <1>5, <2>1, StaysApart
  <1> QED BY <1>1, <1>4, <1>7, <1>8, RequestStep

\* list_zones_tx and group_ops_by_zone.
LEMMA ListZonesKeeps ==
  ASSUME LocksInv, NEW r \in Requests, ListZones(r)
  PROVE  LocksInv'
  <1>1. CASE ~(\A n \in op[r].zones : IdsNamed(n) # {})
    BY <1>1, RefuseKeeps DEF ListZones
  <1>2. CASE \A n \in op[r].zones : IdsNamed(n) # {}
    <2> DEFINE x == [req[r] EXCEPT !.pc = "zone", !.todo = op[r].zones]
    <2>1. Go(r, x) /\ UNCHANGED <<stored, op>> /\ req[r].pc = "list"
      BY <1>2 DEF ListZones
    <2>2. op[r] \in Operation /\ op[r].kind \in Kinds /\ req[r] \in RequestRow /\ ReqOK(op[r], req[r])
      BY OneRequest
    <2>3. op[r].kind = "external" /\ op[r].zones \in SUBSET ZoneNames /\ op[r].zones # {}
      BY <2>1, <2>2, StepsOfKind, OperationFields DEF ReqOK, Place
    <2>4. /\ x \in RequestRow /\ x.pc = "zone" /\ x.conns = req[r].conns /\ x.seen = req[r].seen
          /\ x.todo = op[r].zones
          /\ x.shared = req[r].shared /\ x.excl = req[r].excl /\ x.key = req[r].key
      BY <2>2, <2>3, Zenon DEF RequestRow, Steps
    <2> HIDE DEF x
    <2>5. Held(x) = Held(req[r]) /\ Held(x) = {}
      BY <2>1, <2>2, <2>4 DEF Held, ReqOK, Rows
    <2>7. ReqOK(op[r], x)
      <3>1. Place(op[r], x)
        BY <2>1, <2>2, <2>3, <2>4, <2>5, KindHasStep DEF ReqOK, Place, InTx
      <3>2. Rows(op[r], x)
        BY <2>3, <2>4, <2>5 DEF Rows
      <3>3. Granted(op[r], x) /\ Keyed(op[r], x)
        BY <2>1, <2>2, <2>3, <2>4, <2>5 DEF ReqOK, Granted, Keyed
      <3> QED BY <3>1, <3>2, <3>3 DEF ReqOK
    <2>8. \A q \in Requests \ {r} : Apart(x, req[q]) /\ Apart(req[q], x)
      <3>1. backend = "sqlite" => \A q \in Requests \ {r} : req[q].pc \notin InTx
        BY <2>1, OneRequest DEF InTx, Apart
      <3> QED BY <2>4, <2>5, <3>1, StaysApart, Zenon
    <2> QED BY <2>1, <2>4, <2>7, <2>8, RequestStep
  <1> QED BY <1>1, <1>2

-----------------------------------------------------------------------------
(* Steps that take a lock                                                  *)

\* What Smallest returns of a set of naturals; MinIsLeast shows it.
MinLeast == \A S \in SUBSET Nat : S # {} => Smallest(S) \in S /\ \A y \in S : Smallest(S) <= y

\* The zones a request waits for: rows of the table, by id for a record and by
\* the smallest name otherwise.
LEMMA WantedRows ==
  ASSUME MinLeast, LocksInv, NEW r \in Requests, req[r].pc = "zone", NEW z \in Wanted(r)
  PROVE  /\ z \in DOMAIN table /\ z \in ZoneIds
         /\ op[r].kind = "record" => z = req[r].zone
         /\ op[r].kind # "record" => /\ table[z].name = Smallest(req[r].todo)
                                     /\ Smallest(req[r].todo) \in req[r].todo
                                     /\ \A n \in req[r].todo \ {Smallest(req[r].todo)} : Smallest(req[r].todo) < n
  <1>1. DOMAIN table \subseteq ZoneIds
    BY DEF LocksInv, Tables, TypeOK
  <1>2. CASE op[r].kind = "record"
    BY <1>1, <1>2 DEF Wanted
  <1>3. CASE op[r].kind # "record"
    <2>1. req[r].todo # {} /\ req[r].todo \in SUBSET ZoneNames /\ req[r].todo \in SUBSET Nat
      BY <1>3, OneRequest, ZoneLocksAssumption DEF ReqOK, Rows, RequestRow
    <2>2. Smallest(req[r].todo) \in req[r].todo /\ \A y \in req[r].todo : Smallest(req[r].todo) <= y
      BY <2>1 DEF MinLeast
    <2>3. z \in IdsNamed(Smallest(req[r].todo))
      BY <1>3 DEF Wanted
    <2>4. \A n \in req[r].todo \ {Smallest(req[r].todo)} : Smallest(req[r].todo) < n
      BY <2>1, <2>2
    <2> QED BY <1>1, <1>3, <2>2, <2>3, <2>4 DEF IdsNamed
  <1> QED BY <1>2, <1>3

\* The locking read of a zone row that nobody else has locked.
LEMMA LockZoneKeeps ==
  ASSUME MinLeast, LocksInv, NEW r \in Requests, LockZone(r)
  PROVE  LocksInv'
  <1>1. CASE Wanted(r) = {} \/ RecordGone(r)
    BY <1>1, RefuseKeeps, Zenon DEF LockZone
  <1>2. CASE ~(Wanted(r) = {} \/ RecordGone(r))
    <2> DEFINE pc == AfterZone(op[r])
               rest == IF op[r].kind = "record" THEN {} ELSE req[r].todo \ {Smallest(req[r].todo)}
               X(z) == [req[r] EXCEPT !.pc = pc, !.zone = z,
                          !.seen = [req[r].seen EXCEPT ![z] = table[z].serial], !.todo = rest]
    <2>1. PICK z \in Wanted(r) : Go(r, X(z))
      BY <1>2, Zenon DEF LockZone
    <2>2. UNCHANGED <<stored, op>> /\ req[r].pc = "zone" /\ Blockers(r) = {}
      BY Zenon DEF LockZone
    <2>3. op[r] \in Operation /\ op[r].kind \in Kinds /\ req[r] \in RequestRow /\ ReqOK(op[r], req[r])
      BY OneRequest
    <2>4. op[r].kind \in {"write", "record", "external", "rename", "delete"}
      BY <2>2, <2>3, StepsOfKind DEF ReqOK, Place
    <2>5. \/ pc = "name" /\ op[r].kind = "rename"
          \/ pc = "cascade" /\ op[r].kind = "delete"
          \/ pc = "policy" /\ op[r].kind \in {"write", "record", "external"}
      BY <2>4 DEF AfterZone
    <2>6. /\ z \in DOMAIN table /\ z \in ZoneIds
          /\ op[r].kind = "record" => z = req[r].zone
          /\ op[r].kind # "record" => /\ table[z].name = Smallest(req[r].todo)
                                      /\ Smallest(req[r].todo) \in req[r].todo
                                      /\ \A n \in req[r].todo \ {Smallest(req[r].todo)} : Smallest(req[r].todo) < n
      BY <2>2, WantedRows
    <2>7. /\ table[z].serial \in Nat /\ table[z].serial > 0 /\ rest \subseteq req[r].todo
          /\ rest \in SUBSET ZoneNames
          /\ \A n \in rest : table[z].name < n
          /\ op[r].kind # "external" => rest = {}
      <3>1. table[z].serial \in Nat /\ table[z].serial > 0
        BY <2>6 DEF LocksInv, Tables, TypeOK, NoLostUpdate
      <3>2. rest \subseteq req[r].todo /\ rest \in SUBSET ZoneNames /\ \A n \in rest : table[z].name < n
        BY <2>3, <2>6 DEF RequestRow
      <3>3. op[r].kind # "external" => rest = {}
        BY <2>3, <2>4, <2>6 DEF ReqOK, Rows
      <3> QED BY <3>1, <3>2, <3>3
    <2> DEFINE x == X(z)
    <2> HIDE DEF pc, rest
    <2>8. /\ x \in RequestRow /\ x.pc = pc /\ x.conns = req[r].conns /\ x.zone = z /\ x.todo = rest
          /\ x.seen = [req[r].seen EXCEPT ![z] = table[z].serial]
          /\ x.shared = req[r].shared /\ x.excl = req[r].excl /\ x.key = req[r].key
      BY <2>3, <2>5, <2>6, <2>7, Zenon DEF RequestRow, Steps
    <2> HIDE DEF x
    <2>9. /\ Held(x) = Held(req[r]) \cup {z} /\ x.seen[z] = table[z].serial
          /\ \A y \in Held(req[r]) \ {z} : x.seen[y] = req[r].seen[y]
      BY <2>3, <2>6, <2>7, <2>8 DEF Held, RequestRow
    <2>10. Place(op[r], x)
      BY <2>2, <2>3, <2>5, <2>8, KindHasStep DEF ReqOK, Place, InTx
    <2>11. Rows(op[r], x)
      <3>1. op[r].kind # "external" => Held(req[r]) = {}
        BY <2>2, <2>3 DEF ReqOK, Rows
      <3>2. op[r].kind = "record" => op[r].rid \in DOMAIN records /\ records[op[r].rid] = z
        BY <1>2, <2>6 DEF RecordGone
      <3>3. \A y \in Held(x) : y \in DOMAIN table /\ x.seen[y] = table[y].serial
        BY <2>3, <2>6, <2>9 DEF ReqOK, Rows
      <3>4. \A y \in Held(x) : \A n \in x.todo : table[y].name < n
        BY <2>3, <2>7, <2>8, <2>9 DEF ReqOK, Rows
      <3> QED BY <2>4, <2>5, <2>7, <2>8, <2>9, <3>1, <3>2, <3>3, <3>4 DEF Rows
    <2>12. Granted(op[r], x)
      BY <2>2, <2>3, <2>4, <2>5, <2>8, <2>9 DEF ReqOK, Granted, Scoped
    <2>13. Keyed(op[r], x)
      BY <2>2, <2>3, <2>5, <2>8 DEF ReqOK, Keyed
    <2>14. \A q \in Requests \ {r} : Apart(x, req[q]) /\ Apart(req[q], x)
      <3>1. \A q \in Requests \ {r} : z \notin Held(req[q])
        BY <2>1, <2>2, LockedIsHeld DEF Blockers, Others
      <3>2. backend = "sqlite" => \A q \in Requests \ {r} : req[q].pc \notin InTx
        BY <2>2, OneRequest DEF InTx, Apart
      <3> QED BY <2>8, <2>9, <3>1, <3>2, OneRequest DEF Apart
    <2>15. ReqOK(op[r], x)
      BY <2>10, <2>11, <2>12, <2>13 DEF ReqOK
    <2> QED BY <2>1, <2>2, <2>8, <2>14, <2>15, RequestStep DEF x
  <1> QED BY <1>1, <1>2

\* authorize_record_writes_tx takes the policies of the zone in share mode, which
\* nobody has locked exclusively.
LEMMA AuthorizeKeeps ==
  ASSUME LocksInv, NEW r \in Requests, Authorize(r)
  PROVE  LocksInv'
  <1>1. CASE Scoped(op[r]) /\ PoliciesOf(req[r].zone) = {}
    BY <1>1, RefuseKeeps DEF Authorize
  <1>2. CASE ~(Scoped(op[r]) /\ PoliciesOf(req[r].zone) = {})
    <2> DEFINE pc == IF req[r].todo = {} THEN "commit" ELSE "zone"
               shared == IF Scoped(op[r]) THEN req[r].shared \cup PoliciesOf(req[r].zone) ELSE req[r].shared
               x == [req[r] EXCEPT !.pc = pc, !.shared = shared]
    <2>1. Go(r, x) /\ UNCHANGED <<stored, op>> /\ req[r].pc = "policy" /\ Blockers(r) = {}
      BY <1>2 DEF Authorize
    <2>2. op[r] \in Operation /\ op[r].kind \in Kinds /\ req[r] \in RequestRow /\ ReqOK(op[r], req[r])
      BY OneRequest
    <2>3. op[r].kind \in {"write", "record", "external"}
      BY <2>1, <2>2, StepsOfKind DEF ReqOK, Place
    <2>4. /\ pc \in {"commit", "zone"} /\ (pc = "zone" => req[r].todo # {} /\ op[r].kind = "external")
          /\ pc \in PcsOf(op[r].kind)
      BY <2>1, <2>2, <2>3, KindHasStep DEF ReqOK, Rows
    <2>5. /\ shared \in SUBSET DOMAIN PolicyZone
          /\ \A p \in shared : p \in req[r].shared \/ p \in PoliciesOf(req[r].zone)
          /\ req[r].shared \subseteq shared
          /\ Scoped(op[r]) => PoliciesOf(req[r].zone) \subseteq shared /\ PoliciesOf(req[r].zone) # {}
          /\ ~Scoped(op[r]) => shared = req[r].shared
      BY <1>2, <2>2 DEF RequestRow, PoliciesOf, LocksInv, Tables, TypeOK
    <2> HIDE DEF pc, shared
    <2>6. /\ x \in RequestRow /\ x.pc = pc /\ x.conns = req[r].conns /\ x.seen = req[r].seen
          /\ x.zone = req[r].zone /\ x.todo = req[r].todo /\ x.shared = shared
          /\ x.excl = req[r].excl /\ x.key = req[r].key
      BY <2>2, <2>4, <2>5, ZenonT(30) DEF RequestRow, Steps
    <2> HIDE DEF x
    <2>7. Held(x) = Held(req[r]) /\ x.zone \in Held(x)
      BY <2>1, <2>2, <2>3, <2>6 DEF Held, ReqOK, Rows
    <2>8. Place(op[r], x)
      BY <2>1, <2>2, <2>4, <2>6 DEF ReqOK, Place, InTx
    <2>9. Rows(op[r], x)
      BY <2>1, <2>2, <2>3, <2>4, <2>6, <2>7 DEF ReqOK, Rows
    <2>10. Granted(op[r], x)
      <3>1. x.excl = {}
        BY <2>1, <2>2, <2>3, <2>6 DEF ReqOK, Granted
      <3>2. \A p \in x.shared : p \in policies /\ PolicyZone[p] \in Held(x)
        BY <2>2, <2>5, <2>6, <2>7 DEF ReqOK, Granted, PoliciesOf
      <3>3. Scoped(op[r]) => \A z \in Held(x) : \E p \in x.shared : PolicyZone[p] = z
        <4> SUFFICES ASSUME Scoped(op[r]), NEW z \in Held(x) PROVE \E p \in x.shared : PolicyZone[p] = z
          OBVIOUS
        <4>1. CASE z = req[r].zone
          BY <2>5, <2>6, <4>1 DEF PoliciesOf
        <4>2. CASE z # req[r].zone
          BY <2>2, <2>5, <2>6, <2>7, <4>2 DEF ReqOK, Granted
        <4> QED BY <4>1, <4>2
      <3> QED BY <3>1, <3>2, <3>3 DEF Granted
    <2>11. Keyed(op[r], x)
      BY <2>1, <2>2, <2>3, <2>6 DEF ReqOK, Keyed
    <2>12. \A q \in Requests \ {r} : Apart(x, req[q]) /\ Apart(req[q], x)
      <3>1. \A q \in Requests \ {r} : x.shared \cap req[q].excl = {}
        BY <2>1, <2>5, <2>6, OneRequest DEF Apart, Blockers, Others
      <3>2. backend = "sqlite" => \A q \in Requests \ {r} : req[q].pc \notin InTx
        BY <2>1, OneRequest DEF InTx, Apart
      <3> QED BY <2>6, <2>7, <3>1, <3>2, OneRequest DEF Apart
    <2>13. ReqOK(op[r], x)
      BY <2>8, <2>9, <2>10, <2>11 DEF ReqOK
    <2> QED BY <2>1, <2>6, <2>12, <2>13, RequestStep
  <1> QED BY <1>1, <1>2

\* INSERT or UPDATE of a zone row under UNIQUE(name).
LEMMA WriteKeyKeeps ==
  ASSUME LocksInv, NEW r \in Requests, WriteKey(r)
  PROVE  LocksInv'
  <1>1. CASE IdsNamed(op[r].to) \ Locked(r) # {}
    BY <1>1, RefuseKeeps DEF WriteKey
  <1>2. CASE ~(IdsNamed(op[r].to) \ Locked(r) # {})
    <2> DEFINE x == [req[r] EXCEPT !.pc = "commit", !.key = {op[r].to}]
    <2>1. Go(r, x) /\ UNCHANGED <<stored, op>> /\ req[r].pc = "key" /\ Blockers(r) = {}
      BY <1>2 DEF WriteKey
    <2>2. op[r] \in Operation /\ op[r].kind \in Kinds /\ req[r] \in RequestRow /\ ReqOK(op[r], req[r])
      BY OneRequest
    <2>3. op[r].kind \in {"rename", "create"} /\ op[r].to \in ZoneNames
      BY <2>1, <2>2, StepsOfKind, OperationFields DEF ReqOK, Place
    <2>4. /\ x \in RequestRow /\ x.pc = "commit" /\ x.conns = req[r].conns /\ x.seen = req[r].seen
          /\ x.zone = req[r].zone /\ x.todo = req[r].todo /\ x.shared = req[r].shared
          /\ x.excl = req[r].excl /\ x.key = {op[r].to}
      BY <2>2, <2>3, Zenon DEF RequestRow, Steps
    <2> HIDE DEF x
    <2>5. Held(x) = Held(req[r])
      BY <2>4 DEF Held
    <2>6. Place(op[r], x)
      BY <2>1, <2>2, <2>4, KindHasStep DEF ReqOK, Place, InTx
    <2>7. Rows(op[r], x)
      BY <2>1, <2>2, <2>3, <2>4, <2>5, ZenonT(30) DEF ReqOK, Rows
    <2>8. Granted(op[r], x)
      BY <2>1, <2>2, <2>3, <2>4, <2>5 DEF ReqOK, Granted, Scoped
    <2>9. Keyed(op[r], x)
      BY <1>2, <2>3, <2>4, <2>5, LockedIsHeld DEF Keyed, IdsNamed
    <2>10. \A q \in Requests \ {r} : Apart(x, req[q]) /\ Apart(req[q], x)
      <3>1. \A q \in Requests \ {r} : op[r].to \notin req[q].key
        BY <2>1 DEF Blockers, KeyOwners, Others
      <3>2. backend = "sqlite" => \A q \in Requests \ {r} : req[q].pc \notin InTx
        BY <2>1, OneRequest DEF InTx, Apart
      <3> QED BY <2>4, <2>5, <3>1, <3>2, OneRequest DEF Apart
    <2>11. ReqOK(op[r], x)
      BY <2>6, <2>7, <2>8, <2>9 DEF ReqOK
    <2> QED BY <2>1, <2>4, <2>10, <2>11, RequestStep
  <1> QED BY <1>1, <1>2

\* Row locks of a DELETE on policies that nobody else has locked.
LEMMA LockCascadeKeeps ==
  ASSUME MinLeast, LocksInv, NEW r \in Requests, LockCascade(r)
  PROVE  LocksInv'
  <1> DEFINE excl == req[r].excl \cup Target(r)
             pc == IF op[r].kind = "token" /\ policies \ excl # {} THEN "cascade" ELSE "commit"
             x == [req[r] EXCEPT !.pc = pc, !.excl = excl]
  <1>1. Go(r, x) /\ UNCHANGED <<stored, op>> /\ req[r].pc = "cascade" /\ Blockers(r) = {}
    BY DEF LockCascade
  <1>2. op[r] \in Operation /\ op[r].kind \in Kinds /\ req[r] \in RequestRow /\ ReqOK(op[r], req[r])
    BY OneRequest
  <1>3. op[r].kind \in {"delete", "token", "revoke"}
    BY <1>1, <1>2, StepsOfKind DEF ReqOK, Place
  <1>4. pc \in {"cascade", "commit"} /\ pc \in PcsOf(op[r].kind) /\ (pc = "cascade" => op[r].kind = "token")
    BY <1>2, <1>3, KindHasStep
  <1>5. Target(r) \in SUBSET DOMAIN PolicyZone
    <2>1. policies \in SUBSET DOMAIN PolicyZone /\ policies \in SUBSET Nat
      BY ZoneLocksAssumption DEF LocksInv, Tables, TypeOK
    <2>2. CASE op[r].kind = "token"
      <3>1. CASE policies \ req[r].excl = {}
        BY <2>2, <3>1 DEF Target
      <3>2. CASE policies \ req[r].excl # {}
        <4>1. Smallest(policies \ req[r].excl) \in policies \ req[r].excl
          BY <2>1, <3>2 DEF MinLeast
        <4> QED BY <2>1, <2>2, <3>2, <4>1 DEF Target
      <3> QED BY <3>1, <3>2
    <2>3. CASE op[r].kind # "token"
      BY <2>1, <2>3 DEF Target, PoliciesOf
    <2> QED BY <2>2, <2>3
  <1>6. excl \in SUBSET DOMAIN PolicyZone
    BY <1>2, <1>5 DEF RequestRow
  <1> HIDE DEF pc
  <1>7. /\ x \in RequestRow /\ x.pc = pc /\ x.conns = req[r].conns /\ x.seen = req[r].seen
        /\ x.zone = req[r].zone /\ x.todo = req[r].todo /\ x.shared = req[r].shared
        /\ x.excl = req[r].excl \cup Target(r) /\ x.key = req[r].key
    BY <1>2, <1>4, <1>6, Zenon DEF RequestRow, Steps
  <1> HIDE DEF x
  <1>8. Held(x) = Held(req[r])
    BY <1>7 DEF Held
  <1>9. Place(op[r], x)
    BY <1>1, <1>2, <1>4, <1>7 DEF ReqOK, Place, InTx
  <1>10. Rows(op[r], x)
    BY <1>1, <1>2, <1>3, <1>4, <1>7, <1>8, ZenonT(30) DEF ReqOK, Rows
  <1>11. Granted(op[r], x) /\ Keyed(op[r], x)
    BY <1>1, <1>2, <1>3, <1>4, <1>7, <1>8 DEF ReqOK, Granted, Keyed, Scoped
  <1>12. \A q \in Requests \ {r} : Apart(x, req[q]) /\ Apart(req[q], x)
    <2>1. \A q \in Requests \ {r} : Target(r) \cap (req[q].shared \cup req[q].excl) = {}
      BY <1>1 DEF Blockers, Others
    <2>2. backend = "sqlite" => \A q \in Requests \ {r} : req[q].pc \notin InTx
      BY <1>1, OneRequest, Zenon DEF InTx, Apart
    <2> QED BY <1>7, <1>8, <2>1, <2>2, OneRequest, Zenon DEF Apart
  <1>13. ReqOK(op[r], x)
    BY <1>9, <1>10, <1>11 DEF ReqOK
  <1> QED BY <1>1, <1>7, <1>12, <1>13, RequestStep

-----------------------------------------------------------------------------
(* Commits                                                                 *)

\* What a commit of r may change: rows it has locked, names it has written to
\* the index, policies it has locked or whose zone it has locked.
LEMMA CommitFrame ==
  ASSUME LocksInv, NEW r \in Requests, Go(r, Fresh("done")), UNCHANGED <<backend, op>>,
         Tables', NoLostUpdate', NamesUnique',
         \A z \in DOMAIN table \ Held(req[r]) : z \in DOMAIN table' /\ table'[z] = table[z],
         \A z \in DOMAIN table' : \/ z \in DOMAIN table /\ table'[z].name = table[z].name
                                  \/ table'[z].name \in req[r].key,
         \A i \in DOMAIN records : records[i] \notin Held(req[r]) => i \in DOMAIN records' /\ records'[i] = records[i],
         \A p \in policies : p \notin req[r].excl /\ PolicyZone[p] \notin Held(req[r]) => p \in policies'
  PROVE  LocksInv'
  <1>1. /\ req'[r] = Fresh("done") /\ \A q \in Requests \ {r} : req'[q] = req[q]
    BY DEF LocksInv, Tables, TypeOK, Go
  <1>2. ReqOK(op[r], Fresh("done"))' /\ \A y : Apart(Fresh("done"), y)' /\ Apart(y, Fresh("done"))'
    <2>1. op[r] \in Operation
      BY OneRequest
    <2> DEFINE x == Fresh("done")
    <2>2. /\ x.pc = "done" /\ x.conns = 0 /\ Held(x) = {}
          /\ x.todo = {} /\ x.shared = {} /\ x.excl = {} /\ x.key = {}
      BY FreshRow DEF Steps
    <2>3. "done" \in PcsOf(op[r].kind)
      BY <2>1, OperationFields, KindHasStep
    <2> HIDE DEF x
    <2>4. ReqOK(op[r], x)'
      BY <2>2, <2>3 DEF ReqOK, Place, Rows, Granted, Keyed, InTx
    <2>5. \A y : Apart(x, y)' /\ Apart(y, x)'
      BY <2>2 DEF Apart, InTx
    <2> QED BY <2>4, <2>5 DEF x
  <1>3. ASSUME NEW q \in Requests, q # r
        PROVE  ReqOK(op[q], req[q])'
    <2>1. /\ op[q] \in Operation /\ ReqOK(op[q], req[q]) /\ Apart(req[r], req[q]) /\ Apart(req[q], req[r])
      BY <1>3, OneRequest
    <2>2. req'[q] = req[q] /\ op' = op /\ backend' = backend
      BY <1>1, <1>3
    <2> DEFINE x == req[q]
               o == op[q]
    <2>3. Place(o, x)'
      BY <2>1, <2>2, Zenon DEF ReqOK, Place
    <2>4. \A z \in Held(x) : z \in DOMAIN table /\ z \notin Held(req[r]) /\ z \in DOMAIN table' /\ table'[z] = table[z]
      BY <2>1, Zenon DEF ReqOK, Rows, Apart
    <2>5. o.kind = "record" /\ x.pc \in {"policy", "commit"} => o.rid \in DOMAIN records' /\ records'[o.rid] = x.zone
      BY <2>1, <2>4, Zenon DEF ReqOK, Rows
    <2>6. Rows(o, x)'
      BY <2>1, <2>2, <2>4, <2>5, Zenon DEF ReqOK, Rows
    <2>7. \A p \in x.shared : p \in policies'
      BY <2>1, <2>4, Zenon DEF ReqOK, Granted, Apart
    <2>8. Granted(o, x)'
      BY <2>1, <2>2, <2>7, Zenon DEF ReqOK, Granted
    <2>9. Keyed(o, x)'
      BY <2>1, <2>2, Zenon DEF ReqOK, Keyed, Apart
    <2> QED BY <2>2, <2>3, <2>6, <2>8, <2>9, Zenon DEF ReqOK
  <1>4. ASSUME NEW q \in Requests, NEW s \in Requests, q # s, q # r, s # r
        PROVE  Apart(req[q], req[s])'
    BY <1>1, <1>4, ZenonT(30) DEF LocksInv, Apart
  <1>5. op' = op
    OBVIOUS
  <1>6. \A q \in Requests : ReqOK(op[q], req[q])'
    BY <1>1, <1>2, <1>3, <1>5, Zenon
  <1>7. \A q, s \in Requests : q # s => Apart(req[q], req[s])'
    BY <1>1, <1>2, <1>4, Zenon
  <1> QED BY <1>6, <1>7, Zenon DEF LocksInv

\* The row of r after its commit is typed, as are those of the others.
LEMMA DoneTyped ==
  ASSUME LocksInv, NEW r \in Requests, Go(r, Fresh("done")), UNCHANGED <<backend, op>>
  PROVE  backend' \in Backends /\ op' \in [Requests -> Operation] /\ req' \in [Requests -> RequestRow]
  BY FreshRow DEF LocksInv, Tables, TypeOK, Go, Steps

\* A write of records: every changed zone gets the serial after the one it was
\* locked with.
LEMMA CommitWriteKeeps ==
  ASSUME LocksInv, NEW r \in Requests, req[r].pc = "commit", CommitWrite(r),
         Go(r, Fresh("done")), UNCHANGED <<backend, op>>
  PROVE  LocksInv'
  <1>1. /\ op[r] \in Operation /\ req[r] \in RequestRow /\ ReqOK(op[r], req[r]) /\ Locked(r) = Held(req[r])
        /\ op[r].kind \in {"write", "record", "external"}
    BY OneRequest DEF CommitWrite
  <1>2. PICK changed \in SUBSET Locked(r) : Advance(r, changed)
    BY DEF CommitWrite
  <1>3. \A z \in changed : z \in ZoneIds /\ z \in DOMAIN table /\ req[r].seen[z] = table[z].serial
    BY <1>1, <1>2, Zenon DEF ReqOK, Rows, Held
  <1>4. /\ TypeOK /\ (\A z \in DOMAIN table : z < nextId) /\ (\A z \in ZoneIds : z >= nextId => bumps[z] = 0)
        /\ NoLostUpdate /\ NamesUnique
    BY DEF LocksInv, Tables
  <1>5. /\ DOMAIN table' = DOMAIN table
        /\ \A z \in DOMAIN table \ changed : table'[z] = table[z] /\ bumps'[z] = bumps[z]
        /\ \A z \in changed : /\ table'[z].name = table[z].name /\ table'[z].serial = table[z].serial + 1
                              /\ bumps'[z] = bumps[z] + 1
        /\ table' \in [DOMAIN table -> [name : ZoneNames, serial : Nat]] /\ bumps' \in [ZoneIds -> Nat]
    <2>1. DOMAIN table \subseteq ZoneIds /\ table \in [DOMAIN table -> [name : ZoneNames, serial : Nat]]
          /\ bumps \in [ZoneIds -> Nat]
      BY <1>4 DEF TypeOK
    <2>2. /\ DOMAIN table' = DOMAIN table
          /\ \A z \in DOMAIN table \ changed : table'[z] = table[z] /\ bumps'[z] = bumps[z]
          /\ \A z \in changed : table'[z] = [table[z] EXCEPT !.serial = req[r].seen[z] + 1] /\ bumps'[z] = bumps[z] + 1
      BY <1>2, <1>3, <2>1 DEF Advance
    <2>3. \A z \in changed : /\ table'[z] \in [name : ZoneNames, serial : Nat]
                             /\ table'[z].name = table[z].name /\ table'[z].serial = table[z].serial + 1
      <3> SUFFICES ASSUME NEW z \in changed
                   PROVE  /\ table'[z] \in [name : ZoneNames, serial : Nat]
                          /\ table'[z].name = table[z].name /\ table'[z].serial = table[z].serial + 1
        OBVIOUS
      <3>1. table[z] \in [name : ZoneNames, serial : Nat]
        BY <1>3, <2>1
      <3>2. table'[z] = [table[z] EXCEPT !.serial = table[z].serial + 1]
        BY <1>3, <2>2
      <3> QED BY <3>1, <3>2
    <2>4. table' \in [DOMAIN table -> [name : ZoneNames, serial : Nat]]
      BY <1>2, <1>3, <2>1, <2>2, <2>3 DEF Advance
    <2>5. bumps' \in [ZoneIds -> Nat]
      BY <1>2, <2>1 DEF Advance
    <2> QED BY <2>2, <2>3, <2>4, <2>5, Zenon
  <1>6. /\ DOMAIN records' \subseteq DOMAIN records
        /\ \A i \in DOMAIN records' : records'[i] = records[i]
        /\ \A i \in DOMAIN records : records[i] \notin Held(req[r]) => i \in DOMAIN records'
        /\ records' = [i \in DOMAIN records' |-> records[i]]
    <2>1. records = [i \in DOMAIN records |-> records[i]]
      BY <1>4 DEF TypeOK
    <2>2. CASE op[r].kind = "record" /\ op[r].delete
      <3>1. records[op[r].rid] \in Held(req[r])
        BY <1>1, <2>2, Zenon DEF ReqOK, Rows
      <3>2. records' = [i \in DOMAIN records \ {op[r].rid} |-> records[i]]
        BY <2>2 DEF CommitWrite
      <3> QED BY <3>1, <3>2
    <2>3. CASE ~(op[r].kind = "record" /\ op[r].delete)
      BY <2>1, <2>3 DEF CommitWrite
    <2> QED BY <2>2, <2>3
  <1>7. nextId' = nextId /\ policies' = policies
    BY DEF CommitWrite
  <1>8. Tables'
    <2>1. records' \in [DOMAIN records' -> DOMAIN table'] /\ DOMAIN records' \subseteq DOMAIN InitRecords
      BY <1>4, <1>5, <1>6 DEF TypeOK
    <2>2. TypeOK'
      BY <1>4, <1>5, <1>7, <2>1, DoneTyped DEF TypeOK
    <2>3. \A z \in ZoneIds : z >= nextId' => bumps'[z] = 0
      <3> SUFFICES ASSUME NEW z \in ZoneIds, z >= nextId PROVE bumps'[z] = 0
        BY <1>7
      <3>1. z \notin changed
        BY <1>3, <1>4 DEF TypeOK, ZoneIds
      <3> QED BY <1>2, <1>4, <3>1 DEF Advance
    <2> QED BY <1>4, <1>5, <1>7, <2>2, <2>3 DEF Tables
  <1>9. NoLostUpdate'
    BY <1>3, <1>4, <1>5 DEF NoLostUpdate, TypeOK
  <1>10. NamesUnique'
    BY <1>4, <1>5 DEF NamesUnique
  <1> QED
    <2>1. \A z \in DOMAIN table \ Held(req[r]) : z \in DOMAIN table' /\ table'[z] = table[z]
      BY <1>1, <1>2, <1>5
    <2>2. \A z \in DOMAIN table' : z \in DOMAIN table /\ table'[z].name = table[z].name
      BY <1>5
    <2> QED BY <1>6, <1>7, <1>8, <1>9, <1>10, <2>1, <2>2, CommitFrame

\* A rename: no other zone has the name that was written to the index.
LEMMA CommitRenameKeeps ==
  ASSUME LocksInv, NEW r \in Requests, req[r].pc = "commit", CommitRename(r),
         Go(r, Fresh("done")), UNCHANGED <<backend, op>>
  PROVE  LocksInv'
  <1> DEFINE z == req[r].zone
  <1>1. /\ op[r] \in Operation /\ req[r] \in RequestRow /\ ReqOK(op[r], req[r])
        /\ op[r].kind = "rename" /\ op[r].to \in ZoneNames
    BY OneRequest, OperationFields DEF CommitRename
  <1>2. /\ Held(req[r]) = {z} /\ z \in ZoneIds /\ z \in DOMAIN table /\ req[r].seen[z] = table[z].serial
        /\ req[r].key = {op[r].to}
        /\ \A y \in DOMAIN table : table[y].name = op[r].to => y = z
    BY <1>1, Zenon DEF ReqOK, Rows, Keyed, Held
  <1>3. /\ TypeOK /\ (\A y \in DOMAIN table : y < nextId) /\ (\A y \in ZoneIds : y >= nextId => bumps[y] = 0)
        /\ NoLostUpdate /\ NamesUnique
    BY DEF LocksInv, Tables
  <1>4. /\ table' = [table EXCEPT ![z] = [name |-> op[r].to, serial |-> table[z].serial + 1]]
        /\ bumps' = [bumps EXCEPT ![z] = @ + 1]
        /\ UNCHANGED <<nextId, records, policies>>
    BY <1>2 DEF CommitRename
  <1> HIDE DEF z
  <1>5. /\ DOMAIN table' = DOMAIN table
        /\ \A y \in DOMAIN table \ {z} : table'[y] = table[y] /\ bumps'[y] = bumps[y]
        /\ table'[z].name = op[r].to /\ table'[z].serial = table[z].serial + 1 /\ bumps'[z] = bumps[z] + 1
        /\ table' \in [DOMAIN table -> [name : ZoneNames, serial : Nat]] /\ bumps' \in [ZoneIds -> Nat]
    BY <1>1, <1>2, <1>3, <1>4 DEF TypeOK
  <1>6. Tables'
    <2>1. TypeOK'
      BY <1>3, <1>4, <1>5, DoneTyped DEF TypeOK
    <2>2. \A y \in ZoneIds : y >= nextId' => bumps'[y] = 0
      <3> SUFFICES ASSUME NEW y \in ZoneIds, y >= nextId PROVE bumps'[y] = 0
        BY <1>4
      <3>1. y # z
        BY <1>2, <1>3 DEF TypeOK, ZoneIds
      <3> QED BY <1>3, <1>4, <3>1 DEF TypeOK
    <2> QED BY <1>3, <1>4, <1>5, <2>1, <2>2 DEF Tables
  <1>7. NoLostUpdate'
    BY <1>2, <1>3, <1>5 DEF NoLostUpdate, TypeOK
  <1>8. NamesUnique'
    BY <1>2, <1>3, <1>5 DEF NamesUnique
  <1> QED BY <1>2, <1>4, <1>5, <1>6, <1>7, <1>8, CommitFrame

\* A creation: the row gets an id no row has had, and a name no row has.
LEMMA CommitCreateKeeps ==
  ASSUME LocksInv, NEW r \in Requests, req[r].pc = "commit", CommitCreate(r),
         Go(r, Fresh("done")), UNCHANGED <<backend, op>>
  PROVE  LocksInv'
  <1>1. /\ op[r] \in Operation /\ req[r] \in RequestRow /\ ReqOK(op[r], req[r])
        /\ op[r].kind = "create" /\ op[r].to \in ZoneNames
    BY OneRequest, OperationFields, Zenon DEF CommitCreate
  <1>2. /\ Held(req[r]) = {} /\ req[r].key = {op[r].to}
        /\ \A y \in DOMAIN table : table[y].name # op[r].to
    BY <1>1, Zenon DEF ReqOK, Rows, Keyed
  <1>3. /\ TypeOK /\ (\A y \in DOMAIN table : y < nextId) /\ (\A y \in ZoneIds : y >= nextId => bumps[y] = 0)
        /\ NoLostUpdate /\ NamesUnique
    BY DEF LocksInv, Tables
  <1>4. /\ table' = [y \in DOMAIN table \cup {nextId} |->
                       IF y = nextId THEN [name |-> op[r].to, serial |-> 1] ELSE table[y]]
        /\ nextId <= MaxId /\ nextId' = nextId + 1
        /\ UNCHANGED <<records, policies, bumps>>
    BY Zenon DEF CommitCreate
  <1>5. /\ nextId \in ZoneIds /\ nextId' \in 1..(MaxId + 1) /\ nextId \notin DOMAIN table
    BY <1>3, <1>4, ZoneLocksAssumption DEF TypeOK, ZoneIds
  <1>6. /\ DOMAIN table' = DOMAIN table \cup {nextId}
        /\ \A y \in DOMAIN table : table'[y] = table[y]
        /\ table'[nextId].name = op[r].to /\ table'[nextId].serial = 1
        /\ table' \in [DOMAIN table' -> [name : ZoneNames, serial : Nat]]
    BY <1>1, <1>3, <1>4, <1>5 DEF TypeOK
  <1>7. Tables'
    <2>1. TypeOK'
      BY <1>3, <1>4, <1>5, <1>6, DoneTyped DEF TypeOK
    <2>2. \A y \in DOMAIN table' : y < nextId'
      BY <1>3, <1>4, <1>5, <1>6 DEF TypeOK, ZoneIds
    <2>3. ASSUME NEW y \in ZoneIds, y >= nextId' PROVE bumps'[y] = 0
      <3>1. y \in Int /\ nextId \in Int
        BY <1>5 DEF ZoneIds
      <3>2. y >= nextId
        BY <1>4, <2>3, <3>1
      <3> QED BY <1>3, <1>4, <3>2
    <2> QED BY <2>1, <2>2, <2>3 DEF Tables
  <1>8. NoLostUpdate'
    <2>1. bumps[nextId] = 0
      BY <1>3, <1>5 DEF ZoneIds
    <2> QED BY <1>3, <1>4, <1>6, <2>1 DEF NoLostUpdate
  <1>9. NamesUnique'
    BY <1>2, <1>3, <1>6 DEF NamesUnique
  <1> QED BY <1>2, <1>4, <1>6, <1>7, <1>8, <1>9, CommitFrame

\* A deletion cascades to the records and the policies of a zone that is locked.
LEMMA CommitDeleteKeeps ==
  ASSUME LocksInv, NEW r \in Requests, req[r].pc = "commit", CommitDelete(r),
         Go(r, Fresh("done")), UNCHANGED <<backend, op>>
  PROVE  LocksInv'
  <1> DEFINE z == req[r].zone
  <1>1. /\ op[r] \in Operation /\ req[r] \in RequestRow /\ ReqOK(op[r], req[r]) /\ op[r].kind = "delete"
    BY OneRequest, Zenon DEF CommitDelete
  <1>2. z \in Held(req[r])
    BY <1>1, Zenon DEF ReqOK, Rows
  <1>3. /\ TypeOK /\ (\A y \in DOMAIN table : y < nextId) /\ (\A y \in ZoneIds : y >= nextId => bumps[y] = 0)
        /\ NoLostUpdate /\ NamesUnique
    BY DEF LocksInv, Tables
  <1>4. /\ table' = [y \in DOMAIN table \ {z} |-> table[y]]
        /\ records' = [i \in {j \in DOMAIN records : records[j] # z} |-> records[i]]
        /\ policies' = policies \ PoliciesOf(z)
        /\ UNCHANGED <<nextId, bumps>>
    BY Zenon DEF CommitDelete
  <1> HIDE DEF z
  <1>5. /\ DOMAIN table' = DOMAIN table \ {z} /\ \A y \in DOMAIN table' : table'[y] = table[y]
        /\ table' \in [DOMAIN table' -> [name : ZoneNames, serial : Nat]]
    BY <1>3, <1>4 DEF TypeOK
  <1>6. /\ DOMAIN records' = {j \in DOMAIN records : records[j] # z}
        /\ \A i \in DOMAIN records' : records'[i] = records[i]
        /\ records' \in [DOMAIN records' -> DOMAIN table']
    BY <1>3, <1>4, <1>5 DEF TypeOK
  <1>7. Tables'
    <2>1. TypeOK'
      BY <1>3, <1>4, <1>5, <1>6, DoneTyped DEF TypeOK
    <2> QED BY <1>3, <1>4, <1>5, <2>1 DEF Tables
  <1>8. NoLostUpdate' /\ NamesUnique'
    BY <1>3, <1>4, <1>5 DEF NoLostUpdate, NamesUnique
  <1> QED
    <2>1. \A p \in policies : PolicyZone[p] \notin Held(req[r]) => p \in policies'
      BY <1>2, <1>4 DEF PoliciesOf
    <2> QED BY <1>2, <1>5, <1>6, <1>7, <1>8, <2>1, CommitFrame

\* A DELETE of the token or of a policy removes policies that are locked.
LEMMA CommitRevocationKeeps ==
  ASSUME LocksInv, NEW r \in Requests, CommitRevocation(r),
         Go(r, Fresh("done")), UNCHANGED <<backend, op>>
  PROVE  LocksInv'
  <1>1. policies' = policies \ req[r].excl /\ UNCHANGED <<table, nextId, records, bumps>>
    BY DEF CommitRevocation
  <1>2. Tables'
    BY <1>1, DoneTyped DEF LocksInv, Tables, TypeOK
  <1>3. NoLostUpdate'
    BY <1>1, Zenon DEF LocksInv, NoLostUpdate
  <1>4. NamesUnique'
    BY <1>1, Zenon DEF LocksInv, NamesUnique
  <1> QED BY <1>1, <1>2, <1>3, <1>4, CommitFrame, Zenon

-----------------------------------------------------------------------------
(* The invariant                                                           *)

\* Every kind of commit keeps it.
LEMMA CommitKeeps ==
  ASSUME LocksInv, NEW r \in Requests, Commit(r)
  PROVE  LocksInv'
  BY CommitWriteKeeps, CommitRenameKeeps, CommitCreateKeeps, CommitDeleteKeeps, CommitRevocationKeeps, Zenon
  DEF Commit

\* Every step keeps it.
LEMMA NextKeeps == MinLeast /\ LocksInv /\ [Next]_vars => LocksInv'
  <1> SUFFICES ASSUME MinLeast, LocksInv, [Next]_vars PROVE LocksInv'
    OBVIOUS
  <1>1. ASSUME NEW r \in Requests, Step(r) PROVE LocksInv'
    BY <1>1, FindKeeps, CheckNameKeeps, BeginKeeps, BeginImmediateKeeps, ListZonesKeeps, LockZoneKeeps,
       AuthorizeKeeps, WriteKeyKeeps, LockCascadeKeeps, CommitKeeps DEF Step
  <1>2. ASSUME NEW r \in Requests, Fail(r) PROVE LocksInv'
    BY <1>2, RefuseKeeps DEF Fail
  <1>3. CASE UNCHANGED vars
    <2>1. Tables' /\ NoLostUpdate' /\ NamesUnique'
      BY <1>3 DEF vars, LocksInv, Tables, TypeOK, NoLostUpdate, NamesUnique
    <2>2. \A r \in Requests : ReqOK(op[r], req[r])'
      <3>1. \A o, x : ReqOK(o, x) => ReqOK(o, x)'
        <4>1. UNCHANGED <<backend, table, records, policies>>
          BY <1>3 DEF vars
        <4>2. \A o, x : (Place(o, x) => Place(o, x)') /\ (Keyed(o, x) => Keyed(o, x)')
          BY <4>1 DEF Place, Keyed
        <4>3. \A o, x : Rows(o, x) => Rows(o, x)'
          BY <4>1 DEF Rows
        <4>4. \A o, x : Granted(o, x) => Granted(o, x)'
          BY <4>1 DEF Granted
        <4> QED BY <4>2, <4>3, <4>4, Zenon DEF ReqOK
      <3>2. op' = op /\ req' = req
        BY <1>3 DEF vars
      <3> QED BY <3>1, <3>2, Zenon DEF LocksInv
    <2>3. \A q, r \in Requests : q # r => Apart(req[q], req[r])'
      BY <1>3 DEF vars, LocksInv, Apart
    <2> QED BY <2>1, <2>2, <2>3, Zenon DEF LocksInv
  <1> QED BY <1>1, <1>2, <1>3 DEF Next, AllEnded

\* The numbers from 1 to n are n; IntervalsCounted shows it.
IntervalCounts == \A n \in Nat : Cardinality(1..n) = n

\* It holds before any request has done anything.
LEMMA InitEstablishes == IntervalCounts /\ Init => LocksInv
  <1> SUFFICES ASSUME IntervalCounts, Init PROVE LocksInv
    OBVIOUS
  <1>1. PICK n \in 0..MaxId : DOMAIN InitZones = 1..n
    BY ZoneLocksAssumption
  <1>2. nextId = n + 1
    <2>1. n \in Nat
      BY <1>1, ZoneLocksAssumption
    <2> QED BY <1>1, <2>1 DEF Init, IntervalCounts
  <1>3. DOMAIN table = 1..n /\ \A z \in 1..n : table[z].name = InitZones[z] /\ table[z].serial = 1
    BY <1>1 DEF Init
  <1>4. op \in [Requests -> Operation]
    BY DEF Init
  <1>5. ASSUME NEW r \in Requests
        PROVE  /\ req[r] \in RequestRow /\ ReqOK(op[r], req[r]) /\ req[r].pc \notin InTx
               /\ Held(req[r]) = {} /\ req[r].shared = {} /\ req[r].excl = {} /\ req[r].key = {}
    <2> DEFINE pc == FirstStep(op[r])
    <2>1. req[r] = Fresh(pc)
      BY DEF Init
    <2>2. pc \in Steps /\ pc \in PcsOf(op[r].kind) /\ pc \in {"find", "check", "begin"}
      BY <1>4, OperationFields, KindHasStep DEF FirstStep, Steps, Kinds
    <2> HIDE DEF pc
    <2>3. /\ req[r] \in RequestRow /\ req[r].pc = pc /\ req[r].conns = 0 /\ Held(req[r]) = {}
          /\ req[r].todo = {} /\ req[r].shared = {} /\ req[r].excl = {} /\ req[r].key = {}
      BY <2>1, <2>2, FreshRow
    <2>4. ReqOK(op[r], req[r])
      BY <2>2, <2>3, Zenon DEF ReqOK, Place, Rows, Granted, Keyed, InTx
    <2> QED BY <2>2, <2>3, <2>4 DEF InTx
  <1>6. Tables
    <2>1. table \in [DOMAIN table -> [name : ZoneNames, serial : Nat]]
      BY ZoneLocksAssumption DEF Init
    <2>2. records \in [DOMAIN records -> DOMAIN table] /\ DOMAIN records \subseteq DOMAIN InitRecords
      BY ZoneLocksAssumption DEF Init
    <2>3. bumps \in [ZoneIds -> Nat] /\ \A z \in ZoneIds : bumps[z] = 0
      BY DEF Init
    <2>4. DOMAIN table \subseteq ZoneIds /\ nextId \in 1..(MaxId + 1) /\ \A z \in DOMAIN table : z < nextId
      BY <1>1, <1>2, <1>3, ZoneLocksAssumption DEF ZoneIds
    <2>5. backend \in Backends /\ policies \subseteq DOMAIN PolicyZone
      BY DEF Init
    <2>6. req \in [Requests -> RequestRow]
      BY <1>5 DEF Init
    <2> QED BY <1>4, <2>1, <2>2, <2>3, <2>4, <2>5, <2>6 DEF Tables, TypeOK
  <1>7. NoLostUpdate
    <2>1. \A z \in DOMAIN table : z \in ZoneIds
      BY <1>6 DEF Tables, TypeOK
    <2>2. \A z \in ZoneIds : bumps[z] = 0
      BY DEF Init
    <2> QED BY <1>3, <2>1, <2>2 DEF NoLostUpdate
  <1>8. NamesUnique
    BY <1>1, <1>3, ZoneLocksAssumption DEF NamesUnique
  <1>9. \A q, r \in Requests : q # r => Apart(req[q], req[r])
    BY <1>5 DEF Apart
  <1> QED BY <1>5, <1>6, <1>7, <1>8, <1>9 DEF LocksInv

\* What a request has decided holds when it comes to commit.
LEMMA CommitDecided ==
  ASSUME LocksInv, NEW r \in Requests, req[r].pc = "commit"
  PROVE  /\ Scoped(op[r]) => \A z \in Locked(r) : PoliciesOf(z) # {}
         /\ op[r].kind = "record" => op[r].rid \in DOMAIN records /\ records[op[r].rid] \in Locked(r)
  <1>1. ReqOK(op[r], req[r]) /\ Locked(r) = Held(req[r])
    BY OneRequest
  <1>2. Scoped(op[r]) => \A z \in Held(req[r]) : PoliciesOf(z) # {}
    BY <1>1 DEF ReqOK, Granted, PoliciesOf
  <1>3. op[r].kind = "record" => op[r].rid \in DOMAIN records /\ records[op[r].rid] \in Held(req[r])
    BY <1>1, Zenon DEF ReqOK, Rows
  <1> QED BY <1>1, <1>2, <1>3

-----------------------------------------------------------------------------
(* Nobody waits in a circle                                                *)

\* Whoever blocks a request is in a transaction.
LEMMA BlockerInTx ==
  ASSUME LocksInv, NEW r \in Requests, NEW q \in Blockers(r)
  PROVE  q \in Requests /\ q # r /\ req[q].pc \in InTx
  <1>1. q \in Requests /\ q # r
    BY DEF Blockers, Others, KeyOwners
  <1>2. Place(op[q], req[q]) /\ Locked(q) = Held(req[q])
    BY <1>1, OneRequest DEF ReqOK
  <1>3. \/ InTransaction(q) \/ Held(req[q]) # {} \/ req[q].key # {}
        \/ req[q].excl # {} \/ req[q].shared # {} \/ req[q].pc = "commit"
    BY <1>2 DEF Blockers, KeyOwners
  <1> QED BY <1>1, <1>2, <1>3 DEF Place, InTransaction, InTx

\* Of two requests of which one blocks the other and is itself blocked, the first
\* one has locked a zone; the other one wants that zone, or is a revocation.
LEMMA BlockedBlocker ==
  ASSUME LocksInv, NEW r \in Requests, NEW q \in Blockers(r), Blockers(q) # {},
         op[r].kind # "token", op[q].kind # "token", backend # "sqlite"
  PROVE  /\ Held(req[q]) # {}
         /\ \/ req[r].pc = "zone" /\ Wanted(r) \cap Held(req[q]) # {}
            \/ op[r].kind = "revoke"
  <1>1. q \in Requests /\ q # r
    BY BlockerInTx
  <1>2. /\ ReqOK(op[q], req[q]) /\ Locked(q) = Held(req[q]) /\ ReqOK(op[r], req[r])
        /\ Apart(req[r], req[q]) /\ Apart(req[q], req[r]) /\ op[r].kind \in Kinds
    BY <1>1, OneRequest
  <1>3. req[q].pc # "commit" /\ req[q].excl = {} /\ req[q].key = {}
    <2>1. req[q].pc # "commit"
      BY DEF Blockers
    <2> QED BY <1>2, <2>1, Zenon DEF ReqOK, Granted, Keyed
  <1>4. CASE req[r].pc = "immediate"
    BY <1>2, <1>4, Zenon DEF ReqOK, Place
  <1>5. CASE req[r].pc = "zone"
    BY <1>1, <1>2, <1>3, <1>5 DEF Blockers
  <1>6. CASE req[r].pc = "policy"
    BY <1>3, <1>6 DEF Blockers
  <1>7. CASE req[r].pc = "cascade"
    <2>1. PICK p \in Target(r) : p \in req[q].shared
      BY <1>3, <1>7 DEF Blockers
    <2>2. PolicyZone[p] \in Held(req[q])
      BY <1>2, <2>1 DEF ReqOK, Granted
    <2>3. op[r].kind \in {"delete", "revoke"}
      <3>1. req[r].pc \in PcsOf(op[r].kind)
        BY <1>2, Zenon DEF ReqOK, Place
      <3>2. op[r].kind \in {"delete", "token", "revoke"}
        BY <1>2, <1>7, <3>1, StepsOfKind
      <3> QED BY <3>2
    <2>4. op[r].kind # "delete"
      <3> SUFFICES ASSUME op[r].kind = "delete" PROVE FALSE
        OBVIOUS
      <3>1. PolicyZone[p] = req[r].zone
        BY <2>1 DEF Target, PoliciesOf
      <3>2. req[r].zone \in Held(req[r])
        BY <1>2, <1>7, Zenon DEF ReqOK, Rows
      <3> QED BY <1>2, <2>2, <3>1, <3>2, Zenon DEF Apart
    <2> QED BY <2>2, <2>3, <2>4
  <1>8. CASE req[r].pc = "key"
    BY <1>3, <1>8 DEF Blockers, KeyOwners
  <1> QED BY <1>4, <1>5, <1>6, <1>7, <1>8 DEF Blockers

\* In a group of requests that block each other in a circle by row locks and keys,
\* those that both block and are blocked lock several zones, and each of them wants
\* a smaller name than the one who has it still wants.
LEMMA NamesClimb ==
  ASSUME MinLeast, LocksInv, NEW D \in SUBSET Requests, D # {},
         \A r \in D : Blockers(r) \cap D # {} /\ op[r].kind # "token"
  PROVE  \E E \in SUBSET D : \E m \in [E -> Nat] : E # {} /\ \A q \in E : \E s \in E : m[q] < m[s]
  <1>1. backend # "sqlite"
    <2> SUFFICES ASSUME backend = "sqlite" PROVE FALSE
      OBVIOUS
    <2>1. PICK r \in D : TRUE
      OBVIOUS
    <2>2. PICK q \in D : q \in Blockers(r)
      BY <2>1
    <2>3. PICK s \in D : s \in Blockers(q)
      BY <2>2
    <2>4. req[q].pc \in InTx /\ req[s].pc \in InTx /\ s # q
      BY <2>1, <2>2, <2>3, BlockerInTx
    <2>5. Apart(req[q], req[s])
      BY <2>4 DEF LocksInv
    <2> QED BY <2>4, <2>5, Zenon DEF Apart
  <1>2. ASSUME NEW r \in D, NEW q \in D, q \in Blockers(r)
        PROVE  /\ Held(req[q]) # {}
               /\ (req[r].pc = "zone" /\ Wanted(r) \cap Held(req[q]) # {}) \/ op[r].kind = "revoke"
    BY <1>1, <1>2, BlockedBlocker
  <1> DEFINE E == {q \in D : req[q].pc = "zone" /\ op[q].kind = "external"}
  <1>3. ASSUME NEW r \in D
        PROVE  \E q \in E : q \in Blockers(r)
    <2>1. PICK q \in D : q \in Blockers(r)
      OBVIOUS
    <2>2. PICK s \in D : s \in Blockers(q)
      OBVIOUS
    <2>3. Held(req[q]) # {} /\ ReqOK(op[q], req[q])
      BY <1>2, <2>1, OneRequest
    <2>4. op[q].kind # "revoke"
      BY <2>3, Zenon DEF ReqOK, Rows
    <2>5. req[q].pc = "zone"
      BY <1>2, <2>2, <2>4
    <2>6. op[q].kind = "external"
      BY <2>3, <2>5, Zenon DEF ReqOK, Rows
    <2> QED BY <2>1, <2>5, <2>6
  <1> DEFINE m == [q \in E |-> Smallest(req[q].todo)]
  <1>4. \A q \in E : m[q] \in req[q].todo /\ m[q] \in Nat /\ req[q].todo \in SUBSET Nat
    <2> SUFFICES ASSUME NEW q \in E
                 PROVE  Smallest(req[q].todo) \in req[q].todo /\ Smallest(req[q].todo) \in Nat /\ req[q].todo \in SUBSET Nat
      OBVIOUS
    <2>1. req[q].todo \in SUBSET Nat /\ req[q].todo # {}
      BY OneRequest, ZoneLocksAssumption DEF RequestRow, ReqOK, Rows
    <2> QED BY <2>1 DEF MinLeast
  <1>5. ASSUME NEW r \in E
        PROVE  \E q \in E : m[r] < m[q]
    <2>1. PICK q \in E : q \in Blockers(r)
      BY <1>3
    <2>2. PICK z \in Wanted(r) : z \in Held(req[q])
      BY <1>2, <2>1
    <2>3. table[z].name = m[r]
      BY <2>2, WantedRows
    <2>4. \A n \in req[q].todo : table[z].name < n
      BY <2>2, OneRequest, Zenon DEF ReqOK, Rows
    <2> HIDE DEF E, m
    <2> QED BY <1>4, <2>3, <2>4
  <1>6. m \in [E -> Nat]
    <2>1. m = [q \in E |-> m[q]]
      OBVIOUS
    <2> HIDE DEF E, m
    <2> QED BY <1>4, <2>1
  <1>7. E \in SUBSET D /\ E # {}
    BY <1>3
  <1> HIDE DEF E, m
  <1> QED BY <1>5, <1>6, <1>7, Zenon

\* The operation of a request is one of its workload, and stays so.
OpsGiven == \A r \in Requests : op[r] \in Workload[r]

\* No step changes what a request is about.
LEMMA OpsStayGiven == Spec => []OpsGiven
  <1>1. Init => OpsGiven
    BY DEF Init, OpsGiven
  <1>2. OpsGiven /\ [Next]_vars => OpsGiven'
    <2>1. \A r \in Requests : Step(r) \/ Fail(r) => op' = op
      BY Zenon DEF Step, Find, CheckName, Begin, BeginImmediate, ListZones, LockZone, Authorize, WriteKey,
                   LockCascade, Commit, Fail
    <2>2. [Next]_vars => op' = op
      BY <2>1 DEF Next, AllEnded, vars
    <2> QED BY <2>2 DEF OpsGiven
  <1> QED BY <1>1, <1>2, PTL DEF Spec

\* Connections do not run out for good: there are more of them than requests, or
\* no request is a rename, the only one that asks for a second connection.
PoolSuffices ==
    /\ IsFiniteSet(Requests)
    /\ \/ Pool > Cardinality(Requests)
       \/ \A r \in Requests : \A o \in Workload[r] : o.kind # "rename"

\* Those of a group that wait for the locks of another one of the group.
Blocked(D) == {r \in D : Blockers(r) \cap D # {}}

\* Where no request is a rename, those of a group that wait for a connection wait
\* for the others, who hold the connections and wait for locks among themselves.
LEMMA WaitersForLocks ==
  ASSUME LocksInv, OpsGiven, NEW D \in SUBSET Requests, \A r \in D : Stuck(r, D),
         \A r \in Requests : \A o \in Workload[r] : o.kind # "rename",
         Free <= 0 => Holders # {}
  PROVE  (\A r \in Blocked(D) : Blockers(r) \cap Blocked(D) # {}) /\ (D # {} => Blocked(D) # {})
  <1>1. ASSUME NEW r \in D, req[r].pc \in InTx \cup {"immediate"}
        PROVE  r \in Blocked(D)
    <2>1. req[r].pc # "name"
      <3>1. req[r].pc \in PcsOf(op[r].kind) /\ op[r].kind \in Kinds
        BY OneRequest, Zenon DEF ReqOK, Place
      <3>2. op[r].kind # "rename"
        BY DEF OpsGiven
      <3> QED BY <3>1, <3>2, StepsOfKind
    <2>2. ~NeedsConnection(r)
      BY <1>1, <2>1 DEF NeedsConnection, InTx
    <2> QED BY <2>2 DEF Stuck, Blocked
  <1>2. ASSUME NEW r \in Blocked(D)
        PROVE  Blockers(r) \cap Blocked(D) # {}
    <2>1. PICK q \in D : q \in Blockers(r)
      BY DEF Blocked
    <2>2. r \in Requests
      BY DEF Blocked
    <2>3. req[q].pc \in InTx
      BY <2>1, <2>2, BlockerInTx
    <2> QED BY <1>1, <2>1, <2>3
  <1>3. ASSUME NEW r \in D, r \notin Blocked(D)
        PROVE  Blocked(D) # {}
    <2>1. Free <= 0 /\ Holders \subseteq D
      BY <1>3 DEF Stuck, Blocked
    <2>2. PICK h \in Holders : TRUE
      BY <2>1
    <2>3. h \in D /\ h \in Requests /\ req[h].conns > 0
      BY <2>1, <2>2 DEF Holders
    <2>4. req[h].conns = (IF req[h].pc \in InTx \cup {"immediate"} THEN 1 ELSE 0)
      BY <2>3, OneRequest, Zenon DEF ReqOK, Place
    <2> QED BY <1>1, <2>3, <2>4
  <1> QED BY <1>2, <1>3

-----------------------------------------------------------------------------
(* Least elements and finite sets, and the theorems                        *)

INSTANCE FiniteSetTheorems
INSTANCE WellFoundedInduction

\* A set of naturals that is not empty has a least element.
LEMMA LeastNatural ==
  ASSUME NEW S \in SUBSET Nat, S # {}
  PROVE  \E x \in S : \A y \in S : x <= y
  <1> DEFINE Less == {ss \in Nat \X Nat : ss[1] < ss[2]}
  <1>1. IsWellFoundedOn(Less, Nat)
    BY NatLessThanWellFounded DEF OpToRel
  <1>2. \E x \in S : \A y \in S : ~(<<y, x>> \in Less)
    <2> HIDE DEF Less
    <2> QED BY <1>1, WFMin, Zenon
  <1>3. \A x, y \in Nat : <<y, x>> \in Less <=> y < x
    OBVIOUS
  <1> HIDE DEF Less
  <1>4. PICK x \in S : \A y \in S : ~(<<y, x>> \in Less)
    BY <1>2
  <1>5. \A y \in S : ~(y < x)
    BY <1>3, <1>4, Zenon
  <1>6. \A y \in S : x <= y
    BY <1>5
  <1> QED BY <1>6

\* Smallest is that element.
LEMMA MinIsLeast == MinLeast
  BY LeastNatural, Zenon DEF MinLeast, Smallest

\* An interval has as many elements as it should.
LEMMA IntervalsCounted == IntervalCounts
  <1> SUFFICES ASSUME NEW n \in Nat PROVE Cardinality(1..n) = n
    BY Zenon DEF IntervalCounts
  <1>1. Cardinality(1..n) = IF 1 > n THEN 0 ELSE n - 1 + 1
    BY FS_Interval
  <1> QED BY <1>1

\* It holds throughout.
LEMMA LocksInvariant == Spec => []LocksInv
  BY InitEstablishes, IntervalsCounted, NextKeeps, MinIsLeast, PTL DEF Spec

\* Every serial counts the committed changes of its zone: advance_serial_tx works on
\* the row it locked, and no other commit touches a locked row.
THEOREM NoUpdateIsLost == Spec => []NoLostUpdate
  <1>1. LocksInv => NoLostUpdate
    BY DEF LocksInv
  <1> QED BY <1>1, LocksInvariant, PTL

\* However creations and renames race past the friendly check, the unique index
\* keeps the names of zones apart.
THEOREM NamesStayUnique == Spec => []NamesUnique
  <1>1. LocksInv => NamesUnique
    BY DEF LocksInv
  <1> QED BY <1>1, LocksInvariant, PTL

\* At its commit a scoped write has a policy for each zone it touched, and a record
\* request finds its record in the zone it locked.
THEOREM DecisionsHoldAtCommit == Spec => CommitsOnCurrentRows
  <1> DEFINE A == \A r \in Requests :
                    req[r].pc = "commit" /\ req'[r].pc = "done" =>
                      /\ Scoped(op[r]) => \A z \in Locked(r) : PoliciesOf(z) # {}
                      /\ op[r].kind = "record" => op[r].rid \in DOMAIN records /\ records[op[r].rid] \in Locked(r)
  <1>1. LocksInv => A
    BY CommitDecided, Zenon
  <1> HIDE DEF A
  <1>2. Spec => [][A]_vars
    BY <1>1, LocksInvariant, PTL
  <1> QED BY <1>2 DEF A, CommitsOnCurrentRows

\* In a finite set no element is below another one of the set by a numbering,
\* each and every one.
LEMMA NoAscent ==
  ASSUME NEW E, IsFiniteSet(E), NEW m \in [E -> Nat], \A q \in E : \E s \in E : m[q] < m[s]
  PROVE  E = {}
  <1> SUFFICES ASSUME E # {} PROVE FALSE
    OBVIOUS
  <1> DEFINE Up(q) == {x \in E : m[q] <= m[x]}
             ranks == {Cardinality(Up(q)) : q \in E}
  <1>1. \A q \in E : IsFiniteSet(Up(q)) /\ Cardinality(Up(q)) \in Nat
    <2> SUFFICES ASSUME NEW q \in E PROVE IsFiniteSet(Up(q)) /\ Cardinality(Up(q)) \in Nat
      OBVIOUS
    <2>1. Up(q) \in SUBSET E
      OBVIOUS
    <2> HIDE DEF Up
    <2>2. IsFiniteSet(Up(q))
      BY <2>1, FS_Subset
    <2> QED BY <2>2, FS_CardinalityType
  <1>2. ranks \in SUBSET Nat /\ ranks # {}
    <2> HIDE DEF Up
    <2> QED BY <1>1
  <1>3. PICK q \in E : \A x \in E : Cardinality(Up(q)) <= Cardinality(Up(x))
    <2>1. PICK k \in ranks : \A y \in ranks : k <= y
      <3> HIDE DEF ranks
      <3> QED BY <1>2, LeastNatural
    <2> HIDE DEF Up
    <2> QED BY <2>1
  <1>4. PICK s \in E : m[q] < m[s]
    OBVIOUS
  <1>5. Up(s) \in SUBSET Up(q) /\ q \in Up(q) /\ q \notin Up(s)
    BY <1>4
  <1> HIDE DEF Up
  <1>6. Cardinality(Up(s)) <= Cardinality(Up(q)) /\ (Cardinality(Up(q)) = Cardinality(Up(s)) => Up(q) = Up(s))
    BY <1>1, <1>5, FS_Subset
  <1> QED BY <1>1, <1>3, <1>5, <1>6

\* No requests block each other in a circle by row locks and keys: the names they
\* want would grow around it.
LEMMA LocksAcyclic ==
  ASSUME LocksInv, NEW D \in SUBSET Requests, IsFiniteSet(D),
         \A r \in D : Blockers(r) \cap D # {} /\ op[r].kind # "token"
  PROVE  D = {}
  <1> SUFFICES ASSUME D # {} PROVE FALSE
    OBVIOUS
  <1>1. PICK E \in SUBSET D : \E m \in [E -> Nat] : E # {} /\ \A q \in E : \E s \in E : m[q] < m[s]
    BY NamesClimb, MinIsLeast, Zenon
  <1>2. IsFiniteSet(E)
    BY FS_Subset, Zenon
  <1> QED BY <1>1, <1>2, NoAscent, Zenon

\* No group of requests waits for each other by row locks, unique keys and
\* connections, on any of the databases, as long as the pool suffices: zones are
\* locked before policies and in the order of their names, a revocation and a
\* deletion hold no policy while they wait, a name is written last.
THEOREM NobodyWaitsInACircle ==
  ASSUME PoolSuffices
  PROVE  Spec => []NoWaitCycle
  <1>1. LocksInv /\ OpsGiven => NoWaitCycle
    <2> SUFFICES ASSUME LocksInv, OpsGiven, NEW D \in SUBSET Requests,
                        \A r \in D : Stuck(r, D) /\ op[r].kind # "token"
                 PROVE  D = {}
      BY DEF NoWaitCycle
    <2>1. IsFiniteSet(Requests) /\ IsFiniteSet(D) /\ Cardinality(Requests) \in Nat
      BY FS_Subset, FS_CardinalityType DEF PoolSuffices
    <2>2. Holders \in SUBSET Requests
      BY DEF Holders
    <2>3. IsFiniteSet(Holders) /\ Cardinality(Holders) \in Nat /\ Cardinality(Holders) <= Cardinality(Requests)
      BY <2>1, <2>2, FS_Subset, FS_CardinalityType
    <2>4. CASE Pool > Cardinality(Requests)
      <3>1. Free \in Int /\ Free > 0
        BY <2>1, <2>3, <2>4, ZoneLocksAssumption DEF Free
      <3>2. \A r \in D : Blockers(r) \cap D # {}
        BY <3>1 DEF Stuck
      <3> QED BY <2>1, <3>2, LocksAcyclic, Zenon
    <2>5. CASE \A r \in Requests : \A o \in Workload[r] : o.kind # "rename"
      <3>1. Free <= 0 => Cardinality(Holders) # 0
        BY <2>3, ZoneLocksAssumption DEF Free
      <3>2. Free <= 0 => Holders # {}
        BY <3>1, FS_EmptySet, Zenon
      <3>3. (\A r \in Blocked(D) : Blockers(r) \cap Blocked(D) # {}) /\ (D # {} => Blocked(D) # {})
        BY <2>5, <3>2, WaitersForLocks, Zenon
      <3>4. Blocked(D) \in SUBSET D
        BY DEF Blocked
      <3>5. IsFiniteSet(Blocked(D))
        BY <2>1, <3>4, FS_Subset, Zenon
      <3>6. Blocked(D) \in SUBSET Requests /\ \A r \in Blocked(D) : op[r].kind # "token"
        BY <3>4, Zenon
      <3>7. Blocked(D) = {}
        BY <3>3, <3>5, <3>6, LocksAcyclic, Zenon
      <3> QED BY <3>3, <3>7, Zenon
    <2> QED BY <2>4, <2>5, Zenon DEF PoolSuffices
  <1> QED BY <1>1, LocksInvariant, OpsStayGiven, PTL
=============================================================================
