---------------------------- MODULE AccessProofs ----------------------------
(***************************************************************************)
(* Access is sound for any number of managers, zones, credentials and      *)
(* policies: the tables stay consistent, a token reads only what it was    *)
(* granted while its request ran, and a credential writes only what it is  *)
(* granted when the write commits, through the HTTP API as through         *)
(* nsupdate, for any records, patterns and update messages.                *)
(***************************************************************************)
EXTENDS Access, TLAPS

\* A leaf that names no prover: SMT, then Zenon, then SMT once more with more time.
USE SMTT(30), ZenonT(20), SMTT(60)

-----------------------------------------------------------------------------
(* The inductive invariant                                                 *)

\* Ids are those handed out, and the tables have rows.
Rows ==
    /\ lastId \in Nat
    /\ DOMAIN zones \subseteq 1..lastId
    /\ DOMAIN creds \subseteq 1..lastId
    /\ creds \in [DOMAIN creds -> CredRow]
    /\ \A p \in DOMAIN policies : \E g \in Grantable : policies[p].pattern = g.pattern

\* A management operation between two of its queries. A policy about to be
\* inserted names a credential that was not global when it was looked up: ids are
\* not reused, so it is that one or none.
Sound(op) ==
    /\ op.op = "create" => op.name \in CredNames /\ op.global \in BOOLEAN /\ op.secret \in Secrets
    /\ op.op \in {"add", "grant"} => op.grant \in Grantable
    /\ op.op = "grant" => op.id \in 1..lastId /\ (op.id \in DOMAIN creds => ~creds[op.id].global)

Managing == DOMAIN mgr = Managers /\ \A c \in Managers : Sound(mgr[c])

\* A token request between two of its queries: the row it read is that of the
\* credential of its id if there still is one, and could has the zones of every
\* policy it may yet read.
Presented ==
    req.stage \in {"validated", "stamped", "caller"} =>
        /\ kind = "token"
        /\ req.row \in CredRow /\ req.id \in 1..lastId
        /\ req.id \in DOMAIN creds =>
              creds[req.id].name = req.row.name /\ creds[req.id].secret = req.row.secret
        /\ \A p \in DOMAIN policies : policies[p].cred = req.id => policies[p].zone \in could

Requesting ==
    /\ Presented
    /\ req.stage \in {"validated", "stamped"} => req = [stage |-> req.stage, id |-> req.id, row |-> req.row]
    /\ req.stage = "caller" => \A p \in req.grants : p.zone \in could
    /\ req.stage = "authenticated" =>
          /\ kind = "key" /\ req.message \in Messages
          /\ req.row = NoRow => unsigned
          /\ req.row # NoRow =>
                /\ req.id \in 1..lastId
                /\ req.id \in DOMAIN creds =>
                      creds[req.id].name = req.row.name /\ creds[req.id].secret = req.row.secret
    /\ ReadsWithinGrant

AccessInv == Rows /\ PoliciesSound /\ Managing /\ Requesting

-----------------------------------------------------------------------------
(* The invariant holds at first and is kept                                *)

\* The first zone, credentials and policy satisfy the invariant.
LEMMA AccessInit == Init => AccessInv
  <1> SUFFICES ASSUME Init PROVE AccessInv
    OBVIOUS
  <1>1. /\ DOMAIN creds = {1, 2} /\ creds[1] \in CredRow /\ creds[2] \in CredRow
        /\ creds[1].name = ScopedName /\ creds[2].name = GlobalName /\ creds[1].global = FALSE
    <2>1. DOMAIN creds = {1, 2}
      BY DEF Init
    <2>2. \A id \in {1, 2} :
             creds[id] = [name |-> IF id = 1 THEN ScopedName ELSE GlobalName, secret |-> id, global |-> id = 2,
                          expired |-> FALSE, stamped |-> FALSE]
      BY Zenon DEF Init
    <2>3. ~(1 = 2) /\ 2 # 1 /\ {1, 2} \subseteq Nat
      OBVIOUS
    <2>4. creds[1].name = ScopedName /\ creds[2].name = GlobalName
      BY <2>2, <2>3
    <2>5. ASSUME NEW id \in {1, 2} PROVE creds[id] \in CredRow /\ (id = 1 => creds[id].global = FALSE)
      <3>1. PICK n, g : n = (IF id = 1 THEN ScopedName ELSE GlobalName) /\ g = (id = 2)
        OBVIOUS
      <3>2. n \in CredNames /\ id \in Nat
        BY <3>1, AccessAssumption
      <3>3. g \in BOOLEAN /\ (id = 1 => g = FALSE)
        BY <2>3, <3>1, Zenon
      <3>4. creds[id] = [name |-> n, secret |-> id, global |-> g, expired |-> FALSE, stamped |-> FALSE]
        BY <2>2, <3>1, Zenon
      <3>5. creds[id].global = g
        BY <3>4
      <3>6. creds[id] \in CredRow
        BY <3>2, <3>3, <3>4 DEF CredRow
      <3> QED
        BY <3>3, <3>5, <3>6, Zenon
    <2>6. creds[1] \in CredRow /\ creds[2] \in CredRow /\ creds[1].global = FALSE
      BY <2>5, Zenon
    <2> QED
      BY <2>1, <2>4, <2>6, Zenon
  <1>2. creds \in [DOMAIN creds -> CredRow]
    <2>1. \A id \in DOMAIN creds : creds[id] \in CredRow
      BY <1>1
    <2>2. creds = [id \in DOMAIN creds |-> creds[id]]
      BY DEF Init
    <2> QED
      BY <2>1, <2>2
  <1>3. \A p \in DOMAIN policies :
           /\ policies[p].zone = 1 /\ policies[p].cred = 1
           /\ \E g \in Grantable : policies[p].pattern = g.pattern
    BY DEF Init
  <1>4. DOMAIN zones = {1} /\ DOMAIN records = {1} /\ lastId = 2
    BY DEF Init
  <1>5. Rows
    BY <1>1, <1>2, <1>3, <1>4 DEF Rows
  <1>6. PoliciesSound
    BY <1>1, <1>3, <1>4, AccessAssumption DEF PoliciesSound
  <1>7. Managing
    BY DEF Managing, Sound, Init, Free
  <1>8. Requesting
    BY DEF Requesting, Presented, ReadsWithinGrant, Init, Idle
  <1> QED
    BY <1>5, <1>6, <1>7, <1>8 DEF AccessInv

\* A row of credentials keeps its name, its secret and its scope as long as it is
\* there, and a row that comes in has a new id: no name is taken over.
CredsKept ==
    /\ \A id \in DOMAIN creds \cap DOMAIN creds' :
          /\ creds'[id].name = creds[id].name
          /\ creds'[id].secret = creds[id].secret
          /\ creds'[id].global = creds[id].global
    /\ \A id \in DOMAIN creds' \ DOMAIN creds : id = lastId + 1 /\ lastId' = lastId + 1
    /\ lastId' \in Nat /\ lastId' >= lastId
    /\ DOMAIN creds' \subseteq 1..lastId'
    /\ creds' \in [DOMAIN creds' -> CredRow]

\* Setting a flag of a row, as the stamp and the expiry do, keeps the table.
LEMMA FlagKeepsCreds ==
  ASSUME Rows, NEW id \in DOMAIN creds, lastId' = lastId,
         \/ creds' = [creds EXCEPT ![id].stamped = TRUE]
         \/ creds' = [creds EXCEPT ![id].expired = TRUE]
  PROVE  CredsKept /\ DOMAIN creds' = DOMAIN creds
  <1>1. creds[id] \in CredRow
    BY DEF Rows
  <1>2. PICK row \in CredRow : /\ creds' = [creds EXCEPT ![id] = row]
                               /\ row.name = creds[id].name /\ row.secret = creds[id].secret
                               /\ row.global = creds[id].global
    <2>1. CASE creds' = [creds EXCEPT ![id].stamped = TRUE]
      <3>1. PICK row : row = [creds[id] EXCEPT !.stamped = TRUE]
        BY Zenon
      <3>2. creds' = [creds EXCEPT ![id] = row]
        BY <2>1, <3>1, Zenon
      <3>3. row \in CredRow /\ row.name = creds[id].name /\ row.secret = creds[id].secret /\ row.global = creds[id].global
        BY <1>1, <3>1, Zenon DEF CredRow
      <3> QED
        BY <3>2, <3>3, Zenon
    <2>2. CASE creds' = [creds EXCEPT ![id].expired = TRUE]
      <3>1. PICK row : row = [creds[id] EXCEPT !.expired = TRUE]
        BY Zenon
      <3>2. creds' = [creds EXCEPT ![id] = row]
        BY <2>2, <3>1, Zenon
      <3>3. row \in CredRow /\ row.name = creds[id].name /\ row.secret = creds[id].secret /\ row.global = creds[id].global
        BY <1>1, <3>1, Zenon DEF CredRow
      <3> QED
        BY <3>2, <3>3, Zenon
    <2> QED
      BY <2>1, <2>2
  <1>3. creds' \in [DOMAIN creds -> CredRow] /\ DOMAIN creds' = DOMAIN creds
    BY <1>2 DEF Rows
  <1> QED
    BY <1>2, <1>3 DEF Rows, CredsKept

\* Where credentials and ids do not change, the table is kept.
LEMMA SameCreds ==
  ASSUME Rows, creds' = creds, lastId' \in {lastId, lastId + 1}
  PROVE  CredsKept
  BY DEF Rows, CredsKept

\* A step of a request leaves zones and policies alone, and of the credentials it
\* changes the stamp only.
LEMMA RequestKeepsTables ==
  ASSUME Rows, Request
  PROVE  CredsKept /\ UNCHANGED <<zones, policies, lastId>> /\ DOMAIN creds' = DOMAIN creds
  <1>1. CASE StampToken
    <2>1. CASE ~req.row.stamped /\ req.id \in DOMAIN creds
      BY <1>1, <2>1, FlagKeepsCreds, Zenon DEF StampToken
    <2>2. CASE ~(~req.row.stamped /\ req.id \in DOMAIN creds)
      <3>1. creds' = creds /\ UNCHANGED <<zones, policies, lastId>>
        BY <1>1, <2>2 DEF StampToken
      <3> QED
        BY <3>1, SameCreds
    <2> QED
      BY <2>1, <2>2
  <1>2. CASE ~StampToken
    <2>1. UNCHANGED <<zones, creds, policies, lastId>>
      BY <1>2, Zenon DEF Request, RefuseUnauthenticated, ValidateToken, LoadGrants, RequireGlobal, ListZones,
                  ReadZone, CreateRecord, DeleteRecord, UpdateRecord, ReceiveUpdate, ApplyMessage, tables
    <2> QED
      BY <2>1, SameCreds
  <1> QED
    BY <1>1, <1>2

\* Every step keeps the rows and the ties between policies, zones and credentials.
LEMMA TablesStep ==
  ASSUME Rows, PoliciesSound, Managing, Next
  PROVE  CredsKept /\ Rows' /\ PoliciesSound'
  <1>1. CASE Request
    <2>1. CredsKept /\ UNCHANGED <<zones, policies, lastId>> /\ DOMAIN creds' = DOMAIN creds
      BY <1>1, RequestKeepsTables
    <2>2. Rows'
      BY <2>1 DEF Rows, CredsKept
    <2>3. PoliciesSound'
      BY <2>1 DEF PoliciesSound, CredsKept
    <2> QED
      BY <2>1, <2>2, <2>3
  <1>2. CASE Expire
    <2>1. PICK id \in DOMAIN creds : creds' = [creds EXCEPT ![id].expired = TRUE]
      BY <1>2, Zenon DEF Expire
    <2>2. UNCHANGED <<zones, policies, lastId>>
      BY <1>2 DEF Expire
    <2>3. CredsKept /\ DOMAIN creds' = DOMAIN creds
      BY <2>1, <2>2, FlagKeepsCreds, Zenon
    <2>4. Rows'
      BY <2>2, <2>3 DEF Rows, CredsKept
    <2>5. PoliciesSound'
      BY <2>2, <2>3 DEF PoliciesSound, CredsKept
    <2> QED
      BY <2>3, <2>4, <2>5
  <1>3. ASSUME NEW c \in Managers, Manage(c)
        PROVE  CredsKept /\ Rows' /\ PoliciesSound'
    <2>1. CASE InsertCredential(c)
      <3>1. UNCHANGED <<zones, policies>>
        BY <2>1 DEF InsertCredential
      <3>2. CASE Named(creds, mgr[c].name) # {}
        <4>1. UNCHANGED <<creds, lastId>>
          BY <2>1, <3>2 DEF InsertCredential
        <4>2. CredsKept
          BY <4>1, SameCreds
        <4> QED
          BY <3>1, <4>1, <4>2 DEF Rows, PoliciesSound
      <3>3. CASE Named(creds, mgr[c].name) = {}
        <4>1. PICK row : /\ creds' = With(creds, lastId + 1, row)
                         /\ row = [name |-> mgr[c].name, global |-> mgr[c].global, expired |-> FALSE, stamped |-> FALSE,
                                   secret |-> IF kind = "token" THEN lastId + 1 ELSE mgr[c].secret]
          BY <2>1, <3>3 DEF InsertCredential
        <4>2. lastId' = lastId + 1 /\ mgr[c].op = "create"
          BY <2>1, <3>3 DEF InsertCredential
        <4>3. row \in CredRow /\ row.name = mgr[c].name
          <5>1. mgr[c].name \in CredNames /\ mgr[c].global \in BOOLEAN /\ mgr[c].secret \in Secrets
            BY <4>2 DEF Managing, Sound
          <5>2. PICK s \in Nat : s = IF kind = "token" THEN lastId + 1 ELSE mgr[c].secret
            BY <5>1, AccessAssumption DEF Rows
          <5>3. row = [name |-> mgr[c].name, global |-> mgr[c].global, expired |-> FALSE, stamped |-> FALSE, secret |-> s]
            BY <4>1, <5>2, Zenon
          <5> QED
            BY <5>1, <5>3 DEF CredRow
        <4>4. lastId + 1 \notin DOMAIN creds
          BY DEF Rows
        <4>5. /\ DOMAIN creds' = DOMAIN creds \cup {lastId + 1} /\ creds'[lastId + 1] = row
              /\ \A id \in DOMAIN creds : creds'[id] = creds[id]
          BY <4>1, <4>4 DEF With
        <4>6. creds' \in [DOMAIN creds' -> CredRow]
          <5>1. \A id \in DOMAIN creds' : creds'[id] \in CredRow
            BY <4>3, <4>5 DEF Rows
          <5>2. creds' = [id \in DOMAIN creds' |-> creds'[id]]
            BY <4>1 DEF With
          <5> QED
            BY <5>1, <5>2
        <4>7. CredsKept
          BY <4>2, <4>4, <4>5, <4>6 DEF CredsKept, Rows
        <4>8. Rows'
          BY <3>1, <4>2, <4>7 DEF Rows, CredsKept
        <4>9. PoliciesSound'
          <5>1. \A id \in DOMAIN creds : creds[id].name # row.name
            BY <3>3, <4>3 DEF Named
          <5> QED
            BY <3>1, <4>4, <4>5, <5>1 DEF PoliciesSound
        <4> QED
          BY <4>7, <4>8, <4>9
      <3> QED
        BY <3>2, <3>3
    <2>2. CASE RemoveCredential(c)
      <3>1. UNCHANGED <<zones, lastId>>
        BY <2>2 DEF RemoveCredential
      <3>2. CASE UNCHANGED <<creds, policies>>
        <4>1. CredsKept
          BY <3>1, <3>2, SameCreds
        <4> QED
          BY <3>1, <3>2, <4>1 DEF Rows, PoliciesSound
      <3>3. CASE creds' = Without(creds, {mgr[c].id}) /\ policies' = PoliciesLeft(mgr[c].id)
        <4>1. /\ DOMAIN creds' = DOMAIN creds \ {mgr[c].id}
              /\ \A id \in DOMAIN creds' : creds'[id] = creds[id]
          BY <3>3 DEF Without
        <4>2. /\ DOMAIN policies' = {p \in DOMAIN policies : policies[p].cred # mgr[c].id}
              /\ \A p \in DOMAIN policies' : policies'[p] = policies[p]
          BY <3>3 DEF PoliciesLeft, Without
        <4>3. creds' = [id \in DOMAIN creds' |-> creds'[id]]
          BY <3>3 DEF Without
        <4>4. CredsKept
          BY <3>1, <4>1, <4>3 DEF CredsKept, Rows
        <4>5. Rows'
          BY <3>1, <4>2, <4>4 DEF Rows, CredsKept
        <4>6. PoliciesSound'
          BY <3>1, <4>1, <4>2 DEF PoliciesSound
        <4> QED
          BY <4>4, <4>5, <4>6
      <3> QED
        BY <2>2, <3>2, <3>3 DEF RemoveCredential
    <2>3. CASE InsertPolicy(c)
      <3>1. UNCHANGED <<zones, creds>> /\ lastId' \in {lastId, lastId + 1}
        BY <2>3 DEF InsertPolicy
      <3>2. CredsKept
        BY <3>1, SameCreds
      <3>3. CASE policies' = policies
        BY <3>1, <3>2, <3>3 DEF Rows, CredsKept, PoliciesSound
      <3>4. ASSUME NEW id \in Grantee(mgr[c]), mgr[c].zone \in DOMAIN zones,
                   policies' = With(policies, lastId + 1,
                        [zone |-> mgr[c].zone, cred |-> id,
                         pattern |-> mgr[c].grant.pattern, types |-> mgr[c].grant.types])
            PROVE  Rows' /\ PoliciesSound'
        <4>1. PICK row : /\ policies' = With(policies, lastId + 1, row)
                         /\ row.zone = mgr[c].zone /\ row.cred = id /\ row.pattern = mgr[c].grant.pattern
          BY <3>4
        <4>2. \A p \in DOMAIN policies' :
                 (p \in DOMAIN policies /\ policies'[p] = policies[p]) \/ policies'[p] = row
          BY <4>1 DEF With
        <4>3. mgr[c].op = "grant"
          BY <2>3 DEF InsertPolicy
        <4>4. mgr[c].grant \in Grantable /\ id \in DOMAIN creds /\ ~creds[id].global
          BY <4>3 DEF Managing, Sound, Grantee
        <4>5. Rows'
          BY <3>1, <3>2, <4>1, <4>2, <4>4 DEF Rows, CredsKept
        <4>6. PoliciesSound'
          BY <3>1, <3>4, <4>1, <4>2, <4>4 DEF PoliciesSound
        <4> QED
          BY <4>5, <4>6
      <3> QED
        BY <2>3, <3>2, <3>3, <3>4, Zenon DEF InsertPolicy
    <2>4. CASE DeletePolicy(c)
      <3>1. UNCHANGED <<zones, creds, lastId>> /\ policies' = Without(policies, {mgr[c].policy})
        BY <2>4 DEF DeletePolicy
      <3>2. CredsKept
        BY <3>1, SameCreds
      <3>3. \A p \in DOMAIN policies' : p \in DOMAIN policies /\ policies'[p] = policies[p]
        BY <3>1 DEF Without
      <3>4. Rows'
        BY <3>1, <3>3, Zenon DEF Rows
      <3>5. PoliciesSound'
        BY <3>1, <3>3, Zenon DEF PoliciesSound
      <3> QED
        BY <3>2, <3>4, <3>5
    <2>5. CASE CreateZone(c)
      <3>1. /\ UNCHANGED <<creds, policies>> /\ lastId' = lastId + 1
            /\ \E name \in ZoneNames : zones' = With(zones, lastId + 1, name)
        BY <2>5 DEF CreateZone
      <3>2. DOMAIN zones' = DOMAIN zones \cup {lastId + 1}
        BY <3>1 DEF With
      <3>3. CredsKept
        BY <3>1, SameCreds
      <3> QED
        BY <3>1, <3>2, <3>3 DEF Rows, CredsKept, PoliciesSound
    <2>6. CASE DeleteZone(c)
      <3>1. UNCHANGED <<creds, lastId>>
        BY <2>6 DEF DeleteZone
      <3>2. PICK z \in DOMAIN zones :
               /\ zones' = Without(zones, {z})
               /\ policies' = Without(policies, {p \in DOMAIN policies : policies[p].zone = z})
        BY <2>6, Zenon DEF DeleteZone
      <3>3. /\ DOMAIN zones' = DOMAIN zones \ {z}
            /\ \A p \in DOMAIN policies' : p \in DOMAIN policies /\ policies'[p] = policies[p] /\ policies[p].zone # z
        BY <3>2 DEF Without
      <3>4. CredsKept
        BY <3>1, SameCreds
      <3> QED
        BY <3>1, <3>3, <3>4 DEF Rows, PoliciesSound
    <2>7. CASE RenameZone(c)
      <3>1. UNCHANGED <<creds, policies, lastId>> /\ DOMAIN zones' = DOMAIN zones
        BY <2>7 DEF RenameZone
      <3>2. CredsKept
        BY <3>1, SameCreds
      <3> QED
        BY <3>1, <3>2 DEF Rows, PoliciesSound
    <2>8. CASE \/ CreateCredential(c) \/ DeleteCredential(c) \/ CountPolicies(c) \/ AddPolicy(c)
               \/ FindGrantee(c) \/ RemovePolicy(c) \/ FindPolicy(c)
      <3>1. UNCHANGED <<zones, creds, policies, lastId>>
        BY <2>8 DEF CreateCredential, DeleteCredential, CountPolicies, AddPolicy, FindGrantee, RemovePolicy,
                    FindPolicy, tables
      <3>2. CredsKept
        BY <3>1, SameCreds
      <3> QED
        BY <3>1, <3>2 DEF Rows, PoliciesSound
    <2> QED
      BY <1>3, <2>1, <2>2, <2>3, <2>4, <2>5, <2>6, <2>7, <2>8 DEF Manage
  <1> QED
    BY <1>1, <1>2, <1>3 DEF Next

\* An operation in progress stays sound while the tables change under it.
LEMMA SoundKept ==
  ASSUME Rows, CredsKept, NEW op, Sound(op)
  PROVE  Sound(op)'
  <1>1. ASSUME op.op = "grant"
        PROVE  op.id \in 1..lastId' /\ (op.id \in DOMAIN creds' => ~creds'[op.id].global)
    <2>1. op.id \in 1..lastId /\ (op.id \in DOMAIN creds => ~creds[op.id].global)
      BY <1>1 DEF Sound
    <2>2. lastId \in Nat /\ lastId' \in Nat /\ lastId' >= lastId
      BY DEF Rows, CredsKept
    <2>3. op.id # lastId + 1 /\ op.id \in 1..lastId'
      BY <2>1, <2>2
    <2> QED
      BY <2>1, <2>3 DEF CredsKept
  <1> QED
    BY <1>1 DEF Sound

\* One manager moves on to the operation op, the others stay where they are.
LEMMA ManagerMoves ==
  ASSUME Rows, CredsKept, Managing, NEW c \in Managers, NEW op, Sound(op)', mgr' = [mgr EXCEPT ![c] = op]
  PROVE  Managing'
  <1>1. DOMAIN mgr' = Managers /\ mgr'[c] = op /\ \A d \in Managers : d # c => mgr'[d] = mgr[d]
    BY DEF Managing
  <1>2. \A d \in Managers : Sound(mgr[d])
    BY DEF Managing
  <1>3. ASSUME NEW d \in Managers PROVE Sound(mgr[d])' 
    <2>1. CASE d = c
      BY <1>1, <2>1 DEF Sound
    <2>2. CASE d # c
      <3>1. PICK o : o = mgr[d]
        OBVIOUS
      <3>2. Sound(o)'
        BY <1>2, <3>1, SoundKept
      <3>3. mgr'[d] = o
        BY <1>1, <2>2, <3>1
      <3> QED
        BY <3>2, <3>3 DEF Sound
    <2> QED
      BY <2>1, <2>2
  <1> QED
    BY <1>1, <1>3 DEF Managing

\* Every step keeps the management operations in progress sound.
LEMMA ManagingStep ==
  ASSUME Rows, Managing, CredsKept, Next
  PROVE  Managing'
  <1>1. CASE Request \/ Expire
    <2>1. mgr' = mgr
      BY <1>1, Zenon DEF Request, Expire, RefuseUnauthenticated, ValidateToken, StampToken, LoadGrants, RequireGlobal,
                  ListZones, ReadZone, CreateRecord, DeleteRecord, UpdateRecord, ReceiveUpdate, ApplyMessage
    <2>2. ASSUME NEW d \in Managers PROVE Sound(mgr[d])'
      <3>1. PICK o : o = mgr[d]
        OBVIOUS
      <3>2. Sound(o)'
        BY <3>1, SoundKept DEF Managing
      <3> QED
        BY <2>1, <3>1, <3>2 DEF Sound
    <2> QED
      BY <2>1, <2>2 DEF Managing
  <1>2. ASSUME NEW c \in Managers, Manage(c) PROVE Managing'
    <2>1. Sound(Free)'
      BY DEF Sound, Free
    <2>2. CASE mgr' = [mgr EXCEPT ![c] = Free]
      <3>1. PICK op : op = Free
        OBVIOUS
      <3> QED
        BY <2>1, <2>2, <3>1, ManagerMoves, Zenon
    <2>3. CASE CreateCredential(c)
      <3>1. PICK name \in CredNames, global \in BOOLEAN, secret \in Secrets :
               mgr' = [mgr EXCEPT ![c] = [op |-> "create", name |-> name, global |-> global, secret |-> secret]]
        BY <2>3, Zenon DEF CreateCredential, Begin
      <3>2. PICK op : op = [op |-> "create", name |-> name, global |-> global, secret |-> secret]
        BY Zenon
      <3>3. Sound(op)'
        BY <3>2 DEF Sound
      <3> QED
        BY <3>1, <3>2, <3>3, ManagerMoves, Zenon
    <2>4. CASE DeleteCredential(c)
      <3>1. PICK id \in DOMAIN creds :
               mgr' = [mgr EXCEPT ![c] = [op |-> "delete", id |-> id]]
        BY <2>4, Zenon DEF DeleteCredential, Begin, Named
      <3>2. PICK op : op = [op |-> "delete", id |-> id]
        BY Zenon
      <3>3. Sound(op)'
        BY <3>2 DEF Sound
      <3> QED
        BY <3>1, <3>2, <3>3, ManagerMoves, Zenon
    <2>5. CASE CountPolicies(c) /\ mgr' # [mgr EXCEPT ![c] = Free]
      <3>1. mgr' = [mgr EXCEPT ![c] = [op |-> "counted", id |-> mgr[c].id]]
        BY <2>5, Zenon DEF CountPolicies
      <3>2. PICK op : op = [op |-> "counted", id |-> mgr[c].id]
        BY Zenon
      <3>3. Sound(op)'
        BY <3>2 DEF Sound
      <3> QED
        BY <3>1, <3>2, <3>3, ManagerMoves, Zenon
    <2>6. CASE AddPolicy(c)
      <3>1. PICK z \in DOMAIN zones, cred \in CredNames, grant \in Grantable :
               mgr' = [mgr EXCEPT ![c] = [op |-> "add", zone |-> z, name |-> cred, grant |-> grant]]
        BY <2>6, Zenon DEF AddPolicy, Begin, ZoneNamed
      <3>2. PICK op : op = [op |-> "add", zone |-> z, name |-> cred, grant |-> grant]
        BY Zenon
      <3>3. Sound(op)'
        BY <3>2 DEF Sound
      <3> QED
        BY <3>1, <3>2, <3>3, ManagerMoves, Zenon
    <2>7. CASE FindGrantee(c) /\ mgr' # [mgr EXCEPT ![c] = Free]
      <3>1. PICK id \in Named(creds, mgr[c].name) :
               /\ ~creds[id].global
               /\ mgr' = [mgr EXCEPT ![c] = [op |-> "grant", zone |-> mgr[c].zone, id |-> id,
                                             name |-> mgr[c].name, grant |-> mgr[c].grant]]
        BY <2>7 DEF FindGrantee, End
      <3>2. PICK op : op = [op |-> "grant", zone |-> mgr[c].zone, id |-> id,
                            name |-> mgr[c].name, grant |-> mgr[c].grant]
        BY Zenon
      <3>3. creds' = creds /\ lastId' = lastId /\ mgr[c].op = "add"
        BY <2>7 DEF FindGrantee, tables
      <3>4. id \in DOMAIN creds /\ id \in 1..lastId /\ mgr[c].grant \in Grantable
        BY <3>3 DEF Named, Rows, Managing, Sound
      <3>5. Sound(op)'
        BY <3>1, <3>2, <3>3, <3>4 DEF Sound
      <3> QED
        BY <3>1, <3>2, <3>5, ManagerMoves, Zenon
    <2>8. CASE RemovePolicy(c)
      <3>1. PICK z \in DOMAIN zones :
               mgr' = [mgr EXCEPT ![c] = [op |-> "remove", zone |-> z]]
        BY <2>8, Zenon DEF RemovePolicy, Begin, ZoneNamed
      <3>2. PICK op : op = [op |-> "remove", zone |-> z]
        BY Zenon
      <3>3. Sound(op)'
        BY <3>2 DEF Sound
      <3> QED
        BY <3>1, <3>2, <3>3, ManagerMoves, Zenon
    <2>9. CASE FindPolicy(c) /\ mgr' # [mgr EXCEPT ![c] = Free]
      <3>1. PICK p \in DOMAIN policies : mgr' = [mgr EXCEPT ![c] = [op |-> "revoke", policy |-> p]]
        BY <2>9 DEF FindPolicy, End
      <3>2. PICK op : op = [op |-> "revoke", policy |-> p]
        BY Zenon
      <3>3. Sound(op)'
        BY <3>2 DEF Sound
      <3> QED
        BY <3>1, <3>2, <3>3, ManagerMoves, Zenon
    <2>10. CASE \/ InsertCredential(c) \/ RemoveCredential(c) \/ InsertPolicy(c) \/ DeletePolicy(c)
                \/ CreateZone(c) \/ DeleteZone(c) \/ RenameZone(c)
      BY <2>2, <2>10 DEF InsertCredential, RemoveCredential, InsertPolicy, DeletePolicy, CreateZone, DeleteZone,
                         RenameZone, Begin, End
    <2> QED
      BY <1>2, <2>2, <2>3, <2>4, <2>5, <2>6, <2>7, <2>8, <2>9, <2>10 DEF Manage
  <1> QED
    BY <1>1, <1>2 DEF Next

\* Management and expiry leave the request alone; a policy that comes in for the
\* credential it presented is one it could have.
LEMMA ManageKeepsRequest ==
  ASSUME Expire \/ \E c \in Managers : Manage(c)
  PROVE  /\ UNCHANGED <<kind, unsigned, req>> /\ could \subseteq could'
         /\ \A p \in DOMAIN policies' :
               \/ p \in DOMAIN policies /\ policies'[p] = policies[p]
               \/ req.stage \in {"validated", "stamped", "caller"} /\ policies'[p].cred = req.id
                    => policies'[p].zone \in could'
  <1>1. CASE Expire
    BY <1>1 DEF Expire
  <1>2. ASSUME NEW c \in Managers, InsertPolicy(c)
        PROVE  /\ UNCHANGED <<kind, unsigned, req>> /\ could \subseteq could'
               /\ \A p \in DOMAIN policies' :
                     \/ p \in DOMAIN policies /\ policies'[p] = policies[p]
                     \/ req.stage \in {"validated", "stamped", "caller"} /\ policies'[p].cred = req.id
                          => policies'[p].zone \in could'
    <2>1. UNCHANGED <<kind, unsigned, req>>
      BY <1>2 DEF InsertPolicy
    <2>2. CASE UNCHANGED <<policies, could>>
      BY <2>1, <2>2
    <2>3. ASSUME NEW id,
                 policies' = With(policies, lastId + 1,
                    [zone |-> mgr[c].zone, cred |-> id,
                     pattern |-> mgr[c].grant.pattern, types |-> mgr[c].grant.types]),
                 could' = IF req.stage \in {"validated", "stamped", "caller"} /\ req.id = id
                            THEN could \cup {mgr[c].zone} ELSE could
          PROVE  /\ could \subseteq could'
                 /\ \A p \in DOMAIN policies' :
                       \/ p \in DOMAIN policies /\ policies'[p] = policies[p]
                       \/ req.stage \in {"validated", "stamped", "caller"} /\ policies'[p].cred = req.id
                            => policies'[p].zone \in could'
      <3>1. PICK row : /\ policies' = With(policies, lastId + 1, row)
                       /\ row.zone = mgr[c].zone /\ row.cred = id
        BY <2>3
      <3>2. \A p \in DOMAIN policies' :
               (p \in DOMAIN policies /\ policies'[p] = policies[p]) \/ policies'[p] = row
        BY <3>1 DEF With
      <3> QED
        BY <2>3, <3>1, <3>2
    <2> QED
      BY <1>2, <2>1, <2>2, <2>3, Zenon DEF InsertPolicy
  <1>3. ASSUME NEW c \in Managers, Manage(c), ~InsertPolicy(c)
        PROVE  /\ UNCHANGED <<kind, unsigned, req, could>>
               /\ \A p \in DOMAIN policies' : p \in DOMAIN policies /\ policies'[p] = policies[p]
    <2>1. UNCHANGED <<kind, unsigned, req, could>>
      BY <1>3, Zenon DEF Manage, CreateCredential, InsertCredential, DeleteCredential, CountPolicies, RemoveCredential,
                  AddPolicy, FindGrantee, RemovePolicy, FindPolicy, DeletePolicy, CreateZone, DeleteZone, RenameZone
    <2>2. \/ policies' = policies \/ \E S : policies' = Without(policies, S)
      BY <1>3, Zenon DEF Manage, CreateCredential, InsertCredential, DeleteCredential, CountPolicies, RemoveCredential,
                  AddPolicy, FindGrantee, RemovePolicy, FindPolicy, DeletePolicy, CreateZone, DeleteZone, RenameZone,
                  PoliciesLeft, tables
    <2> QED
      BY <2>1, <2>2, Zenon DEF Without
  <1> QED
    BY <1>1, <1>2, <1>3

\* An answer that shows nothing leaves nothing to be kept.
LEMMA EmptyAnswer ==
  ASSUME req'.stage = "done", req'.shown = {}
  PROVE  Requesting'
  BY DEF Requesting, Presented, ReadsWithinGrant

\* Every step keeps what is known of the request being served.
LEMMA OtherRequestingStep ==
  ASSUME Rows, Requesting, CredsKept, Expire \/ \E c \in Managers : Manage(c)
  PROVE  Requesting'
  <1>1. /\ UNCHANGED <<kind, unsigned, req>> /\ could \subseteq could'
        /\ \A p \in DOMAIN policies' :
              \/ p \in DOMAIN policies /\ policies'[p] = policies[p]
              \/ req.stage \in {"validated", "stamped", "caller"} /\ policies'[p].cred = req.id
                   => policies'[p].zone \in could'
    BY ManageKeepsRequest
  <1>2. ASSUME NEW id \in 1..lastId
        PROVE  /\ id \in 1..lastId'
               /\ id \in DOMAIN creds' => /\ id \in DOMAIN creds
                                          /\ creds'[id].name = creds[id].name /\ creds'[id].secret = creds[id].secret
    <2>1. id \in 1..lastId' /\ id # lastId + 1
      BY DEF Rows, CredsKept
    <2> QED
      BY <2>1 DEF CredsKept
  <1>3. Presented'
    BY <1>1, <1>2 DEF Requesting, Presented
  <1>4. ReadsWithinGrant'
    BY <1>1 DEF Requesting, ReadsWithinGrant
  <1>5. req'.stage = "caller" => \A p \in req'.grants : p.zone \in could'
    BY <1>1 DEF Requesting
  <1>6. req'.stage = "authenticated" =>
          /\ kind' = "key" /\ req'.message \in Messages
          /\ req'.row = NoRow => unsigned'
          /\ req'.row # NoRow =>
                /\ req'.id \in 1..lastId'
                /\ req'.id \in DOMAIN creds' =>
                      creds'[req'.id].name = req'.row.name /\ creds'[req'.id].secret = req'.row.secret
    BY <1>1, <1>2 DEF Requesting
  <1>7. req'.stage \in {"validated", "stamped"} => req' = [stage |-> req'.stage, id |-> req'.id, row |-> req'.row]
    BY <1>1 DEF Requesting
  <1> QED
    BY <1>3, <1>4, <1>5, <1>6, <1>7 DEF Requesting

\* The row of a presented token is read, stamped and followed by its grants.
LEMMA AuthenticateStep ==
  ASSUME Rows, Requesting, CredsKept, ValidateToken \/ StampToken \/ LoadGrants
  PROVE  Requesting'
  <1>1. CASE ValidateToken
    <2>1. UNCHANGED <<kind, policies, creds, lastId>> /\ kind = "token"
      BY <1>1 DEF ValidateToken, tables
    <2>2. CASE req' = Answer("401")
      BY <2>2, EmptyAnswer DEF Answer
    <2>3. ASSUME NEW id \in DOMAIN creds, req' = [stage |-> "validated", id |-> id, row |-> creds[id]],
                 could' = GrantedZones(creds[id].name, creds[id].secret)
          PROVE  Requesting'
      <3>1. req'.stage = "validated" /\ req'.id = id /\ req'.row = creds[id]
        BY <2>3
      <3>2. \A p \in DOMAIN policies : policies[p].cred = id => policies[p].zone \in could'
        BY <2>3 DEF GrantedZones
      <3>3. creds[id] \in CredRow /\ id \in 1..lastId
        BY DEF Rows
      <3>4. Presented'
        BY <2>1, <3>1, <3>2, <3>3 DEF Presented
      <3> QED
        BY <2>3, <3>1, <3>4 DEF Requesting, ReadsWithinGrant
    <2> QED
      BY <1>1, <2>2, <2>3 DEF ValidateToken
  <1>2. CASE StampToken
    <2>1. UNCHANGED <<kind, policies, could, lastId>> /\ req.stage = "validated" /\ DOMAIN creds' = DOMAIN creds
      BY <1>2 DEF StampToken
    <2>2. req = [stage |-> "validated", id |-> req.id, row |-> req.row]
      BY <2>1 DEF Requesting
    <2>3. req' = [stage |-> "stamped", id |-> req.id, row |-> req.row]
      BY <1>2, <2>2 DEF StampToken
    <2>4. req'.stage = "stamped" /\ req'.id = req.id /\ req'.row = req.row
      BY <2>3
    <2>5. Presented'
      BY <2>1, <2>4 DEF Requesting, Presented, CredsKept
    <2> QED
      BY <2>3, <2>4, <2>5 DEF Requesting, ReadsWithinGrant
  <1>3. CASE LoadGrants
    <2>1. UNCHANGED <<kind, creds, policies, could, lastId>> /\ req.stage = "stamped"
      BY <1>3 DEF LoadGrants, tables
    <2>2. PICK gs : gs = IF req.row.global THEN {} ELSE GrantsOf(req.id)
      BY Zenon
    <2>3. req' = [stage |-> "caller", id |-> req.id, row |-> req.row, grants |-> gs]
      BY <1>3, <2>2 DEF LoadGrants
    <2>4. req'.stage = "caller" /\ req'.id = req.id /\ req'.row = req.row /\ req'.grants = gs
      BY <2>3
    <2>5. \A p \in gs : p.zone \in could
      BY <2>1, <2>2 DEF GrantsOf, Requesting, Presented
    <2>6. Presented'
      BY <2>1, <2>4 DEF Requesting, Presented
    <2> QED
      BY <2>1, <2>4, <2>5, <2>6 DEF Requesting, ReadsWithinGrant
  <1> QED
    BY <1>1, <1>2, <1>3

\* A read shows zones granted since the token was presented.
LEMMA ReadStep ==
  ASSUME Requesting, ListZones \/ ReadZone
  PROVE  Requesting'
  <1>1. req.stage = "caller" /\ UNCHANGED <<kind, could>>
    BY Zenon DEF ListZones, ReadZone
  <1>2. CASE req' = Answer("404")
    BY <1>2, EmptyAnswer DEF Answer
  <1>3. ASSUME NEW S, req' = [Answer("200") EXCEPT !.shown = S, !.global = req.row.global],
               req.row.global \/ S \subseteq could
        PROVE  Requesting'
    <2>1. req' = [stage |-> "done", code |-> "200", signed |-> FALSE, shown |-> S, global |-> req.row.global]
      BY <1>3, Zenon DEF Answer
    <2>2. req'.stage = "done" /\ req'.shown = S /\ req'.global = req.row.global
      BY <2>1
    <2> QED
      BY <1>1, <1>3, <2>2 DEF Requesting, Presented, ReadsWithinGrant
  <1>4. CASE ListZones
    <2>1. req.row.global \/ ListShown(req) \subseteq could
      BY <1>1 DEF ListShown, GrantsOf, Requesting, Presented
    <2> QED
      BY <1>3, <1>4, <2>1, Zenon DEF ListZones
  <1>5. CASE ReadZone
    <2>1. PICK name \in ZoneNames :
             LET found == {z \in ZoneNamed(name) : ZoneVisible(req, z)}
             IN req' = IF found = {} THEN Answer("404") ELSE [Answer("200") EXCEPT !.shown = found, !.global = req.row.global]
      BY <1>5, Zenon DEF ReadZone
    <2> DEFINE found == {z \in ZoneNamed(name) : ZoneVisible(req, z)}
    <2>2. req.row.global \/ found \subseteq could
      BY <1>1 DEF ZoneVisible, Requesting
    <2> HIDE DEF found
    <2> QED
      BY <1>2, <1>3, <2>1, <2>2, Zenon DEF found
  <1> QED
    BY <1>4, <1>5

\* Writes and refusals answer with a code.
LEMMA AnswerStep ==
  ASSUME \/ RefuseUnauthenticated \/ RequireGlobal \/ CreateRecord \/ DeleteRecord \/ UpdateRecord \/ ApplyMessage
  PROVE  Requesting'
  <1>1. ASSUME NEW code, req' = Answer(code) PROVE Requesting'
    BY <1>1, EmptyAnswer DEF Answer
  <1>2. ASSUME NEW code, req' = Respond(code, req.row) PROVE Requesting'
    <2>1. req'.stage = "done" /\ req'.shown = {}
      BY <1>2 DEF Answer, Respond
    <2> QED
      BY <2>1, EmptyAnswer
  <1>3. CASE ApplyMessage
    BY <1>2, <1>3, Zenon DEF ApplyMessage
  <1>4. CASE \/ RefuseUnauthenticated \/ RequireGlobal
    BY <1>1, <1>4, Zenon DEF RefuseUnauthenticated, RequireGlobal
  <1>5. CASE \/ CreateRecord \/ DeleteRecord \/ UpdateRecord
    <2>1. \E code : req' = Answer(code)
      BY <1>5, Zenon DEF CreateRecord, DeleteRecord, UpdateRecord, Write
    <2> QED
      BY <1>1, <2>1
  <1> QED
    BY <1>3, <1>4, <1>5

\* A message is authenticated by the row of its key's name, or unsigned where
\* the configuration accepts that.
LEMMA ReceiveStep ==
  ASSUME Rows, Requesting, ReceiveUpdate
  PROVE  Requesting'
  <1>1. kind = "key" /\ UNCHANGED <<kind, unsigned, creds, lastId>>
    BY DEF ReceiveUpdate, tables
  <1>2. ASSUME NEW code, req' = Answer(code) PROVE Requesting'
    BY <1>2, EmptyAnswer DEF Answer
  <1>3. ASSUME NEW error, req' = TsigFailure(error) PROVE Requesting'
    <2>1. req'.stage = "done" /\ req'.shown = {}
      BY <1>3 DEF Answer, TsigFailure
    <2> QED
      BY <2>1, EmptyAnswer
  <1>4. ASSUME NEW m \in Messages, NEW row, NEW id, req' = Authenticated(m, row, id),
               row = NoRow => unsigned,
               row # NoRow => id \in DOMAIN creds /\ row = creds[id]
        PROVE  Requesting'
    <2>1. req'.stage = "authenticated" /\ req'.message = m /\ req'.row = row /\ req'.id = id
      BY <1>4 DEF Authenticated
    <2>2. row # NoRow => id \in 1..lastId
      BY <1>4 DEF Rows
    <2> QED
      BY <1>1, <1>4, <2>1, <2>2 DEF Requesting, Presented, ReadsWithinGrant
  <1>5. PICK m \in Messages : \E error \in ValidateTsig(m) :
           req' \in
             IF ParseUpdateRequest(m) # "NOERROR" THEN {Answer("FORMERR")}
             ELSE IF m.zone = <<>> THEN {Answer("NOTZONE")}
             ELSE IF ~Signed(m) THEN IF unsigned THEN {Authenticated(m, NoRow, 0)} ELSE {Answer("REFUSED")}
             ELSE IF error # "NOERROR" THEN {TsigFailure(error)}
             ELSE {Authenticated(m, creds[id], id) : id \in Named(creds, m.key)}
    BY Zenon DEF ReceiveUpdate
  <1>6. \/ req' = Answer("FORMERR") \/ req' = Answer("NOTZONE") \/ req' = Answer("REFUSED")
        \/ \E error : req' = TsigFailure(error)
        \/ unsigned /\ req' = Authenticated(m, NoRow, 0)
        \/ \E id \in Named(creds, m.key) : req' = Authenticated(m, creds[id], id)
    BY <1>5
  <1>7. ASSUME NEW id \in Named(creds, m.key), req' = Authenticated(m, creds[id], id) PROVE Requesting'
    <2>1. id \in DOMAIN creds /\ creds[id] \in CredRow
      BY DEF Named, Rows
    <2>2. creds[id] # NoRow
      BY <2>1, AccessAssumption
    <2> QED
      BY <1>4, <1>7, <2>1, <2>2
  <1> QED
    BY <1>2, <1>3, <1>4, <1>6, <1>7, Zenon

\* Every step keeps what is known of the request being served.
LEMMA RequestingStep ==
  ASSUME Rows, Requesting, CredsKept, Next
  PROVE  Requesting'
  BY OtherRequestingStep, AuthenticateStep, ReadStep, AnswerStep, ReceiveStep, Zenon DEF Next, Request

\* The invariant is inductive, whatever a step writes to the records.
LEMMA AccessStep ==
  ASSUME AccessInv, Next
  PROVE  AccessInv'
  <1>1. CredsKept /\ Rows' /\ PoliciesSound'
    BY TablesStep DEF AccessInv
  <1>2. Managing' /\ Requesting'
    BY <1>1, ManagingStep, RequestingStep DEF AccessInv
  <1> QED
    BY <1>1, <1>2 DEF AccessInv

\* A step that changes nothing keeps everything.
LEMMA AccessStutter ==
  ASSUME AccessInv, UNCHANGED vars
  PROVE  AccessInv'
  <1>1. UNCHANGED <<kind, unsigned, zones, creds, policies, lastId, req, could, mgr>>
    BY DEF vars
  <1>2. Rows' /\ PoliciesSound'
    BY <1>1 DEF AccessInv, Rows, PoliciesSound
  <1>3. Managing'
    BY <1>1, Zenon DEF AccessInv, Managing, Sound
  <1>4. Requesting'
    BY <1>1, Zenon DEF AccessInv, Requesting, Presented, ReadsWithinGrant
  <1> QED
    BY <1>2, <1>3, <1>4 DEF AccessInv

\* The invariant holds in every behaviour.
LEMMA AccessInvariant == Spec => []AccessInv
  <1>1. AccessInv /\ [Next]_vars => AccessInv'
    BY AccessStep, AccessStutter
  <1> QED
    BY AccessInit, <1>1, PTL DEF Spec

-----------------------------------------------------------------------------
(* Theorems                                                                *)

\* Whatever managers do between the queries of an add, every policy names a zone
\* and a credential that exist, and none a global one.
THEOREM PoliciesAreSound == Spec => []PoliciesSound
  <1>1. AccessInv => PoliciesSound
    BY DEF AccessInv
  <1> QED
    BY AccessInvariant, <1>1, PTL

\* A token is shown only zones it was granted while its request ran.
THEOREM ReadsStayWithinGrant == Spec => []ReadsWithinGrant
  <1>1. AccessInv => ReadsWithinGrant
    BY DEF AccessInv, Requesting
  <1> QED
    BY AccessInvariant, <1>1, PTL

-----------------------------------------------------------------------------
(* Writes                                                                  *)

\* Every zone has its records, whose names are names.
Recorded ==
    /\ DOMAIN records = DOMAIN zones
    /\ \A z \in DOMAIN zones : \A r \in records[z] : r.name \in Seq(Labels)

WriteInv == AccessInv /\ Recorded

\* The apex NS record and the first one have names.
LEMMA RecordsInit == Init => Recorded
  <1> SUFFICES ASSUME Init PROVE Recorded
    OBVIOUS
  <1>1. DOMAIN zones = {1} /\ DOMAIN records = {1}
    BY DEF Init
  <1>2. PICK rec \in Requests : records = [z \in {1} |-> {ApexNs, rec}]
    BY DEF Init
  <1>3. rec.name \in Seq(Labels) /\ <<>> \in Seq(Labels) /\ ApexNs.name = <<>>
    BY AccessAssumption DEF ApexNs
  <1>4. records[1] = {ApexNs, rec}
    BY <1>2
  <1> QED
    BY <1>1, <1>3, <1>4, Zenon DEF Recorded

-----------------------------------------------------------------------------
(* Patterns and writes                                                     *)

\* A pattern of a policy matches only names it denotes.
LEMMA MatchDenotes ==
  ASSUME NEW g \in Grantable, NEW name \in Seq(Labels), PatternMatchesName(g.pattern, name)
  PROVE  Denotes(g.pattern, name)
  <1>1. g.pattern.form \in {"any", "apex", "under", "exact"} /\ g.pattern.labels \in Seq(Labels)
    BY AccessAssumption
  <1>2. CASE g.pattern.form = "under"
    <2>1. IsSameOrUnder(name, g.pattern.labels)
      BY <1>2 DEF PatternMatchesName
    <2>2. PICK k : k = Len(name) - Len(g.pattern.labels)
      OBVIOUS
    <2>3. Len(name) \in Nat /\ Len(g.pattern.labels) \in Nat
      BY <1>1
    <2>4. Len(g.pattern.labels) <= Len(name) /\ SubSeq(name, k + 1, Len(name)) = g.pattern.labels
      BY <2>1, <2>2, Zenon DEF IsSameOrUnder
    <2>5. k \in 0..Len(name)
      BY <2>2, <2>3, <2>4
    <2> QED
      BY <1>2, <2>4, <2>5, Zenon DEF Denotes
  <1>3. CASE g.pattern.form # "under"
    BY <1>1, <1>3, Zenon DEF PatternMatchesName, Denotes
  <1> QED
    BY <1>2, <1>3

\* A record covered by the policies of the zone and the credential's id is granted
\* to the credential that was presented, whether the write was authorized for the
\* record's type or for all types at its name.
LEMMA CoveredIsGranted ==
  ASSUME Rows, PoliciesSound, NEW z, NEW id, NEW row, NEW rec, NEW type, rec.name \in Seq(Labels),
         id \in DOMAIN creds => creds[id].name = row.name /\ creds[id].secret = row.secret,
         type \in {WholeName, rec.type}, Covers(PoliciesOf(z, id), rec.name, type)
  PROVE  GrantedNow(row, z, rec)
  <1>1. PICK p \in DOMAIN policies :
           /\ policies[p].zone = z /\ policies[p].cred = id
           /\ PatternMatchesName(policies[p].pattern, rec.name) /\ TypesMatch(policies[p].types, type)
    BY Zenon DEF Covers, PoliciesOf
  <1>2. PICK g \in Grantable : policies[p].pattern = g.pattern
    BY DEF Rows
  <1>3. PatternMatchesName(g.pattern, rec.name)
    BY <1>1, <1>2, Zenon
  <1>4. Denotes(policies[p].pattern, rec.name)
    BY <1>2, <1>3, MatchDenotes, ZenonT(30)
  <1>5. id \in DOMAIN creds /\ creds[id].name = row.name /\ creds[id].secret = row.secret
    BY <1>1 DEF PoliciesSound
  <1>6. "*" \in policies[p].types \/ rec.type \in policies[p].types
    BY <1>1 DEF TypesMatch, AnyType, WholeName
  <1> QED
    BY <1>1, <1>4, <1>5, <1>6, Zenon DEF GrantedNow

\* The write of a token request touches authorized records only.
LEMMA WriteEffect ==
  ASSUME NEW z, NEW allowed, NEW dels, NEW adds, z \in DOMAIN records, dels \subseteq records[z],
         Write(z, allowed, dels, adds)
  PROVE  /\ DOMAIN records' = DOMAIN records
         /\ \A y \in DOMAIN records : y # z => records'[y] = records[y]
         /\ (records[z] \ records'[z]) \cup (records'[z] \ records[z]) \subseteq dels \cup adds
         /\ records' # records => allowed
  <1>1. CASE records' = records
    BY <1>1
  <1>2. CASE allowed /\ records' = [records EXCEPT ![z] = (@ \ dels) \cup adds]
    BY <1>2
  <1> QED
    BY <1>1, <1>2, Zenon DEF Write

\* A token request that writes what it was authorized for stays within its grant.
LEMMA TokenWrite ==
  ASSUME WriteInv, req.stage = "caller", zones' = zones, NEW z \in DOMAIN zones, NEW dels, NEW adds, NEW writes,
         dels \subseteq records[z], Write(z, AuthorizeWrites(req, z, writes), dels, adds),
         \A r \in dels \cup adds : /\ r.name \in Seq(Labels)
                                   /\ \E i \in DOMAIN writes : writes[i].owner = r.name /\ writes[i].type = r.type
  PROVE  Recorded' /\ StepWithinGrant
  <1>1. Rows /\ PoliciesSound /\ Recorded /\ Presented
    BY DEF WriteInv, AccessInv, Requesting
  <1>2. /\ req.row \in CredRow
        /\ req.id \in DOMAIN creds => creds[req.id].name = req.row.name /\ creds[req.id].secret = req.row.secret
    BY <1>1 DEF Presented
  <1>3. req.row # NoRow
    BY <1>2, AccessAssumption
  <1>4. PICK allowed : allowed = AuthorizeWrites(req, z, writes) /\ Write(z, allowed, dels, adds)
    BY ZenonT(30)
  <1>5. /\ DOMAIN records' = DOMAIN records
        /\ \A y \in DOMAIN records : y # z => records'[y] = records[y]
        /\ (records[z] \ records'[z]) \cup (records'[z] \ records[z]) \subseteq dels \cup adds
        /\ records' # records => allowed
    BY <1>1, <1>4, WriteEffect DEF Recorded
  <1>6. Recorded'
    <2>1. ASSUME NEW y \in DOMAIN zones, NEW r \in records'[y] PROVE r.name \in Seq(Labels)
      <3>1. CASE y = z
        <4>1. r \in records[z] \/ r \in dels \cup adds
          BY <1>5, <2>1, <3>1
        <4> QED
          BY <1>1, <4>1 DEF Recorded
      <3>2. CASE y # z
        BY <1>1, <1>5, <2>1, <3>2 DEF Recorded
      <3> QED
        BY <3>1, <3>2
    <2> QED
      BY <1>1, <1>5, <2>1 DEF Recorded
  <1>7. ASSUME NEW y \in DOMAIN zones, NEW r \in (records[y] \ records'[y]) \cup (records'[y] \ records[y])
        PROVE  req.row.global \/ GrantedNow(req.row, y, r)
    <2>1. y = z /\ r \in dels \cup adds
      BY <1>1, <1>5, <1>7 DEF Recorded
    <2>2. records' # records
      BY <1>7
    <2>3. PICK i \in DOMAIN writes : writes[i].owner = r.name /\ writes[i].type = r.type
      BY <2>1
    <2>4. req.row.global \/ Covers(PoliciesOf(z, req.id), r.name, r.type)
      BY <1>4, <1>5, <2>2, <2>3, ZenonT(30) DEF AuthorizeWrites, AuthorizeAll, WriteGrants
    <2>5. PICK type : type = r.type
      OBVIOUS
    <2> QED
      BY <1>1, <1>2, <2>1, <2>4, <2>5, CoveredIsGranted, ZenonT(30)
  <1> QED
    BY <1>3, <1>6, <1>7 DEF StepWithinGrant

\* Every write through the HTTP API stays within the grant.
LEMMA TokenWriteStep ==
  ASSUME WriteInv, CreateRecord \/ DeleteRecord \/ UpdateRecord
  PROVE  Recorded' /\ StepWithinGrant
  <1>1. zones' = zones /\ req.stage = "caller" /\ Recorded
    BY Zenon DEF CreateRecord, DeleteRecord, UpdateRecord, WriteInv
  <1>2. CASE records' = records
    BY <1>1, <1>2 DEF Recorded, StepWithinGrant
  <1>3. CASE CreateRecord /\ records' # records
    <2>1. PICK rec \in Requests, z \in DOMAIN zones :
             Write(z, AuthorizeWrites(req, z, <<WriteOf(rec)>>), {}, {rec})
      BY <1>3, Zenon DEF CreateRecord, ZoneNamed
    <2>2. PICK writes : writes = <<WriteOf(rec)>>
      BY Zenon
    <2>3. 1 \in DOMAIN writes /\ writes[1].owner = rec.name /\ writes[1].type = rec.type
      BY <2>2 DEF WriteOf
    <2>4. rec.name \in Seq(Labels)
      BY AccessAssumption
    <2>5. PICK dels, adds : dels = {} /\ adds = {rec}
      BY Zenon
    <2>6. /\ dels \subseteq records[z]
          /\ \A r \in dels \cup adds : /\ r.name \in Seq(Labels)
                                       /\ \E i \in DOMAIN writes : writes[i].owner = r.name /\ writes[i].type = r.type
      BY <2>3, <2>4, <2>5
    <2>7. Write(z, AuthorizeWrites(req, z, writes), dels, adds)
      BY <2>1, <2>2, <2>5, ZenonT(30)
    <2> QED
      BY <1>1, <2>6, <2>7, TokenWrite
  <1>4. CASE DeleteRecord /\ records' # records
    <2>1. PICK z \in DOMAIN zones : \E old \in records[z] :
             Write(z, AuthorizeWrites(req, z, <<WriteOf(old)>>), {old}, {})
      BY <1>4, Zenon DEF DeleteRecord
    <2>2. PICK old \in records[z] : Write(z, AuthorizeWrites(req, z, <<WriteOf(old)>>), {old}, {})
      BY <2>1
    <2>3. PICK writes : writes = <<WriteOf(old)>>
      BY Zenon
    <2>4. 1 \in DOMAIN writes /\ writes[1].owner = old.name /\ writes[1].type = old.type
      BY <2>3 DEF WriteOf
    <2>5. old.name \in Seq(Labels)
      BY <1>1 DEF Recorded
    <2>6. PICK dels, adds : dels = {old} /\ adds = {}
      BY Zenon
    <2>7. /\ dels \subseteq records[z]
          /\ \A r \in dels \cup adds : /\ r.name \in Seq(Labels)
                                       /\ \E i \in DOMAIN writes : writes[i].owner = r.name /\ writes[i].type = r.type
      BY <2>4, <2>5, <2>6
    <2>8. Write(z, AuthorizeWrites(req, z, writes), dels, adds)
      BY <2>2, <2>3, <2>6, Zenon
    <2> QED
      BY <1>1, <2>7, <2>8, TokenWrite
  <1>5. CASE UpdateRecord /\ records' # records
    <2>1. PICK z \in DOMAIN zones : \E old \in records[z], rec \in Requests :
             Write(z, AuthorizeWrites(req, z, <<WriteOf(old), WriteOf(rec)>>), {old}, {rec})
      BY <1>5, ZenonT(30) DEF UpdateRecord
    <2>2. PICK old \in records[z], rec \in Requests :
             Write(z, AuthorizeWrites(req, z, <<WriteOf(old), WriteOf(rec)>>), {old}, {rec})
      BY <2>1, Zenon
    <2>3. PICK writes : writes = <<WriteOf(old), WriteOf(rec)>>
      BY Zenon
    <2>4. /\ 1 \in DOMAIN writes /\ writes[1].owner = old.name /\ writes[1].type = old.type
          /\ 2 \in DOMAIN writes /\ writes[2].owner = rec.name /\ writes[2].type = rec.type
      BY <2>3 DEF WriteOf
    <2>5. old.name \in Seq(Labels) /\ rec.name \in Seq(Labels)
      BY <1>1, AccessAssumption DEF Recorded
    <2>6. PICK dels, adds : dels = {old} /\ adds = {rec}
      BY Zenon
    <2>7. /\ dels \subseteq records[z]
          /\ \A r \in dels \cup adds : /\ r.name \in Seq(Labels)
                                       /\ \E i \in DOMAIN writes : writes[i].owner = r.name /\ writes[i].type = r.type
      BY <2>4, <2>5, <2>6
    <2>8. Write(z, AuthorizeWrites(req, z, writes), dels, adds)
      BY <2>2, <2>3, <2>6, Zenon
    <2> QED
      BY <1>1, <2>7, <2>8, TokenWrite
  <1> QED
    BY <1>2, <1>3, <1>4, <1>5

-----------------------------------------------------------------------------
(* The operations of a message                                             *)

\* A set of naturals that has an element has a smallest one; LeastNatural shows it.
HasLeast == \A S \in SUBSET Nat : S # {} => \E x \in S : \A y \in S : x <= y

\* The record is one of those the update section entry rr is about.
Touches(rr, zone, rec) == rec.name = Owner(rr.name, zone) /\ rr.type \in {WholeName, rec.type}

\* One operation changes only records it is about.
LEMMA OpTouches ==
  ASSUME NEW st, NEW rr, NEW zone, NEW soa, NEW res, res = ApplyOp(st, rr, zone, soa)
  PROVE  \A r \in (st.records \ res.records) \cup (res.records \ st.records) : Touches(rr, zone, r)
  <1>1. CASE res.records = st.records
    BY <1>1
  <1>2. CASE res.records = st.records \cup {RecordOf(rr, zone)}
    BY <1>2 DEF RecordOf, Touches
  <1>3. CASE res.records = st.records \ Matching(rr, zone, st.records)
    BY <1>3 DEF Matching, Touches
  <1>4. \/ res = st
        \/ \E rcode : res = [rcode |-> rcode, records |-> st.records]
        \/ res = [rcode |-> "NOERROR", records |-> st.records \cup {RecordOf(rr, zone)}]
        \/ res = [rcode |-> "NOERROR", records |-> st.records \ Matching(rr, zone, st.records)]
    BY Zenon DEF ApplyOp
  <1> QED
    BY <1>1, <1>2, <1>3, <1>4

\* The records after each operation.
Run(m, rs, soa, g, k) ==
    g = [n \in 0..k |-> IF n = 0 THEN [rcode |-> "NOERROR", records |-> rs]
                        ELSE ApplyOp(g[n - 1], m.updates[n], m.zone, soa)]

\* Any number of operations can be applied one after the other.
LEMMA RunExists ==
  ASSUME HasLeast, NEW m, NEW rs, NEW soa, NEW k \in Nat
  PROVE  \E g : Run(m, rs, soa, g, k)
  <1> DEFINE Bad == {n \in Nat : ~\E g : Run(m, rs, soa, g, n)}
  <1> SUFFICES ASSUME Bad # {} PROVE FALSE
    OBVIOUS
  <1>1. PICK n \in Bad : \A j \in Bad : n <= j
    BY Zenon DEF HasLeast
  <1>2. CASE n = 0
    <2>1. PICK g : g = [i \in 0..0 |-> [rcode |-> "NOERROR", records |-> rs]]
      BY Zenon
    <2>2. Run(m, rs, soa, g, 0)
      BY <2>1 DEF Run
    <2> QED
      BY <1>1, <1>2, <2>2
  <1>3. CASE n # 0
    <2>1. n \in Nat /\ n - 1 \in Nat /\ n - 1 \notin Bad
      BY <1>1, <1>3
    <2>2. PICK g : Run(m, rs, soa, g, n - 1)
      BY <2>1
    <2>3. PICK h : h = [i \in 0..n |-> IF i = n THEN ApplyOp(g[n - 1], m.updates[n], m.zone, soa) ELSE g[i]]
      BY Zenon
    <2>4. Run(m, rs, soa, h, n)
      <3>1. ASSUME NEW i \in 0..n
            PROVE  h[i] = IF i = 0 THEN [rcode |-> "NOERROR", records |-> rs]
                          ELSE ApplyOp(h[i - 1], m.updates[i], m.zone, soa)
        <4>1. CASE i = 0
          BY <1>3, <2>1, <2>2, <2>3, <4>1 DEF Run
        <4>2. CASE i # 0
          <5>1. i - 1 \in 0..(n - 1) /\ i - 1 \in 0..n /\ h[i - 1] = g[i - 1]
            BY <2>1, <2>3, <4>2
          <5>2. CASE i = n
            BY <2>3, <4>2, <5>1, <5>2
          <5>3. CASE i # n
            <6>1. i \in 0..(n - 1) /\ h[i] = g[i]
              BY <2>1, <2>3, <5>3
            <6>2. g[i] = ApplyOp(g[i - 1], m.updates[i], m.zone, soa)
              BY <2>2, <4>2, <6>1 DEF Run
            <6> QED
              BY <4>2, <5>1, <6>1, <6>2
          <5> QED
            BY <5>2, <5>3
        <4> QED
          BY <4>1, <4>2
      <3>2. h = [i \in 0..n |-> h[i]]
        BY <2>3
      <3> QED
        BY <3>1, <3>2, ZenonT(30) DEF Run
    <2> QED
      BY <1>1, <2>1, <2>4
  <1> QED
    BY <1>2, <1>3

\* What ApplyOps computes is the end of such a run.
LEMMA OpsRun ==
  ASSUME HasLeast, NEW m, NEW rs, NEW soa, Len(m.updates) \in Nat
  PROVE  \E g : Run(m, rs, soa, g, Len(m.updates)) /\ ApplyOps(m, rs, soa) = g[Len(m.updates)]
  <1>1. \E g : Run(m, rs, soa, g, Len(m.updates))
    BY RunExists, Zenon
  <1>2. PICK g : g = CHOOSE x : Run(m, rs, soa, x, Len(m.updates))
    OBVIOUS
  <1>3. Run(m, rs, soa, g, Len(m.updates))
    BY <1>1, <1>2, Zenon
  <1>4. ApplyOps(m, rs, soa) = g[Len(m.updates)]
    BY <1>2 DEF ApplyOps, Run
  <1> QED
    BY <1>3, <1>4

\* What the operations of a message change, taken together, one of them is about.
LEMMA OpsTouch ==
  ASSUME HasLeast, NEW m \in Messages, NEW rs, NEW soa, NEW result, result = ApplyOps(m, rs, soa)
  PROVE  \A r \in (rs \ result.records) \cup (result.records \ rs) :
            \E i \in DOMAIN m.updates : Touches(m.updates[i], m.zone, r)
  <1>1. Len(m.updates) \in Nat /\ DOMAIN m.updates = 1..Len(m.updates)
    BY AccessAssumption
  <1>2. PICK g : Run(m, rs, soa, g, Len(m.updates)) /\ ApplyOps(m, rs, soa) = g[Len(m.updates)]
    BY <1>1, OpsRun
  <1>3. /\ g[0].records = rs
        /\ \A n \in 1..Len(m.updates) : g[n] = ApplyOp(g[n - 1], m.updates[n], m.zone, soa)
    <2>1. \A n \in 0..Len(m.updates) : g[n] = IF n = 0 THEN [rcode |-> "NOERROR", records |-> rs]
                                            ELSE ApplyOp(g[n - 1], m.updates[n], m.zone, soa)
      BY <1>2, Zenon DEF Run
    <2>2. g[0] = [rcode |-> "NOERROR", records |-> rs]
      BY <1>1, <2>1
    <2>3. ASSUME NEW n \in 1..Len(m.updates) PROVE g[n] = ApplyOp(g[n - 1], m.updates[n], m.zone, soa)
      <3>1. n \in 0..Len(m.updates) /\ n # 0
        BY <1>1
      <3> QED
        BY <2>1, <3>1, Zenon
    <2> QED
      BY <2>2, <2>3
  <1> DEFINE Good(n) == \A r \in (rs \ g[n].records) \cup (g[n].records \ rs) :
                           \E i \in 1..n : Touches(m.updates[i], m.zone, r)
             Bad == {n \in 0..Len(m.updates) : ~Good(n)}
  <1>4. Good(0)
    BY <1>3, Zenon
  <1>5. ASSUME NEW n \in 1..Len(m.updates), Good(n - 1) PROVE Good(n)
    <2>1. PICK old, new : old = g[n - 1] /\ new = g[n]
      BY Zenon
    <2>2. \A r \in (old.records \ new.records) \cup (new.records \ old.records) : Touches(m.updates[n], m.zone, r)
      <3>1. new = ApplyOp(old, m.updates[n], m.zone, soa)
        BY <1>3, <2>1, Zenon
      <3> HIDE DEF Good
      <3> QED
        BY <3>1, OpTouches
    <2> SUFFICES ASSUME NEW r \in (rs \ new.records) \cup (new.records \ rs)
                 PROVE  \E i \in 1..n : Touches(m.updates[i], m.zone, r)
      BY <2>1, Zenon
    <2>3. n \in 1..n /\ \A i \in 1..(n - 1) : i \in 1..n
      BY <1>1
    <2>4. \/ r \in (rs \ old.records) \cup (old.records \ rs)
          \/ r \in (old.records \ new.records) \cup (new.records \ old.records)
      BY Zenon
    <2>5. CASE r \in (rs \ old.records) \cup (old.records \ rs)
      BY <1>5, <2>1, <2>3, <2>5, Zenon
    <2>6. CASE r \in (old.records \ new.records) \cup (new.records \ old.records)
      BY <2>2, <2>3, <2>6, Zenon
    <2> QED
      BY <2>4, <2>5, <2>6, Zenon
  <1>6. Good(Len(m.updates))
    <2> HIDE DEF Good
    <2> SUFFICES ASSUME Bad # {} PROVE FALSE
      BY <1>1
    <2>1. Bad \in SUBSET Nat
      BY <1>1
    <2>2. PICK n \in Bad : \A k \in Bad : n <= k
      BY <2>1, Zenon DEF HasLeast
    <2>3. n \in 0..Len(m.updates) /\ ~Good(n)
      BY <2>2
    <2>4. n # 0
      BY <1>4, <2>3, Zenon
    <2>5. n \in 1..Len(m.updates) /\ n - 1 \in 0..Len(m.updates) /\ ~(n <= n - 1)
      BY <1>1, <2>3, <2>4
    <2>6. n - 1 \notin Bad
      BY <2>2, <2>5, Zenon
    <2>7. Good(n - 1)
      BY <2>5, <2>6, Zenon
    <2> QED
      BY <1>5, <2>3, <2>5, <2>7, Zenon
  <1> QED
    BY <1>1, <1>2, <1>6, Zenon

\* A message authorize_key lets through has every operation covered.
LEMMA AuthorizedAll ==
  ASSUME HasLeast, NEW m \in Messages, NEW ps, AuthorizeKey(m, ps) = "NOERROR"
  PROVE  \A i \in DOMAIN m.updates : Covers(ps, Owner(m.updates[i].name, m.zone), m.updates[i].type)
  <1> DEFINE Error(rr) == IF OwnerError(rr.name, m.zone) # "NOERROR" THEN OwnerError(rr.name, m.zone)
                          ELSE IF Covers(ps, Owner(rr.name, m.zone), rr.type) THEN "NOERROR" ELSE "REFUSED"
             Bad == {i \in DOMAIN m.updates : Error(m.updates[i]) # "NOERROR"}
             IsFirst(i) == Error(m.updates[i]) # "NOERROR" /\ \A j \in 1..(i - 1) : Error(m.updates[j]) = "NOERROR"
  <1>1. Len(m.updates) \in Nat /\ DOMAIN m.updates = 1..Len(m.updates)
    BY AccessAssumption
  <1>2. Bad # {} => Error(m.updates[CHOOSE i \in DOMAIN m.updates : IsFirst(i)]) = "NOERROR"
    BY Zenon DEF AuthorizeKey, FirstError
  <1>3. \A rr : Error(rr) = "NOERROR" => Covers(ps, Owner(rr.name, m.zone), rr.type)
    BY Zenon
  <1> HIDE DEF Error
  <1>4. Bad = {}
    <2> SUFFICES ASSUME Bad # {} PROVE FALSE
      BY Zenon
    <2>1. Bad \in SUBSET Nat
      BY <1>1
    <2>2. PICK f \in Bad : \A j \in Bad : f <= j
      <3> HIDE DEF Bad
      <3> QED
        BY <2>1, Zenon DEF HasLeast
    <2>3. f \in DOMAIN m.updates /\ Error(m.updates[f]) # "NOERROR"
      BY <2>2, Zenon
    <2>4. ASSUME NEW j \in 1..(f - 1) PROVE Error(m.updates[j]) = "NOERROR"
      <3>1. j \in DOMAIN m.updates /\ ~(f <= j)
        BY <1>1, <2>3
      <3> QED
        BY <2>2, <3>1, Zenon
    <2>5. IsFirst(f)
      BY <2>3, <2>4, Zenon
    <2> HIDE DEF IsFirst
    <2>6. IsFirst(CHOOSE i \in DOMAIN m.updates : IsFirst(i))
      BY <2>3, <2>5, Zenon
    <2> QED
      BY <1>2, <2>6, Zenon DEF IsFirst
  <1> QED
    BY <1>3, <1>4, Zenon

\* What an update changes, one of its operations is about; for a scoped key the
\* policies ps cover that operation.
WithinPolicies(m, old, new, unrestricted, ps) ==
    \A r \in (old \ new) \cup (new \ old) :
        \E i \in DOMAIN m.updates :
           /\ Touches(m.updates[i], m.zone, r)
           /\ unrestricted \/ Covers(ps, Owner(m.updates[i].name, m.zone), m.updates[i].type)

\* It is so of every update that is applied.
LEMMA UpdateTouches ==
  ASSUME HasLeast, NEW m \in Messages, NEW rs, NEW unrestricted, NEW ps, NEW soa
  PROVE  WithinPolicies(m, rs, ApplyUpdate(m, rs, unrestricted, ps, soa).records, unrestricted, ps)
  <1> DEFINE result == ApplyUpdate(m, rs, unrestricted, ps, soa)
  <1>1. CASE \E rcode : result = [rcode |-> rcode, records |-> rs]
    <2>1. result.records = rs
      BY <1>1
    <2> HIDE DEF result
    <2> QED
      BY <2>1, Zenon DEF WithinPolicies, result
  <1>2. CASE (unrestricted \/ AuthorizeKey(m, ps) = "NOERROR") /\ result = ApplyOps(m, rs, soa)
    <2>1. \A r \in (rs \ result.records) \cup (result.records \ rs) :
             \E i \in DOMAIN m.updates : Touches(m.updates[i], m.zone, r)
      BY <1>2, OpsTouch
    <2>2. \A i \in DOMAIN m.updates :
             unrestricted \/ Covers(ps, Owner(m.updates[i].name, m.zone), m.updates[i].type)
      BY <1>2, AuthorizedAll
    <2> QED
      BY <2>1, <2>2, ZenonT(30) DEF WithinPolicies
  <1> QED
    BY <1>1, <1>2, Zenon DEF ApplyUpdate

\* The owner of an update is a name.
LEMMA OwnerIsName ==
  ASSUME NEW name \in Seq(Labels), NEW zone \in Seq(Labels)
  PROVE  Owner(name, zone) \in Seq(Labels)
  <1>1. PICK n : n = Len(name) - Len(zone)
    OBVIOUS
  <1>2. Len(name) \in Nat /\ Len(zone) \in Nat /\ n \in Int /\ n <= Len(name)
    BY <1>1
  <1>3. SubSeq(name, 1, n) \in Seq(Labels)
    BY <1>2
  <1> QED
    BY <1>1, <1>3 DEF Owner

\* An update commits only what the policies of its key cover at that moment.
LEMMA MessageStep ==
  ASSUME HasLeast, WriteInv, ApplyMessage
  PROVE  Recorded' /\ StepWithinGrant
  <1>1. /\ Rows /\ PoliciesSound /\ Recorded /\ zones' = zones /\ req.stage = "authenticated"
        /\ req.message \in Messages /\ (req.row = NoRow => unsigned)
        /\ req.row # NoRow /\ req.id \in DOMAIN creds =>
              creds[req.id].name = req.row.name /\ creds[req.id].secret = req.row.secret
    BY DEF ApplyMessage, WriteInv, AccessInv, Requesting
  <1>2. CASE records' = records
    BY <1>1, <1>2 DEF Recorded, StepWithinGrant
  <1>3. CASE records' # records
    <2>1. PICK m : m = req.message
      OBVIOUS
    <2>2. PICK unrestricted : unrestricted = (req.row = NoRow \/ req.row.global)
      OBVIOUS
    <2>3. PICK z \in DOMAIN zones :
             records' = [records EXCEPT ![z] =
                ApplyUpdate(m, records[z], unrestricted, IF unrestricted THEN {} ELSE KeyGrants(req, z), Soa).records]
      BY <1>3, <2>1, <2>2, Zenon DEF ApplyMessage, ZoneNamed
    <2>4. PICK ps : ps = IF unrestricted THEN {} ELSE KeyGrants(req, z)
      BY Zenon
    <2>5. PICK result : result = ApplyUpdate(m, records[z], unrestricted, ps, Soa)
      OBVIOUS
    <2>6. records' = [records EXCEPT ![z] = result.records]
      BY <2>3, <2>4, <2>5, Zenon
    <2>7. /\ DOMAIN records' = DOMAIN records /\ records'[z] = result.records
          /\ \A y \in DOMAIN zones : y # z => records'[y] = records[y]
      BY <1>1, <2>6 DEF Recorded
    <2>8. PICK rs : rs = records[z]
      OBVIOUS
    <2>9. \A r \in (rs \ result.records) \cup (result.records \ rs) :
             \E i \in DOMAIN m.updates :
                /\ Touches(m.updates[i], m.zone, r)
                /\ unrestricted \/ Covers(ps, Owner(m.updates[i].name, m.zone), m.updates[i].type)
      <3>1. m \in Messages /\ result = ApplyUpdate(m, rs, unrestricted, ps, Soa)
        BY <1>1, <2>1, <2>5, <2>8, ZenonT(30)
      <3>2. WithinPolicies(m, rs, ApplyUpdate(m, rs, unrestricted, ps, Soa).records, unrestricted, ps)
        BY <3>1, UpdateTouches, Zenon
      <3> QED
        BY <3>1, <3>2, Zenon DEF WithinPolicies
    <2>10. ASSUME NEW r \in (rs \ result.records) \cup (result.records \ rs)
           PROVE  /\ r.name \in Seq(Labels)
                  /\ unrestricted \/ GrantedNow(req.row, z, r)
      <3>1. PICK i \in DOMAIN m.updates :
                /\ Touches(m.updates[i], m.zone, r)
                /\ unrestricted \/ Covers(ps, Owner(m.updates[i].name, m.zone), m.updates[i].type)
        BY <2>9
      <3>2. m.updates[i].name \in Seq(Labels) /\ m.zone \in Seq(Labels)
        BY <1>1, <2>1, AccessAssumption
      <3>3. r.name = Owner(m.updates[i].name, m.zone) /\ m.updates[i].type \in {WholeName, r.type}
        BY <3>1 DEF Touches
      <3>4. r.name \in Seq(Labels)
        BY <3>2, <3>3, OwnerIsName
      <3>5. ASSUME ~unrestricted PROVE GrantedNow(req.row, z, r)
        <4>1. req.row # NoRow /\ ps = PoliciesOf(z, req.id)
          BY <2>2, <2>4, <3>5, Zenon DEF KeyGrants
        <4>2. PICK type : type = m.updates[i].type
          OBVIOUS
        <4>3. Covers(PoliciesOf(z, req.id), r.name, type) /\ type \in {WholeName, r.type}
          BY <3>1, <3>3, <3>5, <4>1, <4>2
        <4> QED
          BY <1>1, <3>4, <4>1, <4>3, CoveredIsGranted, Zenon
      <3> QED
        BY <3>4, <3>5
    <2>11. Recorded'
      <3>1. ASSUME NEW y \in DOMAIN zones, NEW r \in records'[y] PROVE r.name \in Seq(Labels)
        BY <1>1, <2>7, <2>8, <2>10, <3>1 DEF Recorded
      <3> QED
        BY <1>1, <2>7, <3>1 DEF Recorded
    <2>12. StepWithinGrant
      <3> SUFFICES ASSUME NEW y \in DOMAIN zones, NEW r \in (records[y] \ records'[y]) \cup (records'[y] \ records[y])
                   PROVE  \/ req.row = NoRow /\ unsigned
                          \/ req.row # NoRow /\ (req.row.global \/ GrantedNow(req.row, y, r))
        BY DEF StepWithinGrant
      <3>1. y = z
        BY <2>7
      <3>2. unrestricted \/ GrantedNow(req.row, z, r)
        BY <2>7, <2>8, <2>10, <3>1
      <3> QED
        BY <1>1, <2>2, <3>1, <3>2, ZenonT(30)
    <2> QED
      BY <2>11, <2>12
  <1> QED
    BY <1>2, <1>3

\* The other steps write no record of a zone that stays.
LEMMA OtherRecordedStep ==
  ASSUME Rows, Recorded, Next, ~CreateRecord, ~DeleteRecord, ~UpdateRecord, ~ApplyMessage
  PROVE  Recorded' /\ StepWithinGrant
  <1>1. CASE records' = records /\ DOMAIN zones' = DOMAIN zones
    BY <1>1 DEF Recorded, StepWithinGrant
  <1>2. ASSUME NEW c \in Managers, CreateZone(c) PROVE Recorded' /\ StepWithinGrant
    <2>1. /\ DOMAIN zones' = DOMAIN zones \cup {lastId + 1}
          /\ DOMAIN records' = DOMAIN records \cup {lastId + 1} /\ records'[lastId + 1] = {ApexNs}
          /\ \A z \in DOMAIN records \ {lastId + 1} : records'[z] = records[z]
      BY <1>2 DEF CreateZone, With
    <2>2. lastId + 1 \notin DOMAIN zones
      BY DEF Rows
    <2>3. ApexNs.name = <<>> /\ <<>> \in Seq(Labels)
      BY DEF ApexNs
    <2> QED
      BY <2>1, <2>2, <2>3, ZenonT(30) DEF Recorded, StepWithinGrant
  <1>3. ASSUME NEW c \in Managers, DeleteZone(c) PROVE Recorded' /\ StepWithinGrant
    <2>1. PICK z : zones' = Without(zones, {z}) /\ records' = Without(records, {z})
      BY <1>3, Zenon DEF DeleteZone
    <2>2. /\ DOMAIN zones' = DOMAIN zones \ {z} /\ DOMAIN records' = DOMAIN records \ {z}
          /\ \A y \in DOMAIN records' : records'[y] = records[y]
      BY <2>1 DEF Without
    <2> QED
      BY <2>2, Zenon DEF Recorded, StepWithinGrant
  <1>4. ASSUME NEW c \in Managers, Manage(c), ~CreateZone(c), ~DeleteZone(c)
        PROVE  records' = records /\ DOMAIN zones' = DOMAIN zones
    BY <1>4, Zenon DEF Manage, CreateCredential, InsertCredential, DeleteCredential, CountPolicies, RemoveCredential,
                AddPolicy, FindGrantee, InsertPolicy, RemovePolicy, FindPolicy, DeletePolicy, RenameZone, tables
  <1>5. CASE Request \/ Expire
    <2>1. UNCHANGED <<zones, records>>
      BY <1>5, Zenon DEF Request, Expire, RefuseUnauthenticated, ValidateToken, StampToken, LoadGrants, RequireGlobal,
                  ListZones, ReadZone, ReceiveUpdate, tables
    <2> QED
      BY <1>1, <2>1
  <1> QED
    BY <1>1, <1>2, <1>3, <1>4, <1>5 DEF Next

INSTANCE WellFoundedInduction

\* The naturals are well ordered.
LEMMA LeastOfSet ==
  ASSUME NEW S \in SUBSET Nat, S # {}
  PROVE  \E x \in S : \A y \in S : x <= y
  <1> DEFINE Less == {ss \in Nat \X Nat : ss[1] < ss[2]}
  <1>1. IsWellFoundedOn(Less, Nat)
    BY NatLessThanWellFounded DEF OpToRel
  <1>2. \E x \in S : \A y \in S : ~(<<y, x>> \in Less)
    <2> HIDE DEF Less
    <2> QED BY <1>1, WFMin, Zenon
  <1>3. \A x, y \in Nat : <<y, x>> \in Less <=> y < x
    OBVIOUS
  <1> HIDE DEF Less
  <1>4. PICK x \in S : \A y \in S : ~(<<y, x>> \in Less)
    BY <1>2
  <1>5. \A y \in S : ~(y < x)
    BY <1>3, <1>4, Zenon
  <1>6. \A y \in S : x <= y
    BY <1>5
  <1> QED BY <1>6

\* Hence what the lemmas on the operations of a message assume.
LEMMA LeastNatural == HasLeast
  BY LeastOfSet, Zenon DEF HasLeast

\* Records keep their names, and every step writes within the grant.
LEMMA WriteStep ==
  ASSUME WriteInv, Next
  PROVE  Recorded' /\ StepWithinGrant
  BY TokenWriteStep, MessageStep, OtherRecordedStep, LeastNatural DEF WriteInv, AccessInv

\* The invariant holds in every behaviour.
LEMMA WriteInvariant == Spec => []WriteInv
  <1>1. WriteInv /\ [Next]_vars => Recorded'
    <2>1. Recorded /\ UNCHANGED vars => Recorded'
      BY DEF Recorded, vars
    <2> QED
      BY <2>1, WriteStep DEF WriteInv
  <1> QED
    BY AccessInvariant, RecordsInit, <1>1, PTL DEF Spec, WriteInv

-----------------------------------------------------------------------------
(* Writes are within the grant                                             *)

\* Every record written through the HTTP API or by nsupdate is covered, when the
\* write commits, by a policy of the credential presented, whatever the messages,
\* the patterns and the number of operations.
THEOREM WritesStayWithinGrant == Spec => WritesWithinGrant
  <1>1. WriteInv /\ [Next]_vars => [StepWithinGrant]_vars
    BY WriteStep
  <1> QED
    BY WriteInvariant, <1>1, PTL DEF Spec, WritesWithinGrant
=============================================================================
