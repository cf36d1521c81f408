------------------------------- MODULE Access -------------------------------
(***************************************************************************)
(* Who may read and write: API tokens and their zone policies (HTTP API),  *)
(* TSIG keys and theirs (nsupdate), the requests that present them and the *)
(* management operations that create, delete, grant and revoke meanwhile.  *)
(*                                                                         *)
(* kind says which plane a behaviour is about; credential and policy rows  *)
(* have the same shape on both. Every query outside a transaction is a     *)
(* step of its own. The writing transaction is one step: it locks the zone *)
(* row and share-locks the policies it relies on. Ids grow and are never   *)
(* reused (AUTOINCREMENT).                                                 *)
(***************************************************************************)
EXTENDS FiniteSets, UpdateMessage

CONSTANTS
    Managers,      \* clients that manage zones, credentials and policies
    Labels,        \* the labels of names
    ZoneNames,     \* zone names, as label sequences
    CredNames,     \* names of tokens or keys
    Secrets,       \* key secrets an operator chooses from
    Owners,        \* owner names, as label sequences
    Requests,      \* records a token request carries
    Messages,      \* RFC 2136 messages
    Grantable,     \* pattern and type list of a policy, as requested
    PrimaryNs,     \* every zone's primary_ns
    ZoneTtl,       \* every zone's TTL
    FirstZone,     \* the name of the zone there is at first
    ScopedName,    \* the names of the credentials there are at first
    GlobalName,
    MaxManage,     \* bound: management operations
    NoRow          \* no row

Record == [name : Owners, type : UpdatableTypes, value : {r.value : r \in Requests} \cup {PrimaryNs}
                                                        \cup UNION {{m.updates[i].rdata : i \in DOMAIN m.updates} : m \in Messages},
           ttl : 0..MaxTtl]

Soa == [primary_ns |-> PrimaryNs]

ApexNs == [name |-> <<>>, type |-> "NS", value |-> PrimaryNs, ttl |-> ZoneTtl]

VARIABLES
    kind,       \* "token" or "key"
    unsigned,   \* dns.nsupdate_allow_unsigned
    zones,      \* id -> name
    creds,      \* id -> a row of api_tokens or tsig_keys
    policies,   \* id -> a row of zone_token_policies or zone_tsig_policies
    records,    \* zone id -> the zone's records
    lastId,     \* the newest id; the tables share one sequence
    req,        \* the request being served
    could,      \* zones granted to req's credential at some time since it began
    mgr,        \* manager -> the management operation in progress
    managed     \* management operations begun

vars == <<kind, unsigned, zones, creds, policies, records, lastId, req, could, mgr, managed>>

tables == <<zones, creds, policies, records, lastId>>

-----------------------------------------------------------------------------
(* Tables                                                                  *)

CredRow == [name : CredNames, secret : Nat, global : BOOLEAN, expired : BOOLEAN, stamped : BOOLEAN]

\* Names are sequences of labels, in requests, messages and patterns, and no row
\* is not a row.
ASSUME AccessAssumption ==
    /\ Secrets \subseteq Nat
    /\ {ScopedName, GlobalName} \subseteq CredNames /\ ScopedName # GlobalName
    /\ NoRow \notin CredRow
    /\ \A r \in Requests : r.name \in Seq(Labels)
    /\ \A g \in Grantable :
          g.pattern.form \in {"any", "apex", "under", "exact"} /\ g.pattern.labels \in Seq(Labels)
    /\ \A m \in Messages :
          /\ m.zone \in Seq(Labels)
          /\ Len(m.updates) \in Nat /\ DOMAIN m.updates = 1..Len(m.updates)
          /\ \A i \in DOMAIN m.updates : m.updates[i].name \in Seq(Labels)

Without(f, S) == [x \in DOMAIN f \ S |-> f[x]]

With(f, x, row) == [y \in DOMAIN f \cup {x} |-> IF y = x THEN row ELSE f[y]]

Named(table, name) == {id \in DOMAIN table : table[id].name = name}

ZoneNamed(name) == {id \in DOMAIN zones : zones[id] = name}

PoliciesOf(zone, cred) ==
    {policies[p] : p \in {q \in DOMAIN policies : policies[q].zone = zone /\ policies[q].cred = cred}}

GrantsOf(cred) == {policies[p] : p \in {q \in DOMAIN policies : policies[q].cred = cred}}

-----------------------------------------------------------------------------
(* Requests                                                                *)

Idle == [stage |-> "idle"]

Answer(code) == [stage |-> "done", code |-> code, signed |-> FALSE, shown |-> {}, global |-> FALSE]

\* The zones granted to the credential that holds a secret.
GrantedZones(name, secret) ==
    {policies[p].zone : p \in {q \in DOMAIN policies :
        creds[policies[q].cred].name = name /\ creds[policies[q].cred].secret = secret}}

\* auth_middleware: no Bearer token in the request.
RefuseUnauthenticated ==
    /\ kind = "token" /\ req = Idle
    /\ req' = Answer("401")
    /\ could' = {}
    /\ UNCHANGED <<kind, unsigned, tables, mgr, managed>>

\* validate_token: the row is looked up by the hash of the secret; unknown and
\* expired tokens are refused.
ValidateToken ==
    /\ kind = "token" /\ req = Idle
    /\ \E secret \in 1..lastId :
         LET rows == {id \in DOMAIN creds : creds[id].secret = secret}
         IN IF rows = {} \/ \E id \in rows : creds[id].expired
              THEN /\ req' = Answer("401")
                   /\ could' = {}
              ELSE \E id \in rows :
                   /\ req' = [stage |-> "validated", id |-> id, row |-> creds[id]]
                   /\ could' = GrantedZones(creds[id].name, secret)
    /\ UNCHANGED <<kind, unsigned, tables, mgr, managed>>

\* The rest of validate_token: last_used_at is stamped unless it is fresh; the
\* row may be gone by now, and the token is accepted all the same.
StampToken ==
    /\ req.stage = "validated"
    /\ creds' = IF ~req.row.stamped /\ req.id \in DOMAIN creds
                  THEN [creds EXCEPT ![req.id].stamped = TRUE] ELSE creds
    /\ req' = [req EXCEPT !.stage = "stamped"]
    /\ UNCHANGED <<kind, unsigned, zones, policies, records, lastId, could, mgr, managed>>

\* Caller::authenticate: a scoped token's grants are read once.
LoadGrants ==
    /\ req.stage = "stamped"
    /\ req' = [stage |-> "caller", id |-> req.id, row |-> req.row,
               grants |-> IF req.row.global THEN {} ELSE GrantsOf(req.id)]
    /\ UNCHANGED <<kind, unsigned, tables, could, mgr, managed>>

\* Mutant of ListShown: a token without grants is not restricted.
ListShownUnlessEmpty(r) ==
    IF r.row.global \/ GrantsOf(r.id) = {} THEN DOMAIN zones
    ELSE {z \in DOMAIN zones : \E p \in GrantsOf(r.id) : p.zone = z}

\* The zones list_by_filter joins against the token's policies in SQL.
ListShown(r) ==
    IF r.row.global THEN DOMAIN zones
    ELSE {z \in DOMAIN zones : \E p \in GrantsOf(r.id) : p.zone = z}

\* Caller::zone_visible, on the grants read when the request began.
ZoneVisible(r, zone) == r.row.global \/ \E p \in r.grants : p.zone = zone

\* Caller::require_global, at the head of every operation on zones, credentials
\* and policies.
RequireGlobal ==
    /\ req.stage = "caller" /\ ~req.row.global
    /\ req' = Answer("403")
    /\ UNCHANGED <<kind, unsigned, tables, could, mgr, managed>>

\* GET on the collections: zones and records in one query.
ListZones ==
    /\ req.stage = "caller"
    /\ req' = [Answer("200") EXCEPT !.shown = ListShown(req), !.global = req.row.global]
    /\ UNCHANGED <<kind, unsigned, tables, could, mgr, managed>>

\* GET on one zone, its export, history or records: lookup, then ensure_zone_visible.
ReadZone ==
    /\ req.stage = "caller"
    /\ \E name \in ZoneNames :
         LET found == {z \in ZoneNamed(name) : ZoneVisible(req, z)}
         IN req' = IF found = {} THEN Answer("404") ELSE [Answer("200") EXCEPT !.shown = found, !.global = req.row.global]
    /\ UNCHANGED <<kind, unsigned, tables, could, mgr, managed>>

\* Mutant of WriteGrants: the grants read when the request began are used.
WriteGrantsPreloaded(r, zone) == {p \in r.grants : p.zone = zone}

\* The policies authorize_record_writes_tx reads, and share-locks, in the
\* writing transaction.
WriteGrants(r, zone) == PoliciesOf(zone, r.id)

AuthorizeWrites(r, zone, writes) == r.row.global \/ AuthorizeAll(WriteGrants(r, zone), writes)

WriteOf(rec) == [owner |-> rec.name, type |-> rec.type]

\* A refusal, or the commit of a token request: dels replaced by adds.
Write(zone, allowed, dels, adds) ==
    IF ~allowed
      THEN /\ req' = Answer("403")
           /\ UNCHANGED records
      ELSE IF \/ ~Rules!AllAddable(records[zone] \ dels, adds)
              \/ ~Rules!Deletable(Soa, dels) /\ Rules!Deletable(Soa, adds)
        THEN /\ req' = Answer("409")
             /\ UNCHANGED records
        ELSE /\ req' = Answer("200")
             /\ records' = [records EXCEPT ![zone] = (@ \ dels) \cup adds]

\* RecordService::create: the zone is found by name inside the transaction.
CreateRecord ==
    /\ req.stage = "caller"
    /\ \E name \in ZoneNames, rec \in Requests :
         \/ /\ ZoneNamed(name) = {}
            /\ req' = Answer("404")
            /\ UNCHANGED records
         \/ \E z \in ZoneNamed(name) : Write(z, AuthorizeWrites(req, z, <<WriteOf(rec)>>), {}, {rec})
    /\ UNCHANGED <<kind, unsigned, zones, creds, policies, lastId, could, mgr, managed>>

\* RecordService::delete: a record of an invisible zone is not found.
DeleteRecord ==
    /\ req.stage = "caller"
    /\ \E z \in DOMAIN zones : \E old \in records[z] :
         \/ /\ ~ZoneVisible(req, z)
            /\ req' = Answer("404")
            /\ UNCHANGED records
         \/ /\ ZoneVisible(req, z)
            /\ Write(z, AuthorizeWrites(req, z, <<WriteOf(old)>>), {old}, {})
    /\ UNCHANGED <<kind, unsigned, zones, creds, policies, lastId, could, mgr, managed>>

\* RecordService::update: both the stored and the requested identity are
\* authorized.
UpdateRecord ==
    /\ req.stage = "caller"
    /\ \E z \in DOMAIN zones : \E old \in records[z], rec \in Requests :
         \/ /\ ~ZoneVisible(req, z)
            /\ req' = Answer("404")
            /\ UNCHANGED records
         \/ /\ ZoneVisible(req, z)
            /\ Write(z, AuthorizeWrites(req, z, <<WriteOf(old), WriteOf(rec)>>), {old}, {rec})
    /\ UNCHANGED <<kind, unsigned, zones, creds, policies, lastId, could, mgr, managed>>

\* The answer to a message, signed once its TSIG was validated.
Respond(rcode, row) == [Answer(rcode) EXCEPT !.signed = row # NoRow]

Authenticated(m, row, id) == [stage |-> "authenticated", message |-> m, row |-> row, id |-> id]

\* validate_tsig, with the stored key of the name or none: the errors it may
\* find. A message that comes late is outside its fudge.
ValidateTsig(m) ==
    LET named == Named(creds, m.key)
    IN  IF named = {} THEN {"BADKEY"}
        ELSE IF \A id \in named : creds[id].secret # m.secret THEN {"BADSIG"}
        ELSE {"NOERROR", "BADTIME"}

\* tsig_failure: the complete NOTAUTH response, which only a key that verified
\* the request signs.
TsigFailure(error) == [Answer(error) EXCEPT !.signed = error = "BADTIME"]

\* handle_nsupdate_request up to the transaction: parse, the root zone, then
\* authenticate_request.
ReceiveUpdate ==
    /\ kind = "key" /\ req = Idle
    /\ \E m \in Messages : \E error \in ValidateTsig(m) :
            req' \in
              IF ParseUpdateRequest(m) # "NOERROR" THEN {Answer("FORMERR")}
              ELSE IF m.zone = <<>> THEN {Answer("NOTZONE")}
              ELSE IF ~Signed(m) THEN IF unsigned THEN {Authenticated(m, NoRow, 0)} ELSE {Answer("REFUSED")}
              ELSE IF error # "NOERROR" THEN {TsigFailure(error)}
              ELSE {Authenticated(m, creds[id], id) : id \in Named(creds, m.key)}
    /\ UNCHANGED <<kind, unsigned, tables, could, mgr, managed>>

\* The policies authorize_key reads and share-locks.
KeyGrants(r, zone) == PoliciesOf(zone, r.id)

\* decode_prerequisites and decode_updates, then DynamicUpdateService::apply.
ApplyMessage ==
    /\ req.stage = "authenticated"
    /\ LET m == req.message
           found == ZoneNamed(m.zone)
       IN \/ /\ Decode(m) # "NOERROR"
             /\ req' = Respond("REFUSED", req.row)
             /\ UNCHANGED records
          \/ /\ Decode(m) = "NOERROR" /\ found = {}
             /\ req' = Respond("NOTZONE", req.row)
             /\ UNCHANGED records
          \/ /\ Decode(m) = "NOERROR"
             /\ \E z \in found :
                  LET unrestricted == req.row = NoRow \/ req.row.global
                      grants == IF unrestricted THEN {} ELSE KeyGrants(req, z)
                      result == ApplyUpdate(m, records[z], unrestricted, grants, Soa)
                  IN /\ req' = Respond(result.rcode, req.row)
                     /\ records' = [records EXCEPT ![z] = result.records]
    /\ UNCHANGED <<kind, unsigned, zones, creds, policies, lastId, could, mgr, managed>>

-----------------------------------------------------------------------------
(* Management: every operation requires a global caller                    *)

Free == [op |-> "free"]

Begin(c, op) ==
    /\ mgr[c] = Free /\ managed < MaxManage
    /\ mgr' = [mgr EXCEPT ![c] = op]
    /\ managed' = managed + 1

End(c) == mgr' = [mgr EXCEPT ![c] = Free]

\* TokenService::create and TsigKeyService::create, up to the check of the name.
CreateCredential(c) ==
    /\ \E name \in CredNames, global \in BOOLEAN, secret \in Secrets :
         /\ Named(creds, name) = {}
         /\ Begin(c, [op |-> "create", name |-> name, global |-> global, secret |-> secret])
    /\ UNCHANGED <<kind, unsigned, tables, req, could>>

\* The insert: UNIQUE(name) refuses the loser of two creations. A token's
\* secret is random, hence new; a key's may be imported.
InsertCredential(c) ==
    /\ mgr[c].op = "create"
    /\ IF Named(creds, mgr[c].name) # {} THEN UNCHANGED <<creds, lastId>>
       ELSE /\ lastId' = lastId + 1
            /\ creds' = With(creds, lastId + 1,
                 [name |-> mgr[c].name, global |-> mgr[c].global, expired |-> FALSE, stamped |-> FALSE,
                  secret |-> IF kind = "token" THEN lastId + 1 ELSE mgr[c].secret])
    /\ End(c)
    /\ UNCHANGED <<kind, unsigned, zones, policies, records, req, could, managed>>

\* TokenService::delete and TsigKeyService::delete: the row is found by name.
DeleteCredential(c) ==
    /\ \E name \in CredNames : \E id \in Named(creds, name) : Begin(c, [op |-> "delete", id |-> id])
    /\ UNCHANGED <<kind, unsigned, tables, req, could>>

\* TsigKeyService::delete counts the key's policies before it deletes.
CountPolicies(c) ==
    /\ kind = "key" /\ mgr[c].op = "delete"
    /\ mgr' = [mgr EXCEPT ![c] = IF GrantsOf(mgr[c].id) = {}
                                   THEN [op |-> "counted", id |-> mgr[c].id] ELSE Free]
    /\ UNCHANGED <<kind, unsigned, tables, req, could, managed>>

\* ON DELETE CASCADE from api_tokens to zone_token_policies.
PoliciesLeft(id) == Without(policies, {p \in DOMAIN policies : policies[p].cred = id})

\* The delete by id. A key that has gained a policy since is kept by the
\* foreign key; a token takes its policies with it.
RemoveCredential(c) ==
    /\ mgr[c].op = IF kind = "key" THEN "counted" ELSE "delete"
    /\ LET id == mgr[c].id
       IN IF kind = "key" /\ GrantsOf(id) # {} THEN UNCHANGED <<creds, policies>>
          ELSE /\ creds' = Without(creds, {id})
               /\ policies' = PoliciesLeft(id)
    /\ End(c)
    /\ UNCHANGED <<kind, unsigned, zones, records, lastId, req, could, managed>>

\* TokenPolicyService::add and TsigPolicyService::add: the zone is looked up,
AddPolicy(c) ==
    /\ \E name \in ZoneNames, cred \in CredNames, grant \in Grantable : \E z \in ZoneNamed(name) :
         Begin(c, [op |-> "add", zone |-> z, name |-> cred, grant |-> grant])
    /\ UNCHANGED <<kind, unsigned, tables, req, could>>

\* then the credential, a global one being rejected,
FindGrantee(c) ==
    /\ mgr[c].op = "add"
    /\ \/ /\ \A id \in Named(creds, mgr[c].name) : creds[id].global
          /\ End(c)
       \/ \E id \in Named(creds, mgr[c].name) :
            /\ ~creds[id].global
            /\ mgr' = [mgr EXCEPT ![c] = [op |-> "grant", zone |-> mgr[c].zone, id |-> id,
                                          name |-> mgr[c].name, grant |-> mgr[c].grant]]
    /\ UNCHANGED <<kind, unsigned, tables, req, could, managed>>

\* Mutant of Grantee: the policy goes to whoever holds the name by now.
GranteeByName(op) == Named(creds, op.name)

\* The row the foreign key of the insert finds: the id that was looked up.
Grantee(op) == {op.id} \cap DOMAIN creds

\* and the policy is inserted unless a foreign key misses its row.
InsertPolicy(c) ==
    /\ mgr[c].op = "grant"
    /\ \/ /\ mgr[c].zone \notin DOMAIN zones \/ Grantee(mgr[c]) = {}
          /\ UNCHANGED <<policies, lastId, could>>
       \/ /\ mgr[c].zone \in DOMAIN zones
          /\ \E id \in Grantee(mgr[c]) :
               /\ policies' = With(policies, lastId + 1,
                    [zone |-> mgr[c].zone, cred |-> id,
                     pattern |-> mgr[c].grant.pattern, types |-> mgr[c].grant.types])
               /\ could' = IF req.stage \in {"validated", "stamped", "caller"} /\ req.id = id
                             THEN could \cup {mgr[c].zone} ELSE could
          /\ lastId' = lastId + 1
    /\ End(c)
    /\ UNCHANGED <<kind, unsigned, zones, creds, records, req, managed>>

\* remove: the zone by name, the policy by id among the zone's, then the delete.
RemovePolicy(c) ==
    /\ \E name \in ZoneNames : \E z \in ZoneNamed(name) : Begin(c, [op |-> "remove", zone |-> z])
    /\ UNCHANGED <<kind, unsigned, tables, req, could>>

FindPolicy(c) ==
    /\ mgr[c].op = "remove"
    /\ \/ End(c)
       \/ \E p \in DOMAIN policies :
            /\ policies[p].zone = mgr[c].zone
            /\ mgr' = [mgr EXCEPT ![c] = [op |-> "revoke", policy |-> p]]
    /\ UNCHANGED <<kind, unsigned, tables, req, could, managed>>

DeletePolicy(c) ==
    /\ mgr[c].op = "revoke"
    /\ policies' = Without(policies, {mgr[c].policy})
    /\ End(c)
    /\ UNCHANGED <<kind, unsigned, zones, creds, records, lastId, req, could, managed>>

\* Zone creation, deletion and renaming are single transactions.
CreateZone(c) ==
    /\ \E name \in ZoneNames :
         /\ ZoneNamed(name) = {}
         /\ zones' = With(zones, lastId + 1, name)
    /\ records' = With(records, lastId + 1, {ApexNs})
    /\ lastId' = lastId + 1
    /\ Begin(c, Free)
    /\ UNCHANGED <<kind, unsigned, creds, policies, req, could>>

\* ON DELETE CASCADE takes the zone's records and policies.
DeleteZone(c) ==
    /\ \E z \in DOMAIN zones :
         /\ zones' = Without(zones, {z})
         /\ records' = Without(records, {z})
         /\ policies' = Without(policies, {p \in DOMAIN policies : policies[p].zone = z})
    /\ Begin(c, Free)
    /\ UNCHANGED <<kind, unsigned, creds, lastId, req, could>>

RenameZone(c) ==
    /\ \E z \in DOMAIN zones, name \in ZoneNames :
         /\ ZoneNamed(name) = {}
         /\ zones' = [zones EXCEPT ![z] = name]
    /\ Begin(c, Free)
    /\ UNCHANGED <<kind, unsigned, creds, policies, records, lastId, req, could>>

\* A token passes its expires_at.
Expire ==
    /\ kind = "token"
    /\ \E id \in DOMAIN creds :
         /\ ~creds[id].expired
         /\ creds' = [creds EXCEPT ![id].expired = TRUE]
    /\ managed < MaxManage /\ managed' = managed + 1
    /\ UNCHANGED <<kind, unsigned, zones, policies, records, lastId, req, could, mgr>>

-----------------------------------------------------------------------------
\* One zone with a record, a scoped credential with or without a policy, and a
\* global one.
Init ==
    /\ kind \in {"token", "key"}
    /\ unsigned \in IF kind = "key" THEN BOOLEAN ELSE {FALSE}
    /\ zones = [z \in {1} |-> FirstZone]
    /\ \E rec \in Requests : records = [z \in {1} |-> {ApexNs, rec}]
    /\ creds = [id \in {1, 2} |->
         [name |-> IF id = 1 THEN ScopedName ELSE GlobalName, secret |-> id, global |-> id = 2,
          expired |-> FALSE, stamped |-> FALSE]]
    /\ policies \in {[p \in {1} |-> [zone |-> 1, cred |-> 1, pattern |-> grant.pattern, types |-> grant.types]] :
                       grant \in Grantable} \cup {[p \in {} |-> 0]}
    /\ lastId = 2
    /\ req = Idle
    /\ could = {}
    /\ mgr = [c \in Managers |-> Free]
    /\ managed = 0

Request ==
    \/ RefuseUnauthenticated \/ ValidateToken \/ StampToken \/ LoadGrants
    \/ RequireGlobal \/ ListZones \/ ReadZone
    \/ CreateRecord \/ DeleteRecord \/ UpdateRecord
    \/ ReceiveUpdate \/ ApplyMessage

Manage(c) ==
    \/ CreateCredential(c) \/ InsertCredential(c)
    \/ DeleteCredential(c) \/ CountPolicies(c) \/ RemoveCredential(c)
    \/ AddPolicy(c) \/ FindGrantee(c) \/ InsertPolicy(c)
    \/ RemovePolicy(c) \/ FindPolicy(c) \/ DeletePolicy(c)
    \/ CreateZone(c) \/ DeleteZone(c) \/ RenameZone(c)

Next == Request \/ (\E c \in Managers : Manage(c)) \/ Expire

Spec == Init /\ [][Next]_vars

-----------------------------------------------------------------------------
(* Properties                                                              *)

\* The rows are rows.
TypeOK ==
    /\ zones \in [DOMAIN zones -> ZoneNames]
    /\ creds \in [DOMAIN creds -> CredRow]
    /\ records \in [DOMAIN zones -> SUBSET Record]

\* Every policy belongs to a zone and a credential that exist, names are unique
\* and no global credential carries a policy, although the add operations look
\* up the zone, test is_global and insert in three queries, while the zone or the
\* credential may be deleted and its name created again, as global, in between.
PoliciesSound ==
    /\ \A i, j \in DOMAIN creds : creds[i].name = creds[j].name => i = j
    /\ \A p \in DOMAIN policies :
          /\ policies[p].zone \in DOMAIN zones /\ policies[p].cred \in DOMAIN creds
          /\ ~creds[policies[p].cred].global

\* What a pattern means for a name: all, the apex, the name itself, or the name
\* is the pattern's with labels in front of it.
Denotes(pattern, name) ==
    \/ pattern.form = "any"
    \/ pattern.form = "apex" /\ name = <<>>
    \/ pattern.form = "exact" /\ name = pattern.labels
    \/ pattern.form = "under" /\ \E k \in 0..Len(name) : pattern.labels = SubSeq(name, k + 1, Len(name))

\* The credential that was presented holds, now, a policy of the zone that
\* covers the record.
GrantedNow(row, zone, rec) ==
    \E p \in DOMAIN policies :
        /\ policies[p].zone = zone
        /\ policies[p].cred \in DOMAIN creds
        /\ creds[policies[p].cred].name = row.name /\ creds[policies[p].cred].secret = row.secret
        /\ Denotes(policies[p].pattern, rec.name)
        /\ "*" \in policies[p].types \/ rec.type \in policies[p].types

\* What a step adds to or removes from a zone is covered by a policy of the
\* credential presented; only one read as global, or an unsigned update the
\* configuration accepts, is exempt.
StepWithinGrant ==
    \A z \in DOMAIN zones \cap DOMAIN zones' :
      \A rec \in (records[z] \ records'[z]) \cup (records'[z] \ records[z]) :
        \/ req.row = NoRow /\ unsigned
        \/ req.row # NoRow /\ (req.row.global \/ GrantedNow(req.row, z, rec))

\* Every record a request adds or removes is covered, when the transaction
\* commits, by a policy of the very credential the request presented: not of a
\* namesake created since, and not by a grant revoked since authentication.
WritesWithinGrant == [][StepWithinGrant]_vars

\* A request shows only zones its token was granted at some moment since it
\* was presented: neither a zone that took the name of a granted one, nor one
\* whose grant was revoked before.
ReadsWithinGrant ==
    req.stage = "done" /\ kind = "token" /\ req.shown # {} => req.global \/ req.shown \subseteq could
=============================================================================
