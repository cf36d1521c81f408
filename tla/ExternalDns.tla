---------------------------- MODULE ExternalDns ----------------------------
(***************************************************************************)
(* The ExternalDNS provider: the controller (external) lists the records,  *)
(* has its endpoints adjusted, plans the difference and posts it to the    *)
(* webhook adapter, which checks it, forwards it to the bindizr API and    *)
(* maps the answer back. The server applies a change set in one            *)
(* transaction, locking its zones in name order. An answer may be lost: a  *)
(* request that timed out may still commit later, after its own retry or   *)
(* after a newer plan, or be cancelled with its connection.                *)
(*                                                                         *)
(* A name is the sequence of its labels, leaf first. Spellings of a value  *)
(* are elements of Spellings, Encoded gives the value one is stored as.    *)
(* Requests the webhook only reads for (zones, records, adjust) fail       *)
(* without effect, which leaves the controller where it was.               *)
(***************************************************************************)
EXTENDS Integers, Sequences, SequencesExt, FiniteSets, Functions

CONSTANTS
    ZoneOrder,     \* the zones' names in the order of BTreeMap<ZoneName, _>
    GrantChoices,  \* the sets of policies the API token may have at first, each policy
                   \* [zone, names, types], names the relative ones its pattern matches
    Managed,       \* the names the controller manages
    Encoded,       \* spelling -> stored value, for the spellings that parse
    DesiredSets,   \* the controller's desired endpoints, each set a sequence
    ForeignRows,   \* rows other clients write
    ZoneTtl,       \* every zone's TTL
    NullMx,        \* the value of a null MX
    MaxTtl,        \* i32::MAX
    MaxSerial,     \* i32::MAX
    MaxSwitches,   \* bound: changes of the desired set
    MaxForeign,    \* bound: writes of other clients
    MaxFaults,     \* bound: lost answers and failing transactions
    MaxRetries     \* resends of one plan after a 5xx (external-dns)

Zones == ToSet(ZoneOrder)

Rules == INSTANCE RecordRules WITH Apex <- <<>>

\* EXTERNAL_DNS_RECORD_TYPES; AAAA and TXT behave as A does.
SupportedTypes == {"A", "CNAME"}

Slots == 1..2    \* requests the server works on at once

VARIABLES
    rows,       \* records: [zone, name, type, value, ttl], name relative to the zone
    serial,     \* zone -> serial
    policies,   \* the token's policies
    desired,    \* the controller's desired endpoints
    phase,      \* where the controller's loop is
    current,    \* endpoints it listed
    synced,     \* whether the records matched the desired set when it listed them
    adjusted,   \* its desired endpoints as the webhook adjusted them
    plan,       \* the change set it is posting
    retries,    \* how often it resent the plan
    awaited,    \* the slot whose answer it waits for, 0 for none
    tx,         \* slot -> the server's transaction on it
    last,       \* the request whose commit was the last change of the rows
    switches, foreign, faults

vars == <<rows, serial, policies, desired, phase, current, synced, adjusted, plan, retries, awaited, tx, last,
          switches, foreign, faults>>

serverVars == <<rows, serial, policies, tx, last>>
loopVars == <<phase, current, synced, adjusted, plan, retries, awaited>>
boundVars == <<switches, foreign, faults>>

NoChanges == [creates |-> {}, updates |-> {}, deletes |-> {}]

\* The zones the token sees.
granted == {p.zone : p \in policies}

NoTx == [at |-> "free", req |-> NoChanges, todo |-> <<>>, dels |-> {}, adds |-> {}, locked |-> {}, status |-> 0]

-----------------------------------------------------------------------------
(* The webhook adapter: wire                                               *)

\* validate_endpoint, but for the spelling of names and set identifiers.
ValidEndpoint(e) ==
    /\ e.type \in SupportedTypes
    /\ e.targets # {}
    /\ e.type = "CNAME" => Cardinality(e.targets) = 1
    /\ e.ttl \in 0..MaxTtl

ToBindizrRrsetNoTtl(e) == [name |-> e.name, type |-> e.type, ttl |-> 0, values |-> e.targets]

\* to_bindizr_rrset: a TTL of 0 is not configured.
ToBindizrRrset(e) == [name |-> e.name, type |-> e.type, ttl |-> e.ttl, values |-> e.targets]

\* to_bindizr_changes: every endpoint must be valid.
ToBindizrChanges(c) ==
    IF \A e \in c.creates \cup c.deletes \cup {u.old : u \in c.updates} \cup {u.new : u \in c.updates} : ValidEndpoint(e)
      THEN {[creates |-> {ToBindizrRrset(e) : e \in c.creates},
             updates |-> {[old |-> ToBindizrRrset(u.old), new |-> ToBindizrRrset(u.new)] : u \in c.updates},
             deletes |-> {ToBindizrRrset(e) : e \in c.deletes}]}
      ELSE {}

\* group_records_into_endpoints: one per name, type and TTL.
GroupRecords(items) ==
    {[name |-> i.name, type |-> i.type, ttl |-> i.ttl,
      targets |-> {j.value : j \in {k \in items : k.name = i.name /\ k.type = i.type /\ k.ttl = i.ttl}}] : i \in items}

\* merge_adjusted_endpoints: pairs by position.
MergeAdjusted(es, rrsets) ==
    [i \in DOMAIN es |-> [name |-> es[i].name, type |-> rrsets[i].type, ttl |-> rrsets[i].ttl, targets |-> rrsets[i].values]]

-----------------------------------------------------------------------------
(* The bindizr server: external_dns                                        *)

\* The value a spelling is stored as; what does not parse is left as it stands.
Canonical(s) == IF s \in DOMAIN Encoded THEN Encoded[s] ELSE s

AdjustRrsetAsSent(r) == r

\* adjust_rrset: the form apply_changes would store and list_records return.
AdjustRrset(r) == [r EXCEPT !.values = {Canonical(s) : s \in @}]

\* validate_rrset_shape with parse_supported_record_type and normalize_ttl.
ValidShape(r) ==
    /\ r.type \in SupportedTypes /\ r.ttl \in 0..MaxTtl /\ r.values # {}
    /\ r.type = "CNAME" => Cardinality(r.values) = 1

\* convert_rrset: the values must parse; equal ones are one.
ConvertRrset(r) ==
    IF ValidShape(r) /\ r.values \subseteq DOMAIN Encoded
      THEN {[r EXCEPT !.values = {Encoded[s] : s \in @}]} ELSE {}

\* convert_request: an update is a deletion and an addition; a set, empty when
\* one RRset is refused.
ConvertRequest(c) ==
    LET dels == c.deletes \cup {u.old : u \in c.updates}
        adds == c.creates \cup {u.new : u \in c.updates}
    IN  IF \E r \in dels \cup adds : ConvertRrset(r) = {} THEN {}
        ELSE {[dels |-> UNION {ConvertRrset(r) : r \in dels}, adds |-> UNION {ConvertRrset(r) : r \in adds}]}

\* is_label_suffix: the name is in the zone.
IsLabelSuffix(z, name) == Len(z) <= Len(name) /\ SubSeq(name, Len(name) - Len(z) + 1, Len(name)) = z

AuthoritativeAmongGranted(name) ==
    LET zs == {z \in granted : IsLabelSuffix(z, name)}
    IN  {z \in zs : \A y \in zs : Len(y) <= Len(z)}

\* find_authoritative_zone: the longest of all zones the name is in, whoever
\* asks; a set, empty when there is none.
FindAuthoritativeZone(name) ==
    LET zs == {z \in Zones : IsLabelSuffix(z, name)}
    IN  {z \in zs : \A y \in zs : Len(y) <= Len(z)}

Relative(name, z) == SubSeq(name, 1, Len(name) - Len(z))

\* authorize_with_policies, for a write of an RRset.
Covered(z, name, type) == \E p \in policies : p.zone = z /\ name \in p.names /\ type \in p.types

\* group_ops_by_zone: the operations on the RRsets of one zone.
ZoneOps(ops, z) ==
    LET here(rs) == {[r EXCEPT !.name = Relative(@, z)] : r \in {r \in rs : z \in FindAuthoritativeZone(r.name)}}
    IN  [dels |-> here(ops.dels), adds |-> here(ops.adds)]

ChangeSetDelsUncancelled(z, existing, ops) ==
    {r \in existing : \E d \in ops.dels : r.name = d.name /\ r.type = d.type /\ r.value \in d.values}

\* compute_zone_change_set on the rows of zone z: rows it deletes. An addition
\* of the same row cancels the deletion. (A plan has at most one addition per
\* name and type, so the order of the additions does not matter.)
ChangeSetDels(z, existing, ops) ==
    {r \in existing :
        /\ \E d \in ops.dels : r.name = d.name /\ r.type = d.type /\ r.value \in d.values
        /\ ~\E a \in ops.adds : /\ r.name = a.name /\ r.type = a.type /\ r.value \in a.values
                                /\ r.ttl = (IF a.ttl = 0 THEN ZoneTtl ELSE a.ttl)}

\* The rows it creates: those whose rdata no surviving row holds.
ChangeSetAdds(z, existing, ops) ==
    {r \in UNION {{[zone |-> z, name |-> a.name, type |-> a.type, value |-> v, ttl |-> IF a.ttl = 0 THEN ZoneTtl ELSE a.ttl] :
                      v \in a.values} : a \in ops.adds} :
        ~\E x \in existing \ ChangeSetDels(z, existing, ops) : Rules!SameRdata(r, x)}

\* list_records: the supported types of the zones the caller may manage.
ListRecords ==
    {[name |-> r.name \o r.zone, type |-> r.type, ttl |-> r.ttl, value |-> r.value] :
        r \in {r \in rows : r.zone \in granted /\ r.type \in SupportedTypes}}

-----------------------------------------------------------------------------
(* The controller's loop                                                   *)

\* The DomainFilter of the negotiation; the token's grants stay as they were
\* when it succeeded.
InFilter(name) == \E z \in granted : IsLabelSuffix(z, name)

\* Endpoints of the names it manages.
Own(es) == {e \in es : e.name \in Managed /\ InFilter(e.name)}

\* The difference of what it listed and what it wants, RRset by RRset; a TTL
\* it did not configure is no difference (external: plan.Calculate).
Plan(cur, want) ==
    LET match(e, es) == {x \in es : x.name = e.name /\ x.type = e.type}
        differ(c, w) == c.targets # w.targets \/ (w.ttl # 0 /\ w.ttl # c.ttl)
    IN  [creates |-> {w \in want : match(w, cur) = {}},
         updates |-> {[old |-> c, new |-> CHOOSE w \in match(c, want) : TRUE] :
                         c \in {c \in cur : \E w \in match(c, want) : differ(c, w)}},
         deletes |-> {c \in cur : match(c, want) = {}}]

\* The rows a set of desired endpoints asks for.
DesiredRows(es) ==
    UNION {{[name |-> e.name, type |-> e.type, value |-> Canonical(s)] : s \in e.targets} : e \in es}

\* The managed records are what the controller wants, in the zones that serve
\* their names.
Synced ==
    LET own == {r \in rows : r.type \in SupportedTypes /\ r.name \o r.zone \in Managed /\ r.zone \in granted}
        want == Own(ToSet(desired))
    IN  /\ {[name |-> r.name \o r.zone, type |-> r.type, value |-> r.value] : r \in own} = DesiredRows(want)
        /\ \A r \in own : r.zone \in FindAuthoritativeZone(r.name \o r.zone)
        /\ \A e \in want : e.ttl # 0 =>
              \A r \in own : r.name \o r.zone = e.name /\ r.type = e.type => r.ttl = e.ttl

\* negotiate: a token without zones is refused with a 503 until it has one.
Negotiate ==
    /\ phase = "start" /\ granted # {}
    /\ phase' = "idle"
    /\ UNCHANGED <<serverVars, desired, current, synced, adjusted, plan, retries, awaited, boundVars>>

\* get_records.
GetRecords ==
    /\ phase = "idle"
    /\ current' = Own(GroupRecords(ListRecords))
    /\ synced' = Synced
    /\ phase' = "listed"
    /\ UNCHANGED <<serverVars, desired, adjusted, plan, retries, awaited, boundVars>>

\* adjust_endpoints_handler: 400 for an endpoint the provider does not support.
AdjustEndpoints ==
    /\ phase = "listed"
    /\ LET rrsets == [i \in DOMAIN desired |-> ToBindizrRrset(desired[i])] IN
       IF \A i \in DOMAIN desired : ValidEndpoint(desired[i]) /\ ValidShape(rrsets[i])
         THEN /\ adjusted' = MergeAdjusted(desired, [i \in DOMAIN rrsets |-> AdjustRrset(rrsets[i])])
              /\ phase' = "adjusted"
         ELSE phase' = "idle" /\ UNCHANGED adjusted
    /\ UNCHANGED <<serverVars, desired, current, synced, plan, retries, awaited, boundVars>>

MakePlan ==
    /\ phase = "adjusted"
    /\ plan' = Plan(current, Own(ToSet(adjusted)))
    /\ retries' = 0
    /\ phase' = IF plan' = NoChanges THEN "idle" ELSE "planned"
    /\ UNCHANGED <<serverVars, desired, current, synced, adjusted, awaited, boundVars>>

\* apply_changes of the adapter: converts the plan and posts it; 400 when it
\* does not convert.
PostChanges ==
    /\ phase = "planned"
    /\ IF ToBindizrChanges(plan) = {}
         THEN phase' = "idle" /\ UNCHANGED <<tx, awaited>>
         ELSE \E s \in Slots :
                /\ tx[s] = NoTx
                /\ tx' = [tx EXCEPT ![s] = [NoTx EXCEPT !.at = "begin", !.req = CHOOSE c \in ToBindizrChanges(plan) : TRUE]]
                /\ awaited' = s
                /\ phase' = "posted"
    /\ UNCHANGED <<rows, serial, policies, last, desired, current, synced, adjusted, plan, retries, boundVars>>

\* What the controller does after a 5xx: post the same plan again, up to a
\* bound, then start over.
AfterServerError ==
    /\ awaited' = 0
    /\ IF retries < MaxRetries THEN phase' = "planned" /\ retries' = retries + 1
                               ELSE phase' = "idle" /\ UNCHANGED retries

\* upstream_error_response: 4xx is final for this plan, 5xx becomes a 502.
GetAnswer ==
    /\ phase = "posted" /\ awaited # 0 /\ tx[awaited].at = "done"
    /\ tx' = [tx EXCEPT ![awaited] = NoTx]
    /\ IF tx[awaited].status < 500 THEN phase' = "idle" /\ awaited' = 0 /\ UNCHANGED retries
                                   ELSE AfterServerError
    /\ UNCHANGED <<rows, serial, policies, last, desired, current, synced, adjusted, plan, boundVars>>

\* The upstream timeout: the adapter answers 502 while the request goes on.
LoseAnswer ==
    /\ phase = "posted" /\ faults < MaxFaults
    /\ faults' = faults + 1
    /\ AfterServerError
    /\ UNCHANGED <<serverVars, desired, current, synced, adjusted, plan, switches, foreign>>

-----------------------------------------------------------------------------
(* The server's transaction                                                *)

Answer(s, status) == tx' = [tx EXCEPT ![s].at = "done", ![s].status = status, ![s].locked = {}]

\* apply_changes: convert the request and find the zones of its names.
BeginTx(s) ==
    /\ tx[s].at = "begin"
    /\ LET ops == ConvertRequest(tx[s].req) IN
       IF ops = {} THEN Answer(s, 400)
       ELSE LET o == CHOOSE o \in ops : TRUE
                names == {r.name : r \in o.dels \cup o.adds}
            IN  IF \E n \in names : FindAuthoritativeZone(n) = {} THEN Answer(s, 404)
                ELSE tx' = [tx EXCEPT ![s].at = "zones", ![s].todo =
                              SelectSeq(ZoneOrder, LAMBDA z : \E n \in names : z \in FindAuthoritativeZone(n))]
    /\ UNCHANGED <<rows, serial, policies, last, desired, loopVars, boundVars>>

Free(z, s) == \A t \in Slots \ {s} : z \notin tx[t].locked

\* One turn of the loop over the zones: lock the zone, authorize the writes,
\* resolve the operations against its rows, validate what they create and, where
\* anything is left to do, take the next serial (generate_serial).
ApplyZone(s) ==
    /\ tx[s].at = "zones" /\ tx[s].todo # <<>>
    /\ LET z == Head(tx[s].todo)
           existing == {r \in rows : r.zone = z}
           ops == ZoneOps(CHOOSE o \in ConvertRequest(tx[s].req) : TRUE, z)
           dels == ChangeSetDels(z, existing, ops)
           adds == ChangeSetAdds(z, existing, ops)
       IN  /\ Free(z, s)
           /\ IF z \notin granted \/ \E o \in ops.dels \cup ops.adds : ~Covered(z, o.name, o.type) THEN Answer(s, 403)
              ELSE IF ~Rules!AllAddable(existing \ dels, adds) THEN Answer(s, 409)
              ELSE IF dels \cup adds # {} /\ serial[z] = MaxSerial THEN Answer(s, 409)
              ELSE tx' = [tx EXCEPT ![s].todo = Tail(@), ![s].locked = @ \cup {z},
                                    ![s].dels = @ \cup dels, ![s].adds = @ \cup adds]
    /\ UNCHANGED <<rows, serial, policies, last, desired, loopVars, boundVars>>

Write(s) ==
    /\ rows' = (rows \ tx[s].dels) \cup tx[s].adds
    /\ serial' = [z \in Zones |-> serial[z] + IF \E r \in tx[s].dels \cup tx[s].adds : r.zone = z THEN 1 ELSE 0]
    /\ last' = IF rows' # rows THEN tx[s].req ELSE last

\* finish_tx: commit, and the zones that changed advance once.
CommitTx(s) ==
    /\ tx[s].at = "zones" /\ tx[s].todo = <<>>
    /\ Write(s)
    /\ Answer(s, 200)
    /\ UNCHANGED <<policies, desired, loopVars, boundVars>>

AbortTxKeepingRows(s) ==
    /\ tx[s].at = "zones" /\ faults < MaxFaults
    /\ faults' = faults + 1
    /\ Write(s)
    /\ Answer(s, 500)
    /\ UNCHANGED <<policies, desired, loopVars, switches, foreign>>

\* finish_tx of a failing transaction (a database error): rolled back, 500.
AbortTx(s) ==
    /\ tx[s].at = "zones" /\ faults < MaxFaults
    /\ faults' = faults + 1
    /\ Answer(s, 500)
    /\ UNCHANGED <<rows, serial, last, policies, desired, loopVars, switches, foreign>>

\* A request nobody waits for ends, or is dropped with its connection.
DropTx(s) ==
    /\ tx[s] # NoTx /\ s # awaited
    /\ tx' = [tx EXCEPT ![s] = NoTx]
    /\ UNCHANGED <<rows, serial, policies, last, desired, loopVars, boundVars>>

-----------------------------------------------------------------------------
(* Everyone else                                                           *)

SwitchDesired ==
    /\ switches < MaxSwitches /\ phase = "idle"
    /\ \E d \in DesiredSets \ {desired} : desired' = d
    /\ switches' = switches + 1
    /\ UNCHANGED <<serverVars, loopVars, foreign, faults>>

\* Another client writes or deletes a record of a zone no request holds.
WriteForeign ==
    /\ foreign < MaxForeign
    /\ foreign' = foreign + 1
    /\ \E r \in ForeignRows :
          /\ \A s \in Slots : r.zone \notin tx[s].locked
          /\ \/ r \in rows /\ rows' = rows \ {r}
             \/ Rules!Addable({x \in rows : x.zone = r.zone}, r) /\ rows' = rows \cup {r}
          /\ serial[r.zone] < MaxSerial
          /\ serial' = [serial EXCEPT ![r.zone] = @ + 1]
    /\ last' = NoChanges
    /\ UNCHANGED <<policies, tx, desired, loopVars, switches, faults>>

\* zone token-policy add.
GrantZone ==
    /\ policies = {}
    /\ \E p \in UNION GrantChoices : policies' = {p}
    /\ UNCHANGED <<rows, serial, tx, last, desired, loopVars, boundVars>>

Init ==
    /\ rows = {} /\ serial = [z \in Zones |-> 1]
    /\ policies \in GrantChoices /\ desired \in DesiredSets
    /\ phase = "start" /\ current = {} /\ synced = FALSE /\ adjusted = <<>>
    /\ plan = NoChanges /\ retries = 0 /\ awaited = 0
    /\ tx = [s \in Slots |-> NoTx] /\ last = NoChanges
    /\ switches = 0 /\ foreign = 0 /\ faults = 0

Loop == Negotiate \/ GetRecords \/ AdjustEndpoints \/ MakePlan \/ PostChanges \/ GetAnswer

Serve(s) == BeginTx(s) \/ ApplyZone(s) \/ CommitTx(s) \/ DropTx(s)

Next ==
    \/ Negotiate \/ GetRecords \/ AdjustEndpoints \/ MakePlan \/ PostChanges \/ GetAnswer \/ LoseAnswer
    \/ \E s \in Slots : BeginTx(s) \/ ApplyZone(s) \/ CommitTx(s) \/ AbortTx(s) \/ DropTx(s)
    \/ SwitchDesired \/ WriteForeign \/ GrantZone

\* The controller repeats its loop, tokio runs every request the server
\* accepted, and the faults are finitely many.
Fairness == WF_vars(Loop) /\ \A s \in Slots : WF_vars(Serve(s))

Spec == Init /\ [][Next]_vars /\ Fairness
-----------------------------------------------------------------------------
(* Properties                                                              *)

\* The rows the desired endpoints ask for in zone z.
WantedRows(z) ==
    UNION {{[zone |-> z, name |-> Relative(e.name, z), type |-> e.type, value |-> Canonical(s),
             ttl |-> IF e.ttl = 0 THEN ZoneTtl ELSE e.ttl] : s \in e.targets} :
               e \in {e \in Own(ToSet(desired)) : z \in FindAuthoritativeZone(e.name)}}

\* The provider can do what the controller asks for. Of the endpoints: they are
\* supported, their values parse, and the rows they ask for are covered by a policy
\* and fit in with one another and with those of types it does not handle (an alias
\* goes with no MX). Of the records it finds: those of managed names, which it may
\* have to delete, are covered and in the zone that serves the name. And no serial
\* is used up. A change set that fails one of these is refused as a whole, again on
\* every turn of the loop.
Admissible ==
    /\ \A i \in DOMAIN desired : ValidEndpoint(desired[i]) /\ desired[i].targets \subseteq DOMAIN Encoded
    /\ \A z \in Zones :
          /\ \A r \in WantedRows(z) : Covered(z, r.name, r.type)
          /\ Rules!AllAddable({r \in rows : r.zone = z /\ r.type \notin SupportedTypes}, WantedRows(z))
          /\ serial[z] < MaxSerial
    /\ \A r \in rows : r.type \in SupportedTypes /\ r.name \o r.zone \in Managed /\ r.zone \in granted =>
          r.zone \in FindAuthoritativeZone(r.name \o r.zone) /\ Covered(r.zone, r.name, r.type)

\* However answers are lost, requests come late and others write: once that
\* ends, the managed records are what the controller wants, for good, wherever the
\* provider can do what it asks for (apply_changes is idempotent, so retries and
\* new plans heal what is left).
Converges == <>[](Admissible => Synced)

\* A list taken of records that are as desired yields an empty plan: the
\* spelling adjust_rrset answers with is the one list_records returns, so an
\* unchanged state never reads as a difference.
SyncedPlansNothing == phase \in {"planned", "posted"} => ~synced

\* A request applied again, nothing else having changed the records since,
\* changes neither records nor serials (compute_zone_change_set cancels).
RetryChangesNothing ==
    [][\A s \in Slots : tx[s].req = last /\ tx[s].at = "zones" /\ tx'[s].status = 200 => rows' = rows /\ serial' = serial]_vars

\* The provider only touches rows of supported types under a name it manages,
\* in the one zone that serves the name, and only when a policy of that zone covers
\* them: a name in a zone the token lacks never falls back to the parent zone.
TouchesOnlyItsOwn ==
    [][foreign' = foreign =>
          \A r \in (rows \ rows') \cup (rows' \ rows) :
              /\ r.type \in SupportedTypes /\ r.name \o r.zone \in Managed
              /\ Covered(r.zone, r.name, r.type)
              /\ \A z \in Zones : IsLabelSuffix(z, r.name \o r.zone) => Len(z) <= Len(r.zone)]_vars

\* A change set takes effect in all its zones or in none: what was committed
\* holds every value its additions ask for, wherever their zone.
AllOrNothing ==
    [][foreign' = foreign /\ rows' # rows =>
          \E s \in Slots :
              /\ tx[s].at = "zones" /\ tx'[s].at = "done"
              /\ \A o \in ConvertRequest(tx[s].req) : \A a \in o.adds : \A v \in a.values :
                     \E r \in rows' : r.name \o r.zone = a.name /\ r.type = a.type /\ r.value = v]_vars
=============================================================================
