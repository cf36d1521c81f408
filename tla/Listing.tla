------------------------------ MODULE Listing ------------------------------
(***************************************************************************)
(* A client walks a listing page by page - records, zones, or the          *)
(* snapshots of a zone - while records, zones and policies are created,    *)
(* changed and deleted. A page is a look-up where a zone is named, a count *)
(* and a list, each a query of its own; a database may return rows that    *)
(* its ORDER BY does not tell apart in any order, another for every page.  *)
(***************************************************************************)
EXTENDS Integers, Sequences, SequencesExt, FiniteSetsExt

CONSTANTS
    ZoneNames,      \* names of zones, as numbers in their order
    RowNames,       \* owner names, likewise
    Apex,           \* the owner name of a zone's apex
    FirstZones,     \* the zones at first: [id, name]
    FirstRows,      \* the records at first: [id, zone, name]
    FirstSnaps,     \* the snapshots at first: [zone, serial]
    Limits,         \* the limits a client may ask for, each a set of at most one
    Filters,        \* what a filter lets through: sets of owner names
    DefaultPage,    \* list_snapshots' limit where the client gave none
    MaxWrites       \* bound: transactions of others during the walk

VARIABLES
    zones,     \* the tables, rows as above; names of zones are UNIQUE
    rows,
    snaps,
    granted,   \* ids of the zones of the token's policies
    nextId,    \* the id the next zone or record gets; ids are not reused
    walk,      \* the client: [of, scoped, zone, names, limit, offset, pc, id, total], zone the
               \* zone name it gives, if any, and id the row a page's look-up found for it
    got,       \* the rows of its pages, one after the other
    writes,
    started,   \* history: the rows of the listing when it began
    gone,      \* history: rows that left it since, or changed
    pulled     \* history: one of them was on a page that had been returned

listingVars == <<zones, rows, snaps, granted, nextId, walk, got, writes, started, gone, pulled>>

tables == <<zones, rows, snaps, granted, nextId>>

history == <<writes, started, gone, pulled>>

-----------------------------------------------------------------------------
(* The queries                                                             *)

\* The scope of a token: a row of zone_token_policies; none for other callers.
InScope(zone) == ~walk.scoped \/ zone \in granted

Named(name) == {z \in zones : z.name = name}

\* JOIN zones, where the client gave a zone's name.
OfZone(id) == walk.zone = {} \/ \E n \in walk.zone : \E z \in Named(n) : z.id = id

RecordsMatching == {r \in rows : r.name \in walk.names /\ InScope(r.zone) /\ OfZone(r.zone)}

ZonesMatching == {z \in zones : InScope(z.id)}

SnapshotsMatching == {s \in snaps : s.zone = walk.id}

Matching ==
    CASE walk.of = "records" -> RecordsMatching
      [] walk.of = "zones" -> ZonesMatching
      [] walk.of = "snapshots" -> SnapshotsMatching

Before(a, b) == \E i \in DOMAIN a : a[i] < b[i] /\ \A j \in 1..(i - 1) : a[j] = b[j]

\* What a database may return of the rows rs, ordered by key, LIMIT and OFFSET.
Selected(rs, key(_), limit, offset) ==
    LET Cut(s) == SubSeq(s, offset + 1, IF limit = {} THEN Len(s) ELSE Min({Len(s), offset + CHOOSE n \in limit : TRUE}))
    IN  {Cut(s) : s \in {t \in SetToSeqs(rs) : \A i, j \in DOMAIN t : i < j => ~Before(key(t[j]), key(t[i]))}}

RecordKeyName(r) == <<r.name>>

\* ORDER BY r.name, r.id.
RecordKey(r) == <<r.name, r.id>>

ListRecords(limit, offset) == Selected(RecordsMatching, RecordKey, limit, offset)

\* ORDER BY name.
ZoneKey(z) == <<z.name>>

ListZones(limit, offset) == Selected(ZonesMatching, ZoneKey, limit, offset)

\* ORDER BY serial DESC.
SnapshotKey(s) == <<-s.serial>>

ListSnapshots(limit, offset) == Selected(SnapshotsMatching, SnapshotKey, limit, offset)

Page(limit, offset) ==
    CASE walk.of = "records" -> ListRecords(limit, offset)
      [] walk.of = "zones" -> ListZones(limit, offset)
      [] walk.of = "snapshots" -> ListSnapshots(limit, offset)

-----------------------------------------------------------------------------
(* A page                                                                  *)

\* The limit the list query runs with.
EffectiveLimit == IF walk.of = "snapshots" /\ walk.limit = {} THEN {DefaultPage} ELSE walk.limit

\* paginated_response: the limit a page names, all there are where none applied.
DefaultLimit(limit, total) == IF limit = {} THEN total ELSE CHOOSE n \in limit : TRUE

PageLimit == DefaultLimit(EffectiveLimit, walk.total)

\* The zone a page names is looked up by that name every time: list_snapshots'
\* with the caller's sight of it, a record filter's for callers without a scope.
LookedUp == IF walk.of = "snapshots" \/ ~walk.scoped THEN walk.zone ELSE {}

Unseen == \E n \in LookedUp : ~\E z \in Named(n) : InScope(z.id)

LookUp ==
    /\ walk.pc = "look"
    /\ walk' = [walk EXCEPT !.pc = IF Unseen THEN "failed" ELSE "count",
                             !.id = IF Unseen \/ LookedUp = {} THEN 0 ELSE (CHOOSE z \in zones : z.name \in walk.zone).id]
    /\ UNCHANGED <<tables, history, got>>

CountPage ==
    /\ walk.pc = "count"
    /\ walk' = [walk EXCEPT !.pc = "list", !.total = Cardinality(Matching)]
    /\ UNCHANGED <<tables, history, got>>

\* The list query and the answer; the client goes on until a page is short.
ListPage ==
    /\ walk.pc = "list"
    /\ \E page \in Page(EffectiveLimit, walk.offset) :
          /\ got' = got \o page
          /\ walk' = [walk EXCEPT !.offset = @ + Len(page),
                                   !.pc = IF page = <<>> \/ Len(page) < PageLimit THEN "done" ELSE "look"]
    /\ UNCHANGED <<tables, history>>

-----------------------------------------------------------------------------
(* Writers                                                                 *)

CreateRow ==
    /\ \E z \in zones, n \in RowNames : rows' = rows \cup {[id |-> nextId, zone |-> z.id, name |-> n]}
    /\ nextId' = nextId + 1
    /\ UNCHANGED <<zones, snaps, granted>>

\* PUT and PATCH of a record may give it another owner name.
UpdateRow ==
    /\ \E r \in rows, n \in RowNames : rows' = (rows \ {r}) \cup {[r EXCEPT !.name = n]}
    /\ UNCHANGED <<zones, snaps, granted, nextId>>

DeleteRow ==
    /\ \E r \in rows : rows' = rows \ {r}
    /\ UNCHANGED <<zones, snaps, granted, nextId>>

SnapshotAdded(z) == snaps \cup {[zone |-> z, serial |-> Max({0} \cup {s.serial : s \in {t \in snaps : t.zone = z}}) + 1]}

\* Any change of a zone saves a snapshot of its next serial.
AddSnapshot ==
    /\ \E z \in zones : snaps' = SnapshotAdded(z.id)
    /\ UNCHANGED <<zones, rows, granted, nextId>>

\* With its first snapshot and the record of its primary name server.
CreateZone ==
    /\ \E n \in ZoneNames : Named(n) = {} /\ zones' = zones \cup {[id |-> nextId, name |-> n]}
    /\ snaps' = SnapshotAdded(nextId)
    /\ rows' = rows \cup {[id |-> nextId, zone |-> nextId, name |-> Apex]}
    /\ nextId' = nextId + 1
    /\ UNCHANGED granted

\* A new primary name server in the same request gets its record.
RenameZone ==
    /\ \E z \in zones, n \in ZoneNames :
          /\ Named(n) = {}
          /\ zones' = (zones \ {z}) \cup {[z EXCEPT !.name = n]}
          /\ snaps' = SnapshotAdded(z.id)
          /\ \/ UNCHANGED <<rows, nextId>>
             \/ rows' = rows \cup {[id |-> nextId, zone |-> z.id, name |-> Apex]} /\ nextId' = nextId + 1
    /\ UNCHANGED granted

\* ON DELETE CASCADE takes what refers to it.
DeleteZone ==
    /\ \E z \in zones :
          /\ zones' = zones \ {z}
          /\ rows' = {r \in rows : r.zone # z.id}
          /\ snaps' = {s \in snaps : s.zone # z.id}
          /\ granted' = granted \ {z.id}
    /\ UNCHANGED nextId

\* A policy row of the token is inserted or deleted.
Grant ==
    /\ \E z \in zones : z.id \notin granted /\ granted' = granted \cup {z.id}
    /\ UNCHANGED <<zones, rows, snaps, nextId>>

Revoke ==
    /\ \E z \in granted : granted' = granted \ {z}
    /\ UNCHANGED <<zones, rows, snaps, nextId>>

\* What the walk is after at this moment: of a named zone, the one of that name.
InListing == IF walk.of = "snapshots" THEN {s \in snaps : OfZone(s.zone) /\ InScope(s.zone)} ELSE Matching

KeyOf(r) ==
    CASE walk.of = "records" -> RecordKey(r)
      [] walk.of = "zones" -> ZoneKey(r)
      [] walk.of = "snapshots" -> SnapshotKey(r)

\* Those of its rows that come before the next page.
Passed == {r \in InListing : Cardinality({q \in InListing : Before(KeyOf(q), KeyOf(r))}) < walk.offset}

\* A transaction of another caller, of a kind the walk can notice.
Write ==
    /\ walk.pc \in {"look", "count", "list"} /\ writes < MaxWrites
    /\ \/ walk.of = "records" /\ (CreateRow \/ UpdateRow \/ DeleteRow)
       \/ walk.of = "snapshots" /\ AddSnapshot
       \/ walk.scoped /\ (Grant \/ Revoke)
       \/ CreateZone \/ RenameZone \/ DeleteZone
    /\ writes' = writes + 1
    /\ UNCHANGED <<walk, got, started>>
    /\ gone' = gone \cup (InListing \ InListing')
    /\ pulled' = (pulled \/ Passed \cap (InListing \ InListing') # {})

\* The walk w begins, with the zones g granted to the token.
WalkFrom(w, g) ==
    /\ zones = FirstZones /\ rows = FirstRows /\ snaps = FirstSnaps
    /\ granted = g
    /\ nextId = Max({r.id : r \in FirstZones \cup FirstRows}) + 1
    /\ walk = w
    /\ got = <<>>
    /\ writes = 0
    /\ started = InListing
    /\ gone = {} /\ pulled = FALSE

Walks ==
    [of : {"records", "zones", "snapshots"}, scoped : BOOLEAN, zone : {{}} \cup {{z.name} : z \in FirstZones},
     names : Filters, limit : Limits, offset : {0}, pc : {"look"}, id : {0}, total : {0}]

\* Only a scoped walk depends on the policies, only one over records on owner
\* names; snapshots are those of a named zone.
ListingInit ==
    \E w \in Walks, g \in SUBSET {z.id : z \in FirstZones} :
        /\ w.scoped \/ g = {}
        /\ w.of = "records" \/ w.names = RowNames
        /\ w.of = "zones" => w.zone = {}
        /\ w.of = "snapshots" => w.zone # {}
        /\ WalkFrom(w, g)

ListingNext == LookUp \/ CountPage \/ ListPage \/ Write

-----------------------------------------------------------------------------
(* Properties                                                              *)

\* A walk misses no row that stayed in the listing as it was, whatever the page
\* size and the query plan of each page, and whatever was written meanwhile, unless
\* a row of a page it already has was deleted, renamed or taken out of the filter
\* or the scope, which pulls later rows under its offset. So rows that come in and
\* rows still ahead that change make it repeat a row or miss those alone, and over
\* tables nobody writes it returns every matching row exactly once.
WalkComplete ==
    walk.pc = "done" =>
        /\ ~pulled => started \ gone \subseteq ToSet(got)
        /\ writes = 0 => Len(got) = Cardinality(started) /\ ToSet(got) = started
=============================================================================
