# bindizr in TLA+

bindizr is a DNS control plane. Zones and records live in a database (SQLite,
MySQL or PostgreSQL); an HTTP API, a CLI over a local socket, RFC 2136 updates
and an ExternalDNS webhook write them; BIND9 secondaries learn of the zones from
a catalog zone and fetch them by AXFR and IXFR after a NOTIFY. Everything that
leaves the process is a *version* of a zone: every write moves the zone's serial
by one, saves the SOA of that serial (`zone_soa_history`) and logs the rows it
deleted and inserted (`zone_changes`). Old versions are not stored. They are
rebuilt by undoing the log on the current records, for the snapshot API and for
rollback, and the same log is what an IXFR sends.

The specifications follow that design: the store and its versions; the readers
that race with it; the locks that order the writers; who may write; and what
clients on either side see.

## The parts of the system

| Part | Source (below `src/crates`) | Specification | Proofs |
|---|---|---|---|
| zone lifecycle, record writes, import, RFC 2136 operations | `bindizr-service/src/{zone,record,dynamic_update}`, `serial.rs` | `RecordRules`, `ZoneStore` | `ZoneStoreProofs` |
| snapshots, differences, dry runs, rollback | `zone/history.rs`, `record/import.rs` | `ZoneHistory`, `ZoneDiff`, `VersionedZone` | `HistoryProofs`, `VersionProofs` |
| AXFR, IXFR, zone cache | `bindizr-dns/src/server/{axfr,ixfr,delta,zone_cache}.rs` | `Transfer` | `TransferProofs`, `VersionProofs` |
| TCP and UDP server, message packing, ACL, SOA | `bindizr-dns/src/{lib.rs,wire,server}` | `DnsServer` | |
| status of the secondaries | `client/probe`, `status.rs` | `StatusProbe` | `ClientProofs` |
| catalog zone | `server/catalog`, `catalog_zone_state*` | `Catalog` | `ServerProofs` |
| apply queue and NOTIFY | `notify.rs`, `zone/{notify,force}.rs`, `client/notify` | `Notify` | `ClientProofs` |
| transactions, row locks, pool, unique keys | `bindizr-db`, `repository.rs`, every service | `ZoneLocks` | `ZoneLocksProofs` |
| tokens, TSIG keys, policies, nsupdate protocol | `authorization`, `token`, `tsig_key`, `zone/*_policy*`, `server/nsupdate` | `Grants`, `UpdateMessage`, `Access` | `AccessProofs` |
| names and values | `bindizr-core/src/dns`, `zone/validation.rs`, `record/zonefile.rs` | `Names`, `RecordText`, `Representations` | |
| paged listings | `pagination.rs`, `*_repository_impl.rs` | `Listing` | |
| ExternalDNS webhook and its transaction | `bindizr-external-dns`, `external_dns/` | `ExternalDns` | |
| daemon, control socket, `stop` and `restart` | `bindizr/src/{daemon.rs,socket,cli/commands}` | `Daemon` | `ServerProofs` |

`PROJECT.json` lists each part with its files and what is left out of it, maps
every definition to the lines it models, and lists the hazards of the code with
the line where each one bites and the properties that would catch it.

The parts meet in the tables. `Transfer` and `ZoneDiff` extend `ZoneStore`, so
their readers race with its writers. The other modules share no variable with it
and take from it only what they need: `ZoneLocks` keeps the order of the queries
and drops the contents of the records; `Access` and `ExternalDns` use the same
`RecordRules` on their own tables; `Catalog`, `Notify` and `StatusProbe` see a
zone as a name and a serial; `DnsServer` takes whatever a handler may have read
as its input, and `Transfer` says what that can be. In return `Transfer` lets an
answer arrive whole or not at all, which is what `OneBody` and
`CompleteWhenDone` of `DnsServer` show.

## The modules

**`ZoneStore`** is one zone. `zone`, `records`, `changes` and `snapshots` are
its rows in the four tables; `tx` is an RFC 2136 transaction in progress. Every
writer begins by locking the zone row exclusively and commits once, so each one
is a single action with the code's guards as conjuncts. A refused request
changes nothing and is not a step. The RFC 2136 update is the exception: its
operations run one after another on an open transaction, so `BeginUpdate`,
`UpdateAdd`, `UpdateDelete`, `CommitUpdate` and `AbortUpdate` are separate
actions, and abort stands for a refusal, a database error or a crash.

How the data is abstracted:

- A record is an owner, a type, a canonical value (the priority included) and a
  TTL. Row ids, display values and creation times are left out.
- `"A"` stands for the types no rule mentions (A, AAAA, TXT, SRV, PTR).
- `primary_ns` and the zone TTL are kept because rules depend on them. The other
  SOA fields are one opaque value, `Timers`.
- The rows one call logs are one entry, a set of records with an operation. The
  DEL/ADD pair of SOA rows is an entry that names no record, because neither
  reconstruction nor IXFR uses those rows.
- A list of records is a set. The validators (`RecordRules`) run one by one over
  a list, and their rules are symmetric, so the order does not decide
  (`AllAddable`).

`Reconstruct` is the closed form of the reconstruction: a record is present at
serial *s* if the oldest log entry after *s* that mentions it is a DEL, or if
none does and it is present now. **`ZoneHistory`** is the loop of
`reconstruct_records_at_serial` as the code has it, newest entry first and keyed
without the TTL. **`ZoneDiff`** has the code that shows differences: between two
serials, and as the preview of a dry run. **`VersionedZone`** is what the store
promises its readers, in one variable: a growing sequence of consistent
versions, published one serial at a time, never altered, and removed only as a
whole.

**`Transfer`** adds the readers. `handle_axfr` and `handle_ixfr` run several
queries without a transaction, so every query is an action, and a writer may
commit, or the zone may be deleted and created again, between any two. `conns`
is the state of the handler that serves a secondary, `cache` the zone cache,
`copies` what the secondaries hold. Each copy remembers the zone row (`id`) it
came from. The secondary is external: it asks at any time, installs an answer
completely or not at all, applies an IXFR step as RFC 1995 says, deletions and
then additions, and ignores the deletion of a record it does not have. `Evict`
covers the LRU limit, a disabled cache and a restart. `top` and `above` are
history: the highest serial of any zone of the name, and whether each was
created above the ones before.

**`DnsServer`** is one TCP connection and the UDP socket: dispatch, the ACL of
the secondaries with names that resolve differently over time, the answers of a
transfer packed into messages and flushed, a write that fails, and the fallback
from IXFR to AXFR. An answer is its kind, serial and size. A connection that
failed once fails from then on (external).

**`StatusProbe`** is a status request: the zone row is read, then one task per
configured entry asks the addresses it resolved to in turn, while the zone moves
on and secondaries transfer or expire.

**`Catalog`** generates the catalog in the code's two halves, the list of zones
and then the transaction that gives it a serial, for concurrent requests and
with each database's upsert. **`Notify`** has the requests that announce what
they committed, the worker that collapses jobs, and the attempts per address. A
NOTIFY can be dropped in three ways: the look-up of a secondary fails; the request
that was to send it ends early, because its HTTP client disconnected or a forced
NOTIFY failed on some zone; or the process ends with its queue. `dropped` and
`unanswered` are history and record the version of the zone at that moment.
`config` picks one configuration per behaviour.

**`ZoneLocks`** runs requests of eight kinds step by step: the unlocked reads,
BEGIN (IMMEDIATE on SQLite), the zone rows in name order, share locks on
policies, unique keys, cascades, commit. A step that needs a lock or connection
another request holds is not enabled; `Blockers` says whom it waits for.

**`Grants`**, **`UpdateMessage`** and **`Access`** say who may do what. `Access`
interleaves the queries of one request (token or signed update) with managers
that create, delete, grant and revoke in queries of their own. The update
message is parsed, decoded, authorized, its prerequisites evaluated and its
operations applied one by one, as the code does. A MAC is right exactly when the
secret is, and BADTIME may happen at any time. `could` is history: the zones
granted at some moment of the request.

**`Names`**, **`RecordText`** and **`Representations`** follow a name or value
octet by octet: written in every spelling, stored, rendered and read back.
The parser of zone files is external: whether it takes raw octets beyond ASCII in
an owner name, which export does not escape, is left open (`MayBeRefused`).
**`Listing`** walks pages of a listing while others create, update and delete
records, create, rename and delete zones, add snapshots, and grant and revoke. A
page is a look-up of the zone it names, a count and a list, each a step; what the
SQL filters select is a set of names. **`ExternalDns`** is the controller's loop
(external), the webhook, and the server's transaction over several zones, which
is authorized by policies with names and types; the set of zones is fixed.
**`Daemon`** has processes, socket files, re-execution, crashes, and CLI
invocations that learn how it went only from the socket. `exposed` and `alone` are
history: who met the stale-socket race, and whether a restart had one daemon
before it.

`MC*` modules and `.cfg` files are the instances for TLC. `MCServing` explores
`Transfer`, `DnsServer` and `StatusProbe`, and `MCClients` explores
`Representations`, `Listing` and `Daemon`: a variable `part` picks one of them
per behaviour, since they share no state. Definitions named *Mutant of X* are
faulty variants of `X`. They are used by no specification; replacing `X` by its
mutant must make TLC report the property that `PROJECT.json` pairs it with.

## What TLC checks

| Run | Question | Distinct states |
|---|---|---|
| `zone_store` | every write path of one zone, its history, differences and dry runs | 43,612 |
| `transfer` | two secondaries, the cache and the writers; a connection; a status | 715,860 |
| `catalog` | two readers of the catalog on three databases while zones change | 312,174 |
| `notify` | changes, worker, attempts, lost datagrams, disconnects, restarts | 62,004 |
| `zone_locks` | three requests of any kind on three databases | 282,053 |
| `access` | one request and two managers, tokens and TSIG keys | 477,134 |
| `representations` | names and values; listings; the daemon and its CLI | 697,620 |
| `external_dns` | controller, webhook and server with faults and retries | 169,707 |
| `ixfr_undone_add`, `cache_torn_load`, `catalog_collision`, `rename_pool_cycle` | counterexamples, see below | |

The properties, each stated with the code it is about in the module that defines
it:

- **`zone_store`**: every version, old or current, obeys the record rules and has
  the apex NS of its own SOA (`VersionsConsistent`); a half-done update can be
  committed or aborted at any point (`OpenUpdateConsistent`); a rollback is never
  refused for its records and restores exactly the target
  (`RollbackNeverRefused`, `RollbackRestores`); the reconstruction loop equals the
  closed form (`ReconstructionExact`); the store implements `VersionedZone`
  (`ImplementsVersionedZone`); differences are complete and minimal
  (`DiffExact`); a dry run shows what the write then logs (`PreviewsHold`).
- **`transfer`**: an entry of the cache at the current serial is what the database
  holds (`CacheFresh`); a secondary's records are those of exactly one version, of
  its serial or a later one (`CopyIsOneVersion`); no transfer takes it back
  (`CopiesAdvance`); a zone created again above the old serials is never mistaken
  for the old one (`RecreationDetected`); a client receives the beginning of one
  body in order (`OneBody`) and takes it for complete exactly when it is
  (`CompleteWhenDone`); a status is true (`StatusTruthful`). An AXFR reads the
  zone row and the records apart, so "or a later one" cannot be dropped. An IXFR
  then replays rows the copy already has, and still ends in one version, because
  the last operation on a record decides. `CopyIsOneVersion` is stated for
  histories in which no serial adds a record and deletes it again (see
  `ixfr_undone_add`).
- **`catalog`**: one serial names one list of members (`SerialNamesOneList`), no
  transfer goes back (`CatalogAdvances`), and once writes stop every secondary
  ends with the zones of the database (`CatalogConverges`).
- **`notify`**: what an address was not yet sent is on somebody's list to be sent
  (`NothingForgotten`), is sent in the end (`EveryChangeAnnounced`), and heard
  unless all attempts of one NOTIFY stay unanswered (`EveryChangeHeard`); each
  unless the NOTIFY was dropped in one of the three ways above.
- **`zone_locks`**: no increment is lost (`NoLostUpdate`), no name is given twice
  (`NamesUnique`), nobody waits in a circle (`NoWaitCycle`), and what a request
  decided holds when it commits (`CommitsOnCurrentRows`).
- **`access`**: `PoliciesSound`, `ReadsWithinGrant`, `WritesWithinGrant`.
- **`representations`**: a spelling is stored as the name it denotes
  (`SpellingDenotes`), fits the wire (`StoredFitsWire`), is found by a filter of
  the same spelling (`FilterFindsRow`) and is read back unchanged
  (`ReadsBackSame`); a walk over pages misses no row that stayed as it was
  (`WalkComplete`), unless a row of a page already returned left the listing or
  changed, which moves later rows under the offset; over tables nobody writes it
  returns each row once. A daemon that listens has its socket file
  (`RunningReachable`), and `stop` and `restart` tell the truth (`ReportsTrue`),
  with the exceptions named under *Limits of the code*.
- **`external_dns`**: the records come to be what the controller wants, wherever
  the provider can do it (`Converges`): its endpoints are supported and parse, the
  rows they ask for are covered by a policy and go with those of other types at the
  name, the records of managed names it may have to delete are covered and in the
  zone that serves them, and no serial is used up (`Admissible`; without any one
  of the clauses on rows, policies and serials TLC finds a loop that is refused for
  ever). Besides, a synced state plans nothing (`SyncedPlansNothing`), a retry
  changes nothing (`RetryChangesNothing`), only managed names that a policy covers
  are touched (`TouchesOnlyItsOwn`), and a request applies in all its zones or in none
  (`AllOrNothing`).

### Bounds

- `zone_store`: `MaxSerial` = 4, so a zone can be created, changed two or three
  times, rolled back across a TTL or primary NS change, and reach the last serial.
  Two TTLs, two name servers, an address, an alias, an ordinary and a null MX let
  every rule of the validators refuse something. `MaxOps` = 2 operations in one
  update is the least that lets one undo the other.
- `transfer`: one record besides the apex NS, because versions need only be
  distinguishable; `MaxSerial` = 3 allows a secondary two serials behind with a gap
  in the log; `MaxZones` = 2 lets a zone be deleted and created again once. A
  message holds ten units and an answer up to nine, so a body takes up to several
  messages and one answer fits no message. Two entries with up to two addresses
  each and one serial change during a status.
- `catalog`: two zones, two serials per zone, two changes: a list may be overtaken
  by a later one and come back. `notify`: two zones, two secondaries, one retry,
  two changes, two lost datagrams, one NOTIFY of which some addresses do not
  resolve, one client that disconnects, one forced NOTIFY that fails, one restart,
  spread over configurations of their own. `zone_locks`: three requests, two
  zones and one new id; a circle of row locks needs two requests, one through the
  pool three. `access`: three management operations, enough to delete a
  credential, create its name again and grant it.
- `representations`: labels of two octets, names of five, strings of two, every
  escape; `Listing` two zones, three records and five snapshots at first, pages of
  one and two, and two writes, enough to delete one row and add another (three were
  tried as well); `Daemon` two processes, two CLIs, two images executed besides the one
  that may have left its socket file.
  `external_dns`: a zone and a subzone, a policy that lacks a type, one switch of the
  desired state, one foreign write, one fault, one retry; the serial 4 is the last.

Deadlock is checked except in `access`, `notify` and `representations`, where a
behaviour may end (a request was answered, the bounded work is announced, a value
was read back).

### Fairness

Safety properties are checked without fairness. The liveness properties assume: a
request the server accepted runs on until it ends or is dropped with its connection
(tokio polls every spawned task); the apply worker loops; every exchange with a
secondary ends, by an answer or by `notify_timeout_secs`; a secondary keeps polling
(its refresh timer) and a network that loses answers does not lose all of them
(strong fairness of its transfer); the ExternalDNS controller repeats its loop and
the faults are finitely many. No fairness is assumed of writers, restarts,
disconnects, losses or managers.

### Disagreements found

`ixfr_undone_add`: an RFC 2136 message that adds a record and deletes it again
logs ADD, DEL at one serial. `stream_ixfr_body` sends all deletions of a serial
before all additions, so the secondary ends with the record, at the zone's own
serial, and nothing makes it fetch the zone again. `SyncedExact` is violated.

`cache_torn_load`: the comment in `zone_cache.rs` says that concurrent misses
"both store the same serial's data". A write between the zone read and the record
read stores the records of serial *s* + 1 under *s* (`CacheMatchesSerial` is
violated). The entry is never served for the current serial (`CacheFresh`).

`catalog_collision`: the dots of a zone name become dashes in its member label, so
`a.b-c` and `a-b.c` share one, and a secondary rejects a catalog with two PTRs at
one label; the documentation says a new zone is discovered automatically.

`rename_pool_cycle`: the conflict check of a rename reads through the pool while
its transaction holds a connection and, on SQLite, the write lock; the writers
that wait for that lock hold the rest of the pool. The comment says the unlocked
read avoids deadlocks.

## What is proved

The theorems hold for every value of the constants that satisfies the ASSUMEs of
the modules: any number of zones, secondaries, requests, processes, credentials,
policies and messages, and any bounds. TLC evaluates the ASSUMEs on its
instances. They say what the code's types say: bounds are naturals, requests are
records, the "absent" constants are no rows, ids and names of the first rows are
consistent. Each inductive invariant was model-checked before it was proved.

| Theorem | Module | Property |
|---|---|---|
| `Invariance`, `TypeCorrectness`, `Contiguity` | `ZoneStoreProofs` | `IndInv` and its parts |
| `Consistency`, `OpenUpdates` | `ZoneStoreProofs` | `VersionsConsistent`, `OpenUpdateConsistent` |
| `RollbackAccepted`, `RollbackExactness` | `ZoneStoreProofs` | `RollbackNeverRefused`, `RollbackRestores` |
| `Refinement` | `ZoneStoreProofs` | `ImplementsVersionedZone` |
| `ReconstructionIsExact`, `DiffIsExact` | `VersionProofs` | `ReconstructionExact`, `DiffExact` |
| `CacheIsFresh`, `NoStepBack`, `RecreationIsDetected` | `VersionProofs` | `CacheFresh`, `CopiesAdvance`, `RecreationDetected` |
| `CopiesAreVersions` | `VersionProofs` | `CopyIsOneVersion` |
| `NoAnnouncementIsForgotten` | `ClientProofs` | `NothingForgotten` |
| `StatusIsTrue` | `ClientProofs` | `StatusTruthful` |
| `OneListPerSerial`, `CatalogNeverGoesBack` | `ServerProofs` | `SerialNamesOneList`, `CatalogAdvances` |
| `RunningDaemonReachable`, `CliReports` | `ServerProofs` | `RunningReachable`, `ReportsTrue` |
| `NoUpdateIsLost`, `NamesStayUnique`, `DecisionsHoldAtCommit` | `ZoneLocksProofs` | `NoLostUpdate`, `NamesUnique`, `CommitsOnCurrentRows` |
| `NobodyWaitsInACircle` | `ZoneLocksProofs` | `NoWaitCycle` |
| `PoliciesAreSound`, `ReadsStayWithinGrant`, `WritesStayWithinGrant` | `AccessProofs` | `PoliciesSound`, `ReadsWithinGrant`, `WritesWithinGrant` |

The proofs about the store and its readers are layered. `HistoryProofs` has the
inductive invariant and what it says of the change log, `ZoneStoreProofs` shows
that every write keeps it, `TransferProofs` shows what the steps of the server and
of the secondaries keep, and `VersionProofs` adds the steps of the writers and
draws the conclusions. `ClientProofs` and `ServerProofs` each hold the proofs of
two independent modules.

A proof module names its provers once, after EXTENDS: SMT, then Zenon, then SMT
again with more time. A leaf that names Zenon is one that SMT does not find or
is slow to find.

### The arguments

**The store.** `VersionsConsistent` speaks of every version, so a write must be
shown to leave the old versions alone *and* to produce a legal new one. The first
half is one fact about logs: a log *explains* a write if undoing it on the new
records gives the old ones (`Explains`), and appending an entry that explains the
write changes no earlier reconstruction (`ReconstructExtended`). Each action then
owes two things: that its log accounts for its change, and that its new record set
is well-formed (`AddsWellFormed`). For an RFC 2136 update both are needed before
the commit, which is why `OpenUpdateConsistent` and `OpenLogAccounts` are conjuncts
of `IndInv`. `SnapshotsContiguous` supplies that the serial written is new and that
the snapshot of the current serial is the zone's SOA. Rollback uses the invariant
once more: the target is well-formed because it is a version, so its additions pass
validation and the result is the target itself (`RollbackExact`). The refinement
follows from the same lemmas.

**The log.** That a log explains a write is enough for the closed form of the
reconstruction and too little for what the code does with the rows. `Accounts` asks
two more things: the entries lead from the old records to the new ones through sets
that repeat no rdata, each deletion removing what was there and each addition adding
what was not (`Path`), and the last entry that touches a record decides whether the
new set has it (`Decides`). `LogsAccount`, the last conjunct of `IndInv`, says this
of every serial. The loop of `reconstruct_records_at_serial`, which is keyed without
the TTL and walks the rows newest first, then goes back along that path set by set
(`UndoLogExact`, `ReconstructsVersion`), and the difference of two versions, grouped
by name and type, leads from one to the other and names nothing that both have
(`DiffEntries`, `PatchExact`). The sections of an IXFR apply the deletions of a
serial before its additions. Where no serial adds a record and deletes it again,
both orders end alike, and because only the last word on a record counts, the
sections lead to the newest version from every version in between, not only from
the one they start at (`DeltaLeadsTo`). That is what a secondary needs whose AXFR
read the records after the zone row. The inductions along a log and along the
serials go by the least index at which two functions differ (`Downward`, `Upward`);
their hypothesis `WellOrdered` is discharged at the end, in `VersionProofs`.

**Transfers.** A handler works with rows it read some time ago. `Seen` says what
remains true of such a row: its id was assigned; if the zone still has it, the
zone has not gone back since; if not, and zones were created above one another,
its serial is below every present one. `Fresh` says that records loaded under a
serial are the zone's if the serial still is. Both are kept by every write because
a write moves the serial (which needs `IndInv`) and ids are not reused. A copy,
an answer and a cache entry inherit them from the row they came from. `Whole` is
the second invariant, of what the records are: those of one version, not below the
serial they go with (`OneVersion`), and the rows of an IXFR are those of the serials
it covers (`Sections`). Writes keep it because they alter no old version; the server
keeps it because the sections lead from version to version (`Replays`).

**Announcements.** `NothingForgotten` says who still owes an address its NOTIFY of a
zone: a request that changed the zone and has yet to announce it, the queue, the
worker's batch, or a task that is sending. The strengthening `NotifyInv` is what
keeps the debt from vanishing when it is handed on: a request that announces, bumps
or lists zones sends nothing yet, so taking over its list overwrites no other; it
lists only after the last bump; and a task has addresses left only while it has a
name to notify. Whatever ends a task early records what was on its list in `dropped`.

**The catalog and the status.** Every catalog ever given out is no newer than the
row of `catalog_zone_state`, and has the row's members if it has the row's serial;
the upsert raises the serial whenever the list differs from the row's. An answer under way
is not below the copy it will replace. For the status: what an address served
since the request began is in `since`, and the addresses asked so far and those
left are together the ones the entry resolved to.

**Locks.** `LocksInv` says of each request where it is and what it holds there:
rows it locked are as it read them and come before those it will lock (`Rows`),
share-locked policies still exist and cover every zone it locked (`Granted`), a
name it wrote is nobody else's (`Keyed`); and of each two requests that they hold
no lock in common (`Apart`). A commit then finds what the request saw. Waiting in
a circle is excluded by an order: whoever waits is blocked by a request inside a
transaction, requests that hold rows and still wait for some hold smaller names
than they want (`NamesClimb`), and a finite set of requests cannot ascend for ever
(`NoAscent`). The lemmas take what they need of finite sets and of the naturals as
hypotheses (`IntervalCounts`, `MinLeast`), which the end of the module discharges.
`NobodyWaitsInACircle` assumes `PoolSuffices`: finitely many requests, and more
connections than requests or no renames. The run `rename_pool_cycle` shows that
it cannot be dropped. Together with the finite number of steps of a request this
is the progress argument: as long as a request is not finished, some request can
take a step.

**Access.** Ids are not reused, so the row a request authenticated with is the
row of that id or gone; `could` contains the zone of every policy the request may
still read; a policy about to be inserted names a credential that was not global
when it was looked up, hence is not global now. For writes, `MatchDenotes` relates
the label-by-label comparison of patterns to what they denote, and `OpsTouch`
shows by induction over the update section that the records which differ
afterwards are touched by one of the operations, each of which `AuthorizeAll`
checked against the policies in the table at commit. The induction is done by
minimal counterexample, from the well-ordering of the naturals, on the recursive
function that folds the operations (`RunExists`, `OpsRun`).

**The daemon.** A process about to remove a file removes no listening daemon's, unless
that one bound the path after the file was found stale; every other listening daemon
has its file, and an image still looking for a socket has none (`SocketsOwned`). An
image that was asked listens for as long as it lives (`AskedListens`), so a stop that
reaches nobody means it is gone. A restart that is `alone` has no listener but the
image it asked while that one is up (`OneListener`), so an answer with another start
time comes from an image that bound its socket after that one was gone.

### Only model-checked

- Liveness, which the proof system cannot treat: `CatalogConverges`,
  `EveryChangeAnnounced`, `EveryChangeHeard`, `Converges`.
- `PreviewsHold`: it compares cardinalities of sets of rows before and after a
  write, for every request; the counting of the code's result fields is the
  property, and the library has no theorem on the cardinality of a set of
  differences grouped by key.
- `OneBody`, `CompleteWhenDone`, `WalkComplete`: sums and concatenations over
  sequences of any length, and orders a database may choose. They need inductions
  over the messages and pages that the library's theorems do not give.
- `SpellingDenotes`, `StoredFitsWire`, `FilterFindsRow`, `ReadsBackSame`: their
  modules use RECURSIVE operators over octets.
- `SyncedPlansNothing`, `RetryChangesNothing`, `TouchesOnlyItsOwn`, `AllOrNothing` of
  `ExternalDns`: the set of changes of a request is folded over the zones of its
  names, and is not proved yet.

## Not modelled

- Octets of RDATA, name compression, base64 and IP parsing, the grammar of zone
  files, UTF-8 beyond two octets, TTL and SOA timer ranges, configuration,
  logging, metrics. The HTTP and CLI layers translate and format; only
  authentication appears. Times are left out: a secondary or a timeout may act at
  any moment, which includes every schedule.
- A file at the socket path that is no socket.
- A client that stops by the `total` of a page rather than at a short page: it may
  miss rows.
- Prerequisites "RRset exists (value dependent)" compare single records in the
  code, where RFC 2136, Section 3.2.3 compares whole RRsets; the model follows the
  code (`EvaluatePrerequisite`).
- A write has no timeout on the connection. A fallback whose zone has come to the
  client's own serial meanwhile reads as "up to date".

## Limits of the code

The models show these, and the properties are stated around them:

- A change of the zone list is not announced again after a restart. A forced NOTIFY
  that meets a zone deleted since it was listed fails with the earlier zones bumped
  and unannounced. An HTTP client that disconnects after the commit cancels the
  NOTIFYs its own request had still to send or to queue.
- `prepare_socket_path` calls a path nobody answers at "safe to remove". A process
  that binds the path between the failed connect and `remove_file` loses its socket
  file and runs on unreachable (`exposed`).
- When `stop` reports success, a process may be on its way to its socket: one started
  meanwhile, or the daemon itself if a concurrent `restart` made it re-execute, which
  drops the pending shutdown. A request may be handled after its CLI gave up. `restart`
  may take another daemon, which listened on the other path, for the new image.
- A walk by offset misses rows when a row of an earlier page goes away.
- The ExternalDNS provider refuses a change set as a whole. One endpoint it cannot
  write, such as an alias at a name with an MX record, a type no policy covers or a zone
  at its last serial, keeps the rest from being applied, on every turn of the loop.
- A global credential deleted while its request runs still commits. The cascade of a
  token's deletion may wait in a circle with writers, which the database resolves.
