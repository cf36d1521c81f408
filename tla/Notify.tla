------------------------------- MODULE Notify -------------------------------
(***************************************************************************)
(* How a committed change is announced: the request that made it sends the *)
(* NOTIFYs itself (apply_mode sync) or queues them for a worker that       *)
(* collapses a burst into one NOTIFY per zone (async). Nothing is stored:  *)
(* queue, batch and retries die with the process, what an HTTP request had *)
(* still to send dies with its connection, and a failure is only logged.   *)
(* Manual and start-up NOTIFYs take the same path.                         *)
(***************************************************************************)
EXTENDS Integers, Sequences, FiniteSets, Functions

CONSTANTS
    ZoneNames,    \* names of zones
    Catalog,      \* CATALOG_ZONE_NAME, announced when the zone list changes
    Secondaries,  \* dns.secondary_addrs, in order: one address each
    Requests,     \* requests in progress at a time
    Configs,      \* the configurations considered, with the bounds of each
    Retries,      \* dns.notify_retries
    MaxChanges    \* bound: committed changes

Names == ZoneNames \cup {Catalog}

Addresses == Range(Secondaries)

\* Whoever sends NOTIFYs: requests, the apply worker, and bootstrap.
Tasks == Requests \cup {"worker", "startup"}

\* async: dns.apply_mode; afterUpdate: dns.notify_after_update; onStartup:
\* dns.notify_on_startup. The rest bounds an instance: manual NOTIFYs, lost
\* datagrams, NOTIFYs with failed look-ups, clients that disconnect, forced
\* increments and listings that fail, restarts of the daemon, and whether zones
\* are deleted and serials forced.
Config ==
    [async : BOOLEAN, afterUpdate : BOOLEAN, onStartup : BOOLEAN, manual : Nat, losses : Nat,
     unresolved : Nat, disconnects : Nat, failures : Nat, restarts : Nat, deletes : BOOLEAN,
     force : BOOLEAN]

ASSUME NotifyAssumption ==
    /\ Catalog \notin ZoneNames
    /\ Secondaries \in Seq(Addresses)
    /\ Requests \cap {"worker", "startup"} = {}
    /\ Configs \subseteq Config
    /\ {Retries, MaxChanges} \subseteq Nat

VARIABLES
    config,      \* the configuration of this behaviour
    zones,       \* names in the zones table
    version,     \* name -> number of committed changes of that zone
    announce,    \* request -> names it has changed and not yet announced, in order
    forcing,     \* request -> zones a forced NOTIFY has still to bump, or <<>>
    listing,     \* requests about to list all zones for their NOTIFYs
    queue,       \* APPLY_QUEUE
    batch,       \* the worker's ApplyBatch
    sending,     \* task -> names it has still to notify, in order
    targets,     \* task -> positions of the addresses left for the first of these names
    attempt,     \* task -> attempts made in vain at the first of these addresses
    tried,       \* address -> name -> version of the zone when it was last sent a NOTIFY
    heard,       \* address -> name -> version of the zone when it last got a NOTIFY
    dropped,     \* address -> name -> version of the zone when a NOTIFY was last dropped:
                 \* the look-up failed, the request was cut off, or the process ended
    unanswered,  \* address -> name -> version when notify_retries + 1 attempts had failed
    used         \* counts: changes, manual, losses, unresolved, disconnects, failures, restarts

vars == <<config, zones, version, announce, forcing, listing, queue, batch, sending, targets,
          attempt, tried, heard, dropped, unanswered, used>>

tables == <<config, zones, version>>
outbox == <<queue, batch>>
results == <<tried, heard, dropped, unanswered>>
client == <<sending, targets, attempt, results>>

Zero == [a \in Addresses |-> [n \in Names |-> 0]]

Init ==
    /\ config \in Configs
    /\ zones = ZoneNames
    /\ version = [n \in Names |-> 0]
    /\ announce = [r \in Requests |-> <<>>]
    /\ forcing = [r \in Requests |-> <<>>]
    /\ listing = {}
    /\ queue = <<>>
    /\ batch = {}
    /\ sending = [t \in Tasks |-> <<>>]
    /\ targets = [t \in Tasks |-> {}]
    /\ attempt = [t \in Tasks |-> 0]
    /\ tried = Zero /\ heard = Zero /\ dropped = Zero /\ unanswered = Zero
    /\ used = [changes |-> 0, manual |-> 0, losses |-> 0, unresolved |-> 0, disconnects |-> 0,
               failures |-> 0, restarts |-> 0]

\* The orders in which a query or a HashSet may list a set of names.
Orders(names) ==
    {list \in UNION {[1..k -> names] : k \in 0..Cardinality(names)} : Range(list) = names}

Busy(r) == announce[r] # <<>> \/ forcing[r] # <<>> \/ r \in listing \/ sending[r] # <<>>

\* A task that has these names to notify, and for the first of them these
\* positions or all, is still going to contact address a for name n.
WillContact(names, positions, a, n) ==
    /\ names # <<>>
    /\ \/ n \in Range(Tail(names))
       \/ n = Head(names) /\ (positions = {} \/ \E i \in positions : Secondaries[i] = a)

\* Request r ends where it is; the NOTIFYs it still had to send are never sent.
CutOff(r) ==
    /\ announce' = [announce EXCEPT ![r] = <<>>]
    /\ forcing' = [forcing EXCEPT ![r] = <<>>]
    /\ listing' = listing \ {r}
    /\ sending' = [sending EXCEPT ![r] = <<>>]
    /\ targets' = [targets EXCEPT ![r] = {}]
    /\ attempt' = [attempt EXCEPT ![r] = 0]
    /\ dropped' = [a \in Addresses |-> [n \in Names |->
            IF n \in Range(announce[r]) \/ WillContact(sending[r], targets[r], a, n)
              THEN version[n] ELSE dropped[a][n]]]
    /\ UNCHANGED <<tables, outbox, tried, heard, unanswered>>

-----------------------------------------------------------------------------
(* Requests that change zones: each commits, then announces                *)

\* One committed transaction, and the names its request will announce.
Commit(r, changed, names) ==
    /\ used.changes < MaxChanges
    /\ ~Busy(r)
    /\ version' = [n \in Names |-> IF n \in changed THEN version[n] + 1 ELSE version[n]]
    /\ announce' = [announce EXCEPT ![r] = names]
    /\ used' = [used EXCEPT !.changes = @ + 1]
    /\ UNCHANGED <<config, forcing, listing, outbox, client>>

\* A write to the records or the SOA of a zone, by any of the services.
ChangeZone(r, z) ==
    /\ z \in zones
    /\ Commit(r, {z}, <<z>>)
    /\ UNCHANGED zones

\* ZoneService::create announces the catalog only: no secondary has the zone yet.
CreateZone(r, z) ==
    /\ z \notin zones
    /\ Commit(r, {Catalog}, <<Catalog>>)
    /\ zones' = zones \cup {z}

\* ZoneService::delete.
DeleteZone(r, z) ==
    /\ config.deletes
    /\ z \in zones
    /\ Commit(r, {Catalog}, <<Catalog>>)
    /\ zones' = zones \ {z}

\* ZoneService::update_locked with a new name: the zone, then the catalog.
RenameZone(r, z, to) ==
    /\ config.deletes
    /\ z \in zones
    /\ to \in ZoneNames \ zones
    /\ Commit(r, {to, Catalog}, <<to, Catalog>>)
    /\ zones' = (zones \ {z}) \cup {to}

\* Mutant of Announce: a name the worker is sending already is not queued again.
AnnounceUnlessPending(r) ==
    /\ announce[r] # <<>> /\ forcing[r] = <<>> /\ r \notin listing
    /\ announce' = [announce EXCEPT ![r] = <<>>]
    /\ IF config.afterUpdate /\ config.async
         THEN queue' = queue \o SelectSeq(announce[r],
                                   LAMBDA n : n \notin Range(sending["worker"]))
         ELSE UNCHANGED queue
    /\ sending' = IF config.afterUpdate /\ ~config.async
                    THEN [sending EXCEPT ![r] = announce[r]]
                    ELSE sending
    /\ UNCHANGED <<tables, forcing, listing, batch, targets, attempt, results, used>>

\* send_notify_after_update, once per changed name.
Announce(r) ==
    /\ announce[r] # <<>> /\ forcing[r] = <<>> /\ r \notin listing
    /\ announce' = [announce EXCEPT ![r] = <<>>]
    /\ queue' = IF config.afterUpdate /\ config.async THEN queue \o announce[r] ELSE queue
    /\ sending' = IF config.afterUpdate /\ ~config.async
                    THEN [sending EXCEPT ![r] = announce[r]]
                    ELSE sending
    /\ UNCHANGED <<tables, forcing, listing, batch, targets, attempt, results, used>>

\* The client of an HTTP request goes away: the handler is dropped at the await
\* it is in, after the commit as well.
Disconnect(r) ==
    /\ Busy(r)
    /\ used.disconnects < config.disconnects
    /\ used' = [used EXCEPT !.disconnects = @ + 1]
    /\ CutOff(r)

-----------------------------------------------------------------------------
(* Manual NOTIFYs: zone/notify.rs and zone/force.rs                        *)

Manual(r) ==
    /\ used.manual < config.manual
    /\ ~Busy(r)
    /\ used' = [used EXCEPT !.manual = @ + 1]

\* ZoneService::notify for one zone that exists, or for the catalog; sent
\* inline whatever the apply mode.
NotifyOne(r, n) ==
    /\ n \in zones \cup {Catalog}
    /\ Manual(r)
    /\ sending' = [sending EXCEPT ![r] = <<n>>]
    /\ UNCHANGED <<tables, announce, forcing, listing, outbox, targets, attempt, results>>

\* With force: force_increment_serial_by_name, and then the NOTIFY.
ForceOne(r, z) ==
    /\ config.force
    /\ z \in zones
    /\ Manual(r)
    /\ version' = [version EXCEPT ![z] = @ + 1]
    /\ sending' = [sending EXCEPT ![r] = <<z>>]
    /\ UNCHANGED <<config, zones, announce, forcing, listing, outbox, targets, attempt, results>>

\* ZoneService::notify for all zones.
NotifyAll(r) ==
    /\ Manual(r)
    /\ listing' = listing \cup {r}
    /\ UNCHANGED <<tables, announce, forcing, outbox, client>>

\* With force: force_increment_serial lists the zones first.
ForceAll(r) ==
    /\ config.force
    /\ zones # {}
    /\ Manual(r)
    /\ \E list \in Orders(zones) : forcing' = [forcing EXCEPT ![r] = list]
    /\ UNCHANGED <<tables, announce, listing, outbox, client>>

\* force_increment_serial_by_name: one transaction per zone.
ForceBump(r) ==
    /\ forcing[r] # <<>>
    /\ Head(forcing[r]) \in zones
    /\ version' = [version EXCEPT ![Head(forcing[r])] = @ + 1]
    /\ announce' = [announce EXCEPT ![r] = Append(@, Head(forcing[r]))]
    /\ forcing' = [forcing EXCEPT ![r] = Tail(@)]
    /\ listing' = IF Len(forcing[r]) = 1 THEN listing \cup {r} ELSE listing
    /\ UNCHANGED <<config, zones, outbox, client, used>>

\* send_notify_for_all_zones: the zones there are by now. What was bumped and has
\* been deleted or renamed since is not among them.
ListZones(r) ==
    /\ r \in listing
    /\ listing' = listing \ {r}
    /\ \E list \in Orders(zones) : sending' = [sending EXCEPT ![r] = list]
    /\ announce' = [announce EXCEPT ![r] = <<>>]
    /\ dropped' = [a \in Addresses |-> [n \in Names |->
            IF n \in Range(announce[r]) \ zones THEN version[n] ELSE dropped[a][n]]]
    /\ UNCHANGED <<tables, forcing, outbox, targets, attempt, tried, heard, unanswered, used>>

\* A listed zone is gone, its serial has reached the limit, or the database
\* fails: the error ends the request, and with it the NOTIFY of the zones that
\* were bumped.
ForceFail(r) ==
    /\ \/ forcing[r] # <<>> /\ Head(forcing[r]) \notin zones /\ UNCHANGED used
       \/ /\ forcing[r] # <<>> \/ r \in listing
          /\ used.failures < config.failures
          /\ used' = [used EXCEPT !.failures = @ + 1]
    /\ CutOff(r)

-----------------------------------------------------------------------------
(* The apply worker: init_apply_worker and ApplyBatch                      *)

\* recv: the first job of a batch, or another one while the window is open.
WorkerRecv ==
    /\ sending["worker"] = <<>>
    /\ queue # <<>>
    /\ batch' = batch \cup {Head(queue)}
    /\ queue' = Tail(queue)
    /\ UNCHANGED <<tables, announce, forcing, listing, client, used>>

\* Mutant of WorkerFlush: the window is looked at only when a job arrives.
WorkerFlushOnArrival ==
    /\ sending["worker"] = <<>>
    /\ batch # {} /\ queue # <<>>
    /\ \E list \in Orders(batch \cup Range(queue)) :
          sending' = [sending EXCEPT !["worker"] = list]
    /\ queue' = <<>>
    /\ batch' = {}
    /\ UNCHANGED <<tables, announce, forcing, listing, targets, attempt, results, used>>

\* The window has passed: drain what is queued and flush, in the order of a
\* HashSet. No service queues a job for all zones.
WorkerFlush ==
    /\ sending["worker"] = <<>>
    /\ batch # {}
    /\ \E list \in Orders(batch \cup Range(queue)) :
          sending' = [sending EXCEPT !["worker"] = list]
    /\ queue' = <<>>
    /\ batch' = {}
    /\ UNCHANGED <<tables, announce, forcing, listing, targets, attempt, results, used>>

-----------------------------------------------------------------------------
(* The NOTIFY client: bindizr-dns/src/client                               *)

\* Mutant of Attempts: retries counts the first attempt too.
AttemptsWithoutFirst == Retries

\* send_notify_to_server: the first attempt and the retries.
Attempts == Retries + 1

\* resolve_secondary_entries, for the first name: an address that cannot be
\* resolved is reported, and nothing is sent to it for this NOTIFY.
Resolve(t) ==
    /\ sending[t] # <<>>
    /\ targets[t] = {}
    /\ \E failed \in SUBSET Addresses :
          LET resolved == {i \in DOMAIN Secondaries : Secondaries[i] \notin failed}
              n == Head(sending[t])
          IN /\ failed # {} => used.unresolved < config.unresolved
             /\ used' = IF failed = {} THEN used ELSE [used EXCEPT !.unresolved = @ + 1]
             /\ dropped' = [a \in Addresses |->
                    IF a \in failed THEN [dropped[a] EXCEPT ![n] = version[n]] ELSE dropped[a]]
             /\ targets' = [targets EXCEPT ![t] = resolved]
             /\ sending' = IF resolved = {} THEN [sending EXCEPT ![t] = Tail(@)] ELSE sending
    /\ UNCHANGED <<tables, announce, forcing, listing, outbox, attempt, tried, heard, unanswered>>

\* One datagram to the first address. A lost NOTIFY, a lost or invalid answer
\* costs an attempt; after the last one, or a valid answer, the next address
\* follows, and after the last address the next name.
Attempt(t) ==
    \E i \in targets[t], received, answered \in BOOLEAN :
        LET a == Secondaries[i]
            n == Head(sending[t])
            done == answered \/ attempt[t] + 1 >= Attempts
            last == targets[t] = {i}
        IN /\ \A j \in targets[t] : i <= j
           /\ answered => received
           /\ ~answered => used.losses < config.losses
           /\ used' = IF answered THEN used ELSE [used EXCEPT !.losses = @ + 1]
           /\ tried' = [tried EXCEPT ![a][n] = version[n]]
           /\ heard' = IF received THEN [heard EXCEPT ![a][n] = version[n]] ELSE heard
           /\ unanswered' = IF ~answered /\ attempt[t] = Retries
                              THEN [unanswered EXCEPT ![a][n] = version[n]] ELSE unanswered
           /\ targets' = IF done THEN [targets EXCEPT ![t] = @ \ {i}] ELSE targets
           /\ sending' = IF done /\ last THEN [sending EXCEPT ![t] = Tail(@)] ELSE sending
           /\ attempt' = [attempt EXCEPT ![t] = IF done THEN 0 ELSE @ + 1]
           /\ UNCHANGED <<tables, announce, forcing, listing, outbox, dropped>>

-----------------------------------------------------------------------------
\* The daemon stops, or re-executes itself, and starts again: everything in memory
\* is gone, and bootstrap lists the zones for a NOTIFY if notify_on_startup is set.
\* What is not announced again is dropped.
Restart ==
    /\ used.restarts < config.restarts
    /\ used' = [used EXCEPT !.restarts = @ + 1]
    /\ announce' = [r \in Requests |-> <<>>]
    /\ forcing' = [r \in Requests |-> <<>>]
    /\ listing' = {}
    /\ queue' = <<>>
    /\ batch' = {}
    /\ \E list \in Orders(zones) :
          sending' = [t \in Tasks |-> IF t = "startup" /\ config.onStartup THEN list ELSE <<>>]
    /\ targets' = [t \in Tasks |-> {}]
    /\ attempt' = [t \in Tasks |-> 0]
    /\ dropped' = [a \in Addresses |-> [n \in Names |->
            IF config.onStartup /\ n \in zones THEN dropped[a][n] ELSE version[n]]]
    /\ UNCHANGED <<tables, tried, heard, unanswered>>

Write(r) ==
    \/ \E z \in ZoneNames : ChangeZone(r, z) \/ CreateZone(r, z) \/ DeleteZone(r, z)
    \/ \E z, to \in ZoneNames : RenameZone(r, z, to)
    \/ \E n \in Names : NotifyOne(r, n)
    \/ \E z \in ZoneNames : ForceOne(r, z)
    \/ NotifyAll(r)
    \/ ForceAll(r)

Continue(r) == Announce(r) \/ ForceBump(r) \/ ListZones(r) \/ ForceFail(r)

Send(t) == Resolve(t) \/ Attempt(t)

Worker == WorkerRecv \/ WorkerFlush

Next ==
    \/ \E r \in Requests : Write(r) \/ Continue(r) \/ Disconnect(r)
    \/ Worker
    \/ \E t \in Tasks : Send(t)
    \/ Restart

\* tokio polls a request until it ends or is dropped with its connection, and so
\* the worker, which loops; every exchange with a secondary ends, by an answer or
\* by notify_timeout_secs.
Fairness ==
    /\ \A r \in Requests : WF_vars(Continue(r))
    /\ WF_vars(WorkerFlush)
    /\ WF_vars(Worker)
    /\ \A t \in Tasks : WF_vars(Send(t))

Spec == Init /\ [][Next]_vars

FairSpec == Spec /\ Fairness

-----------------------------------------------------------------------------
Counts ==
    [changes : Nat, manual : Nat, losses : Nat, unresolved : Nat, disconnects : Nat,
     failures : Nat, restarts : Nat]

TypeOK ==
    /\ config \in Configs
    /\ zones \subseteq ZoneNames
    /\ version \in [Names -> Nat]
    /\ announce \in [Requests -> Seq(Names)]
    /\ forcing \in [Requests -> Seq(ZoneNames)]
    /\ listing \subseteq Requests
    /\ queue \in Seq(Names)
    /\ batch \subseteq Names
    /\ sending \in [Tasks -> Seq(Names)]
    /\ targets \in [Tasks -> SUBSET DOMAIN Secondaries]
    /\ attempt \in [Tasks -> Nat]
    /\ tried \in [Addresses -> [Names -> Nat]] /\ heard \in [Addresses -> [Names -> Nat]]
    /\ dropped \in [Addresses -> [Names -> Nat]] /\ unanswered \in [Addresses -> [Names -> Nat]]
    /\ used \in Counts

\* Somebody has it on their list to tell address a of name n: the request that
\* changed the zone, the queue, the worker's batch, or a task that is sending.
Listed(a, n) ==
    \/ \E r \in Requests : n \in Range(announce[r])
    \/ n \in Range(queue)
    \/ n \in batch
    \/ \E t \in Tasks : WillContact(sending[t], targets[t], a, n)

\* Whenever a secondary has not been sent a NOTIFY since the last change of a
\* zone, somebody still has that on their list, unless that NOTIFY was dropped: its
\* look-up failed, its request was cut off, or the process ended. Coalescing in the
\* worker, overlapping batches and skipped addresses lose no announcement.
\* (Without notify_after_update nothing is promised.)
NothingForgotten ==
    config.afterUpdate =>
        \A a \in Addresses, n \in Names :
            tried[a][n] < version[n] /\ dropped[a][n] < version[n] => Listed(a, n)

\* For every committed change every secondary is sent a NOTIFY in the end ("Send
\* DNS NOTIFY after zone changes"), unless it was dropped: the secondary's name
\* did not resolve, an HTTP client disconnected from the request that was to send
\* it, a forced NOTIFY failed on another zone, or the daemon stopped. A restart
\* with notify_on_startup drops only what concerns no zone: a change of the list.
EveryChangeAnnounced ==
    \A a \in Addresses, n \in Names, v \in 1..MaxChanges :
        config.afterUpdate /\ version[n] >= v ~> tried[a][n] >= v \/ dropped[a][n] >= v

\* A secondary gets a NOTIFY of every change that was not dropped, unless it
\* leaves all notify_retries + 1 attempts of one unanswered: an address given up
\* before it in the list, lost answers and retries do not use up its own attempts.
EveryChangeHeard ==
    \A a \in Addresses, n \in Names, v \in 1..MaxChanges :
        config.afterUpdate /\ version[n] >= v ~>
            heard[a][n] >= v \/ dropped[a][n] >= v \/ unanswered[a][n] >= v
=============================================================================
