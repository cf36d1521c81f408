---------------------------- MODULE ClientProofs ----------------------------
(***************************************************************************)
(* Theorems about the DNS client, which tells and asks the secondaries. For *)
(* any number of zones, addresses, requests, retries and changes, no        *)
(* announcement is forgotten (Notify). However many addresses each entry    *)
(* resolves to and whatever changes meanwhile, what the status of a zone    *)
(* says of the secondaries is true (StatusProbe).                           *)
(***************************************************************************)
EXTENDS Notify, StatusProbe, TLAPS

\* A leaf that names no prover: SMT, then Zenon, then SMT once more with more time.
USE SMTT(30), ZenonT(20), SMTT(60)

-----------------------------------------------------------------------------
(* Sequences                                                               *)

\* The members of a sequence are its head and those of its tail.
LEMMA HeadAndTail ==
    ASSUME NEW S, NEW s \in Seq(S), s # <<>>
    PROVE  Head(s) \in S /\ Tail(s) \in Seq(S) /\ Range(s) = {Head(s)} \cup Range(Tail(s))
  <1>1. Len(s) \in Nat /\ Len(s) > 0 /\ DOMAIN s = 1..Len(s) /\ Head(s) = s[1]
    OBVIOUS
  <1>2. /\ Tail(s) \in Seq(S) /\ Len(Tail(s)) = Len(s) - 1 /\ DOMAIN Tail(s) = 1..(Len(s) - 1)
        /\ \A i \in 1..(Len(s) - 1) : Tail(s)[i] = s[i + 1]
    BY <1>1
  <1>3. ASSUME NEW x \in Range(s) PROVE x = Head(s) \/ x \in Range(Tail(s))
    <2>1. PICK i \in 1..Len(s) : x = s[i]
      BY <1>1, <1>3 DEF Range
    <2>2. CASE i # 1
      <3>1. i - 1 \in 1..(Len(s) - 1) /\ (i - 1) + 1 = i
        BY <1>1, <2>2
      <3>2. Tail(s)[i - 1] = x
        BY <1>2, <2>1, <3>1
      <3> QED BY <1>2, <3>1, <3>2, Zenon DEF Range
    <2> QED BY <1>1, <2>1, <2>2
  <1>4. ASSUME NEW x \in Range(Tail(s)) PROVE x \in Range(s)
    <2>1. PICK i \in 1..(Len(s) - 1) : x = Tail(s)[i]
      BY <1>2, <1>4 DEF Range
    <2>2. i + 1 \in 1..Len(s) /\ x = s[i + 1]
      BY <1>1, <1>2, <2>1
    <2> QED BY <1>1, <2>2 DEF Range
  <1>5. Head(s) \in Range(s)
    BY <1>1 DEF Range
  <1> QED BY <1>1, <1>2, <1>3, <1>4, <1>5

\* The members of a concatenation.
LEMMA RangeOfConcat ==
    ASSUME NEW S, NEW s \in Seq(S), NEW t \in Seq(S)
    PROVE  s \o t \in Seq(S) /\ Range(s \o t) = Range(s) \cup Range(t)
  <1>1. /\ Len(s) \in Nat /\ Len(t) \in Nat /\ DOMAIN s = 1..Len(s) /\ DOMAIN t = 1..Len(t)
        /\ s \o t \in Seq(S) /\ DOMAIN (s \o t) = 1..(Len(s) + Len(t))
        /\ \A i \in 1..Len(s) : (s \o t)[i] = s[i]
        /\ \A i \in 1..Len(t) : (s \o t)[Len(s) + i] = t[i]
    OBVIOUS
  <1>2. ASSUME NEW x \in Range(s \o t) PROVE x \in Range(s) \cup Range(t)
    <2>1. PICK i \in 1..(Len(s) + Len(t)) : x = (s \o t)[i]
      BY <1>1, <1>2 DEF Range
    <2>2. CASE i <= Len(s)
      BY <1>1, <2>1, <2>2 DEF Range
    <2>3. CASE i > Len(s)
      <3>1. i - Len(s) \in 1..Len(t) /\ Len(s) + (i - Len(s)) = i
        BY <1>1, <2>1, <2>3
      <3>2. x = t[i - Len(s)]
        BY <1>1, <2>1, <3>1
      <3> QED BY <1>1, <3>1, <3>2 DEF Range
    <2> QED BY <1>1, <2>2, <2>3
  <1>3. ASSUME NEW x \in Range(s) PROVE x \in Range(s \o t)
    BY <1>1, <1>3 DEF Range
  <1>4. ASSUME NEW x \in Range(t) PROVE x \in Range(s \o t)
    <2>1. PICK i \in 1..Len(t) : x = t[i]
      BY <1>1, <1>4 DEF Range
    <2>2. Len(s) + i \in 1..(Len(s) + Len(t)) /\ x = (s \o t)[Len(s) + i]
      BY <1>1, <2>1
    <2> QED BY <1>1, <2>2, Zenon DEF Range
  <1> QED BY <1>1, <1>2, <1>3, <1>4

\* A listing of a set of names, in whatever order, has all of them.
LEMMA ListOfNames ==
    ASSUME NEW S \in SUBSET Names, NEW list \in Orders(S)
    PROVE  list \in Seq(S) /\ Range(list) = S
  <1>1. PICK k \in 0..Cardinality(S) : list \in [1..k -> S]
    BY DEF Orders
  <1>2. k \in Nat
    BY <1>1
  <1> QED BY <1>1, <1>2 DEF Orders

\* A task that has not started on its first name will contact everybody for all.
LEMMA ContactsAll ==
    ASSUME NEW s \in Seq(Names), NEW a, NEW n
    PROVE  WillContact(s, {}, a, n) <=> n \in Range(s)
  <1>1. CASE s = <<>>
    BY <1>1 DEF WillContact, Range
  <1>2. CASE s # <<>>
    BY <1>2, HeadAndTail DEF WillContact
  <1> QED BY <1>1, <1>2

-----------------------------------------------------------------------------
(* The inductive invariant                                                 *)

\* A request that has names to announce, zones to bump or zones to list sends
\* nothing yet; it lists them after the last bump; and only a task with a name to notify has addresses left.
NotifyInv ==
    /\ TypeOK
    /\ \A t \in Tasks : targets[t] # {} => sending[t] # <<>>
    /\ \A r \in Requests : announce[r] # <<>> \/ forcing[r] # <<>> \/ r \in listing => sending[r] = <<>>
    /\ \A r \in listing : forcing[r] = <<>>
    /\ NothingForgotten

\* A count that goes up.
LEMMA CountsUp ==
    ASSUME used \in Counts
    PROVE  /\ [used EXCEPT !.changes = @ + 1] \in Counts /\ [used EXCEPT !.manual = @ + 1] \in Counts
           /\ [used EXCEPT !.losses = @ + 1] \in Counts /\ [used EXCEPT !.unresolved = @ + 1] \in Counts
           /\ [used EXCEPT !.disconnects = @ + 1] \in Counts /\ [used EXCEPT !.failures = @ + 1] \in Counts
           /\ [used EXCEPT !.restarts = @ + 1] \in Counts
  <1>1. [used EXCEPT !.changes = @ + 1] \in Counts
    BY DEF Counts
  <1>2. [used EXCEPT !.manual = @ + 1] \in Counts
    BY DEF Counts
  <1>3. [used EXCEPT !.losses = @ + 1] \in Counts
    BY DEF Counts
  <1>4. [used EXCEPT !.unresolved = @ + 1] \in Counts
    BY DEF Counts
  <1>5. [used EXCEPT !.disconnects = @ + 1] \in Counts
    BY DEF Counts
  <1>6. [used EXCEPT !.failures = @ + 1] \in Counts
    BY DEF Counts
  <1>7. [used EXCEPT !.restarts = @ + 1] \in Counts
    BY DEF Counts
  <1> QED BY <1>1, <1>2, <1>3, <1>4, <1>5, <1>6, <1>7, Zenon

-----------------------------------------------------------------------------
(* Requests                                                                *)

\* A committed change: its request has every changed name to announce.
LEMMA CommitKeeps ==
    ASSUME NotifyInv, NEW r \in Requests, NEW changed \in SUBSET Names, NEW names \in Seq(Names),
           changed \subseteq Range(names), Commit(r, changed, names), zones' \subseteq ZoneNames
    PROVE  NotifyInv'
  <1>1. /\ announce \in [Requests -> Seq(Names)] /\ version \in [Names -> Nat] /\ announce[r] = <<>>
        /\ forcing[r] = <<>> /\ sending[r] = <<>>
        /\ UNCHANGED <<config, forcing, listing, queue, batch, sending, targets, attempt,
                       tried, heard, dropped, unanswered>>
        /\ announce' = [announce EXCEPT ![r] = names]
        /\ version' = [n \in Names |-> IF n \in changed THEN version[n] + 1 ELSE version[n]]
    BY DEF NotifyInv, TypeOK, Commit, Busy, outbox, client, results
  <1>2. used' \in Counts
    BY CountsUp DEF NotifyInv, TypeOK, Commit
  <1>3. TypeOK'
    <2>1. announce' \in [Requests -> Seq(Names)] /\ version' \in [Names -> Nat]
      BY <1>1
    <2> QED BY <1>1, <1>2, <2>1 DEF NotifyInv, TypeOK
  <1>4. \A q \in Requests : announce'[q] = IF q = r THEN names ELSE announce[q]
    BY <1>1
  <1>5. \A q \in Requests : announce'[q] # <<>> \/ forcing'[q] # <<>> \/ q \in listing' => sending'[q] = <<>>
    BY <1>1, <1>4 DEF NotifyInv
  <1>6. NothingForgotten'
    <2> SUFFICES ASSUME config.afterUpdate, NEW a \in Addresses, NEW n \in Names,
                        tried[a][n] < version'[n], dropped[a][n] < version'[n]
                 PROVE  Listed(a, n)'
      BY <1>1 DEF NothingForgotten
    <2>1. CASE n \in changed
      <3>1. n \in Range(announce'[r])
        BY <1>4, <2>1
      <3> QED BY <3>1 DEF Listed
    <2>2. CASE n \notin changed
      <3>1. Listed(a, n)
        BY <1>1, <2>2 DEF NotifyInv, NothingForgotten
      <3>2. ASSUME NEW q \in Requests, n \in Range(announce[q]) PROVE n \in Range(announce'[q])
        BY <1>1, <1>4, <3>2 DEF Range
      <3> QED BY <1>1, <3>1, <3>2 DEF Listed
    <2> QED BY <2>1, <2>2
  <1> QED BY <1>1, <1>3, <1>5, <1>6 DEF NotifyInv

\* Every request that commits is of that form.
LEMMA WritesKeep ==
    ASSUME NotifyInv, NEW r \in Requests, NEW z \in ZoneNames, NEW to \in ZoneNames,
           ChangeZone(r, z) \/ CreateZone(r, z) \/ DeleteZone(r, z) \/ RenameZone(r, z, to)
    PROVE  NotifyInv'
  <1>1. zones \subseteq ZoneNames /\ ZoneNames \subseteq Names /\ Catalog \in Names
    BY DEF NotifyInv, TypeOK, Names
  <1>2. /\ \A n \in Names : <<n>> \in Seq(Names) /\ Range(<<n>>) = {n}
        /\ <<to, Catalog>> \in Seq(Names) /\ Range(<<to, Catalog>>) = {to, Catalog}
    BY <1>1 DEF Range
  <1>3. CASE ChangeZone(r, z)
    BY <1>1, <1>2, <1>3, CommitKeeps DEF ChangeZone
  <1>4. CASE CreateZone(r, z)
    BY <1>1, <1>2, <1>4, CommitKeeps DEF CreateZone
  <1>5. CASE DeleteZone(r, z)
    BY <1>1, <1>2, <1>5, CommitKeeps DEF DeleteZone
  <1>6. CASE RenameZone(r, z, to)
    BY <1>1, <1>2, <1>6, CommitKeeps, Zenon DEF RenameZone
  <1> QED BY <1>3, <1>4, <1>5, <1>6

\* A task that has nothing to send starts on a list of names.
LEMMA StartsSending ==
    ASSUME NotifyInv, NEW t \in Tasks, sending[t] = <<>>, NEW list \in Seq(Names),
           sending' = [sending EXCEPT ![t] = list], UNCHANGED targets
    PROVE  /\ sending' \in [Tasks -> Seq(Names)] /\ sending'[t] = list
           /\ \A q \in Tasks : targets'[q] # {} => sending'[q] # <<>>
           /\ \A q \in Tasks : q # t => sending'[q] = sending[q]
           /\ \A a, n : n \in Range(list) => WillContact(sending'[t], targets'[t], a, n)
           /\ \A q \in Tasks : \A a, n : WillContact(sending[q], targets[q], a, n) =>
                                         WillContact(sending'[q], targets'[q], a, n)
  <1>1. sending \in [Tasks -> Seq(Names)] /\ targets[t] = {}
    BY DEF NotifyInv, TypeOK
  <1>2. sending'[t] = list /\ \A q \in Tasks : q # t => sending'[q] = sending[q]
    BY <1>1
  <1>3. \A a, n : n \in Range(list) => WillContact(sending'[t], targets'[t], a, n)
    BY <1>1, <1>2, ContactsAll
  <1>4. \A a, n : ~WillContact(sending[t], targets[t], a, n)
    BY DEF WillContact
  <1>5. \A q \in Tasks : targets'[q] # {} => sending'[q] # <<>>
    BY <1>1, <1>2 DEF NotifyInv
  <1> QED BY <1>1, <1>2, <1>3, <1>4, <1>5, Zenon

\* The names a request has changed go to the queue, or it sends them itself.
LEMMA AnnounceKeeps ==
    ASSUME NotifyInv, NEW r \in Requests, Announce(r)
    PROVE  NotifyInv'
  <1>1. /\ announce \in [Requests -> Seq(Names)] /\ queue \in Seq(Names) /\ r \in Tasks /\ announce[r] \in Seq(Names)
        /\ forcing[r] = <<>> /\ sending[r] = <<>>
        /\ UNCHANGED <<config, zones, version, forcing, listing, batch, targets, attempt,
                       tried, heard, dropped, unanswered, used>>
        /\ r \notin listing /\ announce' = [announce EXCEPT ![r] = <<>>]
    BY DEF NotifyInv, TypeOK, Announce, tables, results, Tasks
  <1>2. announce'[r] = <<>> /\ \A q \in Requests : q # r => announce'[q] = announce[q]
    BY <1>1
  <1>3. \A q \in Requests : \A n : n \in Range(announce[q]) /\ q # r => n \in Range(announce'[q])
    BY <1>2
  <1>4. CASE config.afterUpdate /\ ~config.async
    <2>1. UNCHANGED queue /\ sending' = [sending EXCEPT ![r] = announce[r]]
      BY <1>4 DEF Announce
    <2>2. /\ sending' \in [Tasks -> Seq(Names)]
          /\ \A q \in Tasks : targets'[q] # {} => sending'[q] # <<>>
          /\ \A q \in Tasks : q # r => sending'[q] = sending[q]
          /\ \A a, n : n \in Range(announce[r]) => WillContact(sending'[r], targets'[r], a, n)
          /\ \A q \in Tasks : \A a, n : WillContact(sending[q], targets[q], a, n) =>
                                        WillContact(sending'[q], targets'[q], a, n)
      BY <1>1, <2>1, StartsSending, Zenon
    <2>3. TypeOK'
      BY <1>1, <2>1, <2>2 DEF NotifyInv, TypeOK
    <2>4. ASSUME NEW a, NEW n, Listed(a, n) PROVE Listed(a, n)'
      BY <1>1, <1>3, <2>1, <2>2, <2>4, Zenon DEF Listed
    <2>5. NothingForgotten'
      BY <1>1, <2>4 DEF NotifyInv, NothingForgotten
    <2>6. \A q \in Requests : q \in Tasks
      BY DEF Tasks
    <2> QED BY <1>1, <1>2, <2>2, <2>3, <2>5, <2>6, Zenon DEF NotifyInv
  <1>5. CASE ~(config.afterUpdate /\ ~config.async)
    <2>1. UNCHANGED sending /\ queue' = IF config.afterUpdate /\ config.async THEN queue \o announce[r] ELSE queue
      BY <1>5 DEF Announce
    <2>2. queue' \in Seq(Names) /\ (config.afterUpdate => Range(queue') = Range(queue) \cup Range(announce[r]))
      BY <1>1, <1>5, <2>1, RangeOfConcat
    <2>3. TypeOK'
      BY <1>1, <2>1, <2>2 DEF NotifyInv, TypeOK
    <2>4. ASSUME NEW a, NEW n, Listed(a, n), config.afterUpdate PROVE Listed(a, n)'
      BY <1>1, <1>3, <2>1, <2>2, <2>4 DEF Listed
    <2>5. NothingForgotten'
      BY <1>1, <2>4 DEF NotifyInv, NothingForgotten
    <2> QED BY <1>1, <1>2, <2>1, <2>3, <2>5 DEF NotifyInv
  <1> QED BY <1>4, <1>5

\* The request is cut off, and what it had still to send counts as dropped.
LEMMA CutOffKeeps ==
    ASSUME NotifyInv, NEW r \in Requests, CutOff(r), used' \in Counts
    PROVE  NotifyInv'
  <1>1. /\ UNCHANGED <<config, zones, version, queue, batch, tried, heard, unanswered>>
        /\ announce \in [Requests -> Seq(Names)] /\ forcing \in [Requests -> Seq(ZoneNames)]
        /\ sending \in [Tasks -> Seq(Names)] /\ targets \in [Tasks -> SUBSET DOMAIN Secondaries]
        /\ attempt \in [Tasks -> Nat] /\ version \in [Names -> Nat]
        /\ dropped \in [Addresses -> [Names -> Nat]] /\ tried \in [Addresses -> [Names -> Nat]]
        /\ r \in Tasks /\ \A q \in Requests : q \in Tasks
    BY DEF CutOff, tables, outbox, NotifyInv, TypeOK, Tasks
  <1>2. /\ announce' = [announce EXCEPT ![r] = <<>>] /\ forcing' = [forcing EXCEPT ![r] = <<>>]
        /\ listing' = listing \ {r} /\ sending' = [sending EXCEPT ![r] = <<>>]
        /\ targets' = [targets EXCEPT ![r] = {}] /\ attempt' = [attempt EXCEPT ![r] = 0]
    BY Zenon DEF CutOff
  <1>3. \A a \in Addresses, n \in Names :
            dropped'[a][n] = IF n \in Range(announce[r]) \/ WillContact(sending[r], targets[r], a, n)
                               THEN version[n] ELSE dropped[a][n]
    BY Zenon DEF CutOff
  <1>4. dropped' \in [Addresses -> [Names -> Nat]]
    <2>1. dropped' = [a \in Addresses |-> [n \in Names |->
              IF n \in Range(announce[r]) \/ WillContact(sending[r], targets[r], a, n)
                THEN version[n] ELSE dropped[a][n]]]
      BY Zenon DEF CutOff
    <2> QED BY <1>1, <2>1
  <1>5. /\ announce'[r] = <<>> /\ forcing'[r] = <<>> /\ sending'[r] = <<>> /\ targets'[r] = {}
        /\ \A q \in Requests : q # r => announce'[q] = announce[q] /\ forcing'[q] = forcing[q]
        /\ \A q \in Tasks : q # r => sending'[q] = sending[q] /\ targets'[q] = targets[q]
    BY <1>1, <1>2
  <1>6. TypeOK'
    <2>1. /\ announce' \in [Requests -> Seq(Names)] /\ forcing' \in [Requests -> Seq(ZoneNames)]
          /\ sending' \in [Tasks -> Seq(Names)] /\ targets' \in [Tasks -> SUBSET DOMAIN Secondaries]
          /\ attempt' \in [Tasks -> Nat]
      BY <1>1, <1>2
    <2> QED BY <1>1, <1>2, <1>4, <2>1 DEF NotifyInv, TypeOK
  <1>7. NothingForgotten'
    <2> SUFFICES ASSUME config.afterUpdate, NEW a \in Addresses, NEW n \in Names,
                        tried[a][n] < version[n], dropped'[a][n] < version[n]
                 PROVE  Listed(a, n)'
      BY <1>1 DEF NothingForgotten
    <2>1. version[n] \in Nat
      BY <1>1
    <2>2. dropped'[a][n] # version[n]
      BY <2>1
    <2>3. /\ n \notin Range(announce[r]) /\ ~WillContact(sending[r], targets[r], a, n)
          /\ dropped'[a][n] = dropped[a][n]
      BY <1>3, <2>2, Zenon
    <2>4. Listed(a, n)
      BY <2>3 DEF NotifyInv, NothingForgotten
    <2> QED BY <1>1, <1>5, <2>3, <2>4, Zenon DEF Listed
  <1> QED BY <1>1, <1>2, <1>5, <1>6, <1>7 DEF NotifyInv

\* A client that goes away, and a forced NOTIFY that fails.
LEMMA CutsKeep ==
    ASSUME NotifyInv, NEW r \in Requests, Disconnect(r) \/ ForceFail(r)
    PROVE  NotifyInv'
  <1>1. used \in Counts
    BY DEF NotifyInv, TypeOK
  <1>2. used' \in Counts
    BY <1>1, CountsUp, Zenon DEF Disconnect, ForceFail
  <1> QED BY <1>2, CutOffKeeps, Zenon DEF Disconnect, ForceFail

\* A manual NOTIFY costs a manual NOTIFY of an idle request.
LEMMA ManualCounts ==
    ASSUME NotifyInv, NEW r \in Requests, Manual(r)
    PROVE  used' \in Counts /\ announce[r] = <<>> /\ forcing[r] = <<>> /\ r \notin listing /\ sending[r] = <<>>
  <1>1. used \in Counts
    BY DEF NotifyInv, TypeOK
  <1>2. used' \in Counts
    BY <1>1, CountsUp DEF Manual
  <1> QED BY <1>2 DEF Manual, Busy

\* ZoneService::notify for one name, whose serial may be forced first.
LEMMA NotifyKeeps ==
    ASSUME NotifyInv, NEW r \in Requests, NEW n0 \in Names, NotifyOne(r, n0) \/ ForceOne(r, n0)
    PROVE  NotifyInv'
  <1>1. /\ UNCHANGED <<config, zones, announce, forcing, listing, queue, batch, targets, attempt,
                       tried, heard, dropped, unanswered>>
        /\ r \in Tasks /\ \A q \in Requests : q \in Tasks
        /\ Manual(r) /\ sending' = [sending EXCEPT ![r] = <<n0>>] /\ version \in [Names -> Nat]
    BY DEF NotifyOne, ForceOne, tables, outbox, results, Tasks, NotifyInv, TypeOK
  <1>2. version' \in [Names -> Nat] /\ \A n \in Names : n # n0 => version'[n] = version[n]
    BY <1>1 DEF NotifyOne, ForceOne, tables
  <1>3. used' \in Counts /\ announce[r] = <<>> /\ forcing[r] = <<>> /\ r \notin listing /\ sending[r] = <<>>
    BY <1>1, ManualCounts
  <1>4. <<n0>> \in Seq(Names) /\ n0 \in Range(<<n0>>)
    BY DEF Range
  <1>5. /\ sending' \in [Tasks -> Seq(Names)]
        /\ \A q \in Tasks : targets'[q] # {} => sending'[q] # <<>>
        /\ \A q \in Tasks : q # r => sending'[q] = sending[q]
        /\ \A a : WillContact(sending'[r], targets'[r], a, n0)
        /\ \A q \in Tasks : \A a, n : WillContact(sending[q], targets[q], a, n) =>
                                          WillContact(sending'[q], targets'[q], a, n)
    BY <1>1, <1>3, <1>4, StartsSending, Zenon
  <1>6. TypeOK'
    BY <1>1, <1>2, <1>3, <1>5 DEF NotifyInv, TypeOK
  <1>7. ASSUME NEW a, NEW n, Listed(a, n) PROVE Listed(a, n)'
    BY <1>1, <1>5, <1>7, Zenon DEF Listed
  <1>8. \A a : Listed(a, n0)'
    BY <1>1, <1>5, Zenon DEF Listed
  <1>9. NothingForgotten'
    BY <1>1, <1>2, <1>7, <1>8 DEF NotifyInv, NothingForgotten
  <1> QED BY <1>1, <1>3, <1>5, <1>6, <1>9 DEF NotifyInv

\* The requests for all zones begin with nothing on their list.
LEMMA AllKeeps ==
    ASSUME NotifyInv, NEW r \in Requests, NotifyAll(r) \/ ForceAll(r)
    PROVE  NotifyInv'
  <1>1. /\ UNCHANGED <<config, zones, version, announce, queue, batch, sending, targets, attempt,
                       tried, heard, dropped, unanswered>>
        /\ zones \subseteq ZoneNames /\ forcing \in [Requests -> Seq(ZoneNames)] /\ Manual(r)
        /\ listing \subseteq Requests
    BY DEF NotifyAll, ForceAll, tables, outbox, client, results, NotifyInv, TypeOK
  <1>2. used' \in Counts /\ announce[r] = <<>> /\ forcing[r] = <<>> /\ r \notin listing /\ sending[r] = <<>>
    BY <1>1, ManualCounts
  <1>3. /\ listing' \subseteq Requests /\ forcing' \in [Requests -> Seq(ZoneNames)]
        /\ \A q \in Requests : q # r => forcing'[q] = forcing[q] /\ (q \in listing' => q \in listing)
        /\ r \in listing' => forcing'[r] = <<>>
    <2>1. CASE NotifyAll(r)
      BY <1>1, <1>2, <2>1 DEF NotifyAll
    <2>2. CASE ForceAll(r)
      <3>1. PICK list \in Orders(zones) : forcing' = [forcing EXCEPT ![r] = list]
        BY <2>2, Zenon DEF ForceAll
      <3>2. zones \in SUBSET Names
        BY <1>1 DEF Names
      <3>3. list \in Seq(zones)
        BY <3>1, <3>2, ListOfNames
      <3>4. list \in Seq(ZoneNames) /\ UNCHANGED listing
        BY <1>1, <2>2, <3>3 DEF ForceAll
      <3> QED BY <1>1, <1>2, <3>1, <3>4
    <2> QED BY <2>1, <2>2
  <1>4. TypeOK'
    BY <1>1, <1>2, <1>3 DEF NotifyInv, TypeOK
  <1>5. NothingForgotten'
    BY <1>1 DEF NotifyInv, NothingForgotten, Listed
  <1> QED BY <1>1, <1>2, <1>3, <1>4, <1>5 DEF NotifyInv

\* A forced NOTIFY bumps the first of its zones, and has it to announce.
LEMMA ForceBumpKeeps ==
    ASSUME NotifyInv, NEW r \in Requests, ForceBump(r)
    PROVE  NotifyInv'
  <1>1. /\ UNCHANGED <<config, zones, queue, batch, sending, targets, attempt, tried, heard, dropped,
                       unanswered, used>>
        /\ zones \subseteq ZoneNames /\ forcing \in [Requests -> Seq(ZoneNames)] /\ version \in [Names -> Nat]
        /\ announce \in [Requests -> Seq(Names)] /\ listing \subseteq Requests
        /\ forcing[r] # <<>> /\ forcing[r] \in Seq(ZoneNames) /\ sending[r] = <<>>
        /\ forcing' = [forcing EXCEPT ![r] = Tail(@)]
        /\ listing' = IF Len(forcing[r]) = 1 THEN listing \cup {r} ELSE listing
    BY DEF ForceBump, outbox, client, results, NotifyInv, TypeOK
  <1>2. PICK h : /\ h = Head(forcing[r]) /\ h \in zones /\ version' = [version EXCEPT ![h] = @ + 1]
                 /\ announce' = [announce EXCEPT ![r] = Append(@, h)]
    BY Zenon DEF ForceBump
  <1>3. h \in Names /\ version' \in [Names -> Nat] /\ \A n \in Names : n # h => version'[n] = version[n]
    BY <1>1, <1>2 DEF Names
  <1>4. Append(announce[r], h) \in Seq(Names) /\ Range(Append(announce[r], h)) = Range(announce[r]) \cup {h}
    <2>0. announce[r] \in Seq(Names) /\ <<h>> \in Seq(Names)
      BY <1>1, <1>3
    <2>1. PICK s \in Seq(Names), t \in Seq(Names) : s = announce[r] /\ t = <<h>>
      BY <2>0, Zenon
    <2>2. Append(announce[r], h) = s \o t
      BY <2>1
    <2>3. s \o t \in Seq(Names) /\ Range(s \o t) = Range(s) \cup Range(t)
      BY RangeOfConcat
    <2>4. Range(t) = {h}
      BY <2>1 DEF Range
    <2> QED BY <2>1, <2>2, <2>3, <2>4, Zenon
  <1>5. /\ announce' \in [Requests -> Seq(Names)] /\ Range(announce'[r]) = Range(announce[r]) \cup {h}
        /\ \A q \in Requests : q # r => announce'[q] = announce[q]
    BY <1>1, <1>2, <1>4
  <1>6. Tail(forcing[r]) \in Seq(ZoneNames)
    BY <1>1, HeadAndTail
  <1>7. forcing' \in [Requests -> Seq(ZoneNames)] /\ \A q \in Requests : q # r => forcing'[q] = forcing[q]
    BY <1>1, <1>6
  <1>8. TypeOK'
    BY <1>1, <1>3, <1>5, <1>7 DEF NotifyInv, TypeOK
  <1>9. ASSUME NEW a, NEW n, Listed(a, n) \/ n = h PROVE Listed(a, n)'
    BY <1>1, <1>5, <1>9, Zenon DEF Listed
  <1>10. NothingForgotten'
    BY <1>1, <1>3, <1>9 DEF NotifyInv, NothingForgotten
  <1>11. \A q \in listing' : forcing'[q] = <<>>
    <2>1. r \in listing' => Len(forcing[r]) = 1
      BY <1>1 DEF NotifyInv
    <2>2. Len(forcing[r]) = 1 => forcing'[r] = <<>>
      BY <1>1
    <2>3. \A q \in listing' : q # r => q \in listing /\ q \in Requests
      BY <1>1
    <2> QED BY <1>7, <2>1, <2>2, <2>3 DEF NotifyInv
  <1> QED BY <1>1, <1>5, <1>7, <1>8, <1>10, <1>11 DEF NotifyInv

\* The zones are listed: what was bumped is among them, or is no zone any more.
LEMMA ListZonesKeeps ==
    ASSUME NotifyInv, NEW r \in Requests, ListZones(r)
    PROVE  NotifyInv'
  <1>1. /\ UNCHANGED <<config, zones, version, forcing, queue, batch, targets, attempt, tried, heard,
                       unanswered, used>>
        /\ announce \in [Requests -> Seq(Names)] /\ version \in [Names -> Nat] /\ zones \in SUBSET Names
        /\ dropped \in [Addresses -> [Names -> Nat]] /\ r \in listing /\ sending[r] = <<>>
        /\ listing \subseteq Requests /\ listing' = listing \ {r}
        /\ announce' = [announce EXCEPT ![r] = <<>>] /\ r \in Tasks /\ \A q \in Requests : q \in Tasks
    BY Zenon DEF ListZones, tables, outbox, NotifyInv, TypeOK, Names, Tasks
  <1>2. PICK list \in Orders(zones) : sending' = [sending EXCEPT ![r] = list]
    BY Zenon DEF ListZones
  <1>3. list \in Seq(zones) /\ Range(list) = zones
    BY <1>1, ListOfNames, Zenon
  <1>4. list \in Seq(Names)
    BY <1>1, <1>3
  <1>5. /\ sending' \in [Tasks -> Seq(Names)]
        /\ \A q \in Tasks : targets'[q] # {} => sending'[q] # <<>>
        /\ \A q \in Tasks : q # r => sending'[q] = sending[q]
        /\ \A a, n : n \in Range(list) => WillContact(sending'[r], targets'[r], a, n)
        /\ \A q \in Tasks : \A a, n : WillContact(sending[q], targets[q], a, n) =>
                                          WillContact(sending'[q], targets'[q], a, n)
    BY <1>1, <1>2, <1>4, StartsSending, Zenon
  <1>6. dropped' = [a \in Addresses |-> [n \in Names |->
            IF n \in Range(announce[r]) \ zones THEN version[n] ELSE dropped[a][n]]]
    BY Zenon DEF ListZones
  <1>7. /\ dropped' \in [Addresses -> [Names -> Nat]]
        /\ \A a \in Addresses, n \in Names :
              dropped'[a][n] = IF n \in Range(announce[r]) \ zones THEN version[n] ELSE dropped[a][n]
    BY <1>1, <1>6
  <1>8. /\ announce' \in [Requests -> Seq(Names)] /\ announce'[r] = <<>>
        /\ \A q \in Requests : q # r => announce'[q] = announce[q]
    BY <1>1
  <1>9. TypeOK'
    BY <1>1, <1>5, <1>7, <1>8 DEF NotifyInv, TypeOK
  <1>10. NothingForgotten'
    <2> SUFFICES ASSUME config.afterUpdate, NEW a \in Addresses, NEW n \in Names,
                        tried[a][n] < version[n], dropped'[a][n] < version[n]
                 PROVE  Listed(a, n)'
      BY <1>1 DEF NothingForgotten
    <2>1. version[n] \in Nat
      BY <1>1
    <2>2. dropped'[a][n] # version[n]
      BY <2>1
    <2>3. (n \in Range(announce[r]) => n \in zones) /\ dropped'[a][n] = dropped[a][n]
      BY <1>7, <2>2, Zenon
    <2>4. Listed(a, n)
      BY <2>3 DEF NotifyInv, NothingForgotten
    <2> QED BY <1>1, <1>3, <1>5, <1>8, <2>3, <2>4, Zenon DEF Listed
  <1>11. \A q \in Requests : announce'[q] # <<>> \/ forcing'[q] # <<>> \/ q \in listing' => sending'[q] = <<>>
    <2>1. forcing[r] = <<>>
      BY <1>1 DEF NotifyInv
    <2> QED BY <1>1, <1>5, <1>8, <2>1, Zenon DEF NotifyInv
  <1>12. \A q \in listing' : forcing'[q] = <<>>
    BY <1>1 DEF NotifyInv
  <1> QED BY <1>5, <1>9, <1>10, <1>11, <1>12 DEF NotifyInv

-----------------------------------------------------------------------------
(* The apply worker                                                        *)

\* A name moves from the queue to the batch.
LEMMA WorkerRecvKeeps ==
    ASSUME NotifyInv, WorkerRecv
    PROVE  NotifyInv'
  <1>1. /\ UNCHANGED <<config, zones, version, announce, forcing, listing, sending, targets, attempt,
                       tried, heard, dropped, unanswered, used>>
        /\ queue # <<>> /\ queue \in Seq(Names) /\ queue' = Tail(queue) /\ batch' = batch \cup {Head(queue)}
    BY DEF WorkerRecv, tables, client, results, NotifyInv, TypeOK
  <1>2. queue' \in Seq(Names) /\ Head(queue) \in Names /\ Range(queue) = {Head(queue)} \cup Range(queue')
    BY <1>1, HeadAndTail
  <1>3. TypeOK'
    BY <1>1, <1>2 DEF NotifyInv, TypeOK
  <1>4. ASSUME NEW a, NEW n, Listed(a, n) PROVE Listed(a, n)'
    BY <1>1, <1>2, <1>4, Zenon DEF Listed
  <1>5. NothingForgotten'
    BY <1>1, <1>4 DEF NotifyInv, NothingForgotten
  <1> QED BY <1>1, <1>3, <1>5 DEF NotifyInv

\* The batch and what is queued become the worker's list.
LEMMA WorkerFlushKeeps ==
    ASSUME NotifyInv, WorkerFlush
    PROVE  NotifyInv'
  <1>1. /\ UNCHANGED <<config, zones, version, announce, forcing, listing, targets, attempt,
                       tried, heard, dropped, unanswered, used>>
        /\ queue \in Seq(Names) /\ batch \subseteq Names /\ queue' = <<>> /\ batch' = {}
        /\ sending["worker"] = <<>> /\ "worker" \in Tasks /\ \A q \in Requests : q \in Tasks /\ q # "worker"
    BY NotifyAssumption DEF WorkerFlush, tables, results, NotifyInv, TypeOK, Tasks
  <1>2. PICK names : names = batch \cup Range(queue)
    BY Zenon
  <1>3. names \in SUBSET Names
    BY <1>1, <1>2 DEF Range
  <1>4. PICK list \in Orders(names) : sending' = [sending EXCEPT !["worker"] = list]
    BY <1>2, Zenon DEF WorkerFlush
  <1>5. list \in Seq(names) /\ Range(list) = names
    BY <1>3, ListOfNames
  <1>6. list \in Seq(Names)
    BY <1>3, <1>5
  <1>7. /\ sending' \in [Tasks -> Seq(Names)]
        /\ \A q \in Tasks : targets'[q] # {} => sending'[q] # <<>>
        /\ \A q \in Tasks : q # "worker" => sending'[q] = sending[q]
        /\ \A a, n : n \in Range(list) => WillContact(sending'["worker"], targets'["worker"], a, n)
        /\ \A q \in Tasks : \A a, n : WillContact(sending[q], targets[q], a, n) =>
                                          WillContact(sending'[q], targets'[q], a, n)
    BY <1>1, <1>4, <1>6, StartsSending, Zenon
  <1>8. TypeOK'
    BY <1>1, <1>7 DEF NotifyInv, TypeOK
  <1>9. ASSUME NEW a, NEW n, Listed(a, n) PROVE Listed(a, n)'
    BY <1>1, <1>2, <1>5, <1>7, <1>9, Zenon DEF Listed
  <1>10. NothingForgotten'
    BY <1>1, <1>9 DEF NotifyInv, NothingForgotten
  <1> QED BY <1>1, <1>7, <1>8, <1>10, Zenon DEF NotifyInv

-----------------------------------------------------------------------------
(* The NOTIFY client                                                       *)

\* A step of the client for one task: an address it is done with for the first
\* name was sent a NOTIFY, or its NOTIFY was dropped.
LEMMA ClientStepKeeps ==
    ASSUME NotifyInv, NEW t \in Tasks,
           UNCHANGED <<config, zones, version, announce, forcing, listing, queue, batch>>, used' \in Counts,
           NEW names \in Seq(Names), NEW positions \in SUBSET DOMAIN Secondaries, attempt' \in [Tasks -> Nat],
           sending' = [sending EXCEPT ![t] = names], targets' = [targets EXCEPT ![t] = positions],
           positions # {} => names # <<>>, sending[t] = <<>> => names = <<>>,
           tried' \in [Addresses -> [Names -> Nat]], heard' \in [Addresses -> [Names -> Nat]],
           dropped' \in [Addresses -> [Names -> Nat]], unanswered' \in [Addresses -> [Names -> Nat]],
           \A a \in Addresses, n \in Names :
               tried'[a][n] = version[n] \/ dropped'[a][n] = version[n] \/
               (tried'[a][n] = tried[a][n] /\ dropped'[a][n] = dropped[a][n] /\
                   (WillContact(sending[t], targets[t], a, n) => WillContact(names, positions, a, n)))
    PROVE  NotifyInv'
  <1>1. /\ sending \in [Tasks -> Seq(Names)] /\ targets \in [Tasks -> SUBSET DOMAIN Secondaries]
        /\ version \in [Names -> Nat]
    BY DEF NotifyInv, TypeOK
  <1>2. sending' \in [Tasks -> Seq(Names)] /\ targets' \in [Tasks -> SUBSET DOMAIN Secondaries]
    BY <1>1
  <1>3. /\ sending'[t] = names /\ targets'[t] = positions
        /\ \A q \in Tasks : q # t => sending'[q] = sending[q] /\ targets'[q] = targets[q]
    BY <1>1
  <1>4. TypeOK'
    BY <1>2 DEF NotifyInv, TypeOK
  <1>5. \A q \in Tasks : targets'[q] # {} => sending'[q] # <<>>
    BY <1>3 DEF NotifyInv
  <1>6. \A r \in Requests : sending[r] = <<>> => sending'[r] = <<>>
    BY <1>3 DEF Tasks
  <1>7. NothingForgotten'
    <2> SUFFICES ASSUME config.afterUpdate, NEW a \in Addresses, NEW n \in Names,
                        tried'[a][n] < version[n], dropped'[a][n] < version[n]
                 PROVE  Listed(a, n)'
      BY DEF NothingForgotten
    <2>0. tried'[a][n] \in Nat /\ dropped'[a][n] \in Nat /\ version[n] \in Nat
      BY <1>1
    <2>1. /\ tried'[a][n] = tried[a][n] /\ dropped'[a][n] = dropped[a][n]
          /\ WillContact(sending[t], targets[t], a, n) => WillContact(names, positions, a, n)
      <3>1. tried'[a][n] # version[n] /\ dropped'[a][n] # version[n]
        BY <2>0
      <3> QED BY <3>1, Zenon
    <2>2. Listed(a, n)
      BY <2>1 DEF NotifyInv, NothingForgotten
    <2>3. \A q \in Tasks : WillContact(sending[q], targets[q], a, n) => WillContact(sending'[q], targets'[q], a, n)
      BY <1>3, <2>1
    <2> QED BY <2>2, <2>3, Zenon DEF Listed
  <1> QED BY <1>4, <1>5, <1>6, <1>7 DEF NotifyInv

\* resolve_secondary_entries: the NOTIFY of an address that does not resolve is
\* dropped.
LEMMA ResolveKeeps ==
    ASSUME NotifyInv, NEW t \in Tasks, Resolve(t)
    PROVE  NotifyInv'
  <1>1. /\ UNCHANGED <<config, zones, version, announce, forcing, listing, queue, batch, attempt,
                       tried, heard, unanswered>>
        /\ sending \in [Tasks -> Seq(Names)] /\ targets \in [Tasks -> SUBSET DOMAIN Secondaries]
        /\ attempt \in [Tasks -> Nat] /\ version \in [Names -> Nat] /\ used \in Counts
        /\ tried \in [Addresses -> [Names -> Nat]] /\ heard \in [Addresses -> [Names -> Nat]]
        /\ dropped \in [Addresses -> [Names -> Nat]] /\ unanswered \in [Addresses -> [Names -> Nat]]
        /\ sending[t] # <<>> /\ targets[t] = {}
    BY Zenon DEF Resolve, tables, outbox, NotifyInv, TypeOK
  <1>2. PICK n0, rest : n0 = Head(sending[t]) /\ rest = Tail(sending[t])
    BY Zenon
  <1>3. n0 \in Names /\ rest \in Seq(Names) /\ Range(sending[t]) = {n0} \cup Range(rest)
    BY <1>1, <1>2, HeadAndTail
  <1>4. PICK failed \in SUBSET Addresses :
          LET resolved == {i \in DOMAIN Secondaries : Secondaries[i] \notin failed}
              n == Head(sending[t])
          IN /\ failed # {} => used.unresolved < config.unresolved
             /\ used' = IF failed = {} THEN used ELSE [used EXCEPT !.unresolved = @ + 1]
             /\ dropped' = [a \in Addresses |->
                    IF a \in failed THEN [dropped[a] EXCEPT ![n] = version[n]] ELSE dropped[a]]
             /\ targets' = [targets EXCEPT ![t] = resolved]
             /\ sending' = IF resolved = {} THEN [sending EXCEPT ![t] = Tail(@)] ELSE sending
    BY Zenon DEF Resolve
  <1>5. PICK resolved : resolved = {i \in DOMAIN Secondaries : Secondaries[i] \notin failed}
    BY Zenon
  <1>6. /\ used' = IF failed = {} THEN used ELSE [used EXCEPT !.unresolved = @ + 1]
        /\ dropped' = [a \in Addresses |-> IF a \in failed THEN [dropped[a] EXCEPT ![n0] = version[n0]] ELSE dropped[a]]
        /\ targets' = [targets EXCEPT ![t] = resolved]
        /\ sending' = IF resolved = {} THEN [sending EXCEPT ![t] = Tail(@)] ELSE sending
    BY <1>2, <1>4, <1>5, Zenon
  <1>7. used' \in Counts
    BY <1>1, <1>6, CountsUp, Zenon
  <1>8. PICK names : names = IF resolved = {} THEN rest ELSE sending[t]
    OBVIOUS
  <1>9. sending' = [sending EXCEPT ![t] = names] /\ names \in Seq(Names) /\ (resolved # {} => names # <<>>)
    BY <1>1, <1>2, <1>3, <1>6, <1>8, Zenon
  <1>10. dropped' \in [Addresses -> [Names -> Nat]]
    BY <1>1, <1>3, <1>6
  <1>11. ASSUME NEW a \in Addresses, NEW n \in Names, dropped'[a][n] # version[n]
         PROVE  /\ dropped'[a][n] = dropped[a][n]
                /\ WillContact(sending[t], targets[t], a, n) => WillContact(names, resolved, a, n)
    <2>1. a \in failed => n # n0
      BY <1>1, <1>3, <1>6, <1>11
    <2>2. dropped'[a][n] = dropped[a][n]
      BY <1>1, <1>3, <1>6, <2>1
    <2>3. ASSUME WillContact(sending[t], targets[t], a, n) PROVE WillContact(names, resolved, a, n)
      <3>1. n = n0 \/ n \in Range(rest)
        BY <1>1, <1>2, <2>3 DEF WillContact
      <3>2. PICK i \in DOMAIN Secondaries : Secondaries[i] = a
        BY DEF Addresses, Range
      <3>3. CASE resolved = {}
        <4>1. a \in failed
          BY <1>5, <3>2, <3>3
        <4>2. n \in Range(rest) /\ names = rest
          BY <1>8, <2>1, <3>1, <3>3, <4>1
        <4> QED BY <1>3, <3>3, <4>2, ContactsAll
      <3>4. CASE resolved # {}
        <4>1. names = sending[t] /\ (n = n0 => \E j \in resolved : Secondaries[j] = a)
          BY <1>5, <1>8, <2>1, <3>2, <3>4
        <4> QED BY <1>1, <1>2, <3>1, <4>1 DEF WillContact
      <3> QED BY <3>3, <3>4
    <2> QED BY <2>2, <2>3
  <1>12. resolved \in SUBSET DOMAIN Secondaries
    BY <1>5
  <1>13. \A a \in Addresses, n \in Names :
           tried'[a][n] = version[n] \/ dropped'[a][n] = version[n] \/
           (tried'[a][n] = tried[a][n] /\ dropped'[a][n] = dropped[a][n] /\
               (WillContact(sending[t], targets[t], a, n) => WillContact(names, resolved, a, n)))
    BY <1>1, <1>11, Zenon
  <1>14. /\ UNCHANGED <<config, zones, version, announce, forcing, listing, queue, batch>>
         /\ targets' = [targets EXCEPT ![t] = resolved] /\ heard' \in [Addresses -> [Names -> Nat]]
         /\ tried' \in [Addresses -> [Names -> Nat]] /\ unanswered' \in [Addresses -> [Names -> Nat]]
         /\ attempt' \in [Tasks -> Nat] /\ (sending[t] = <<>> => names = <<>>)
    BY <1>1, <1>6
  <1> QED BY <1>7, <1>9, <1>10, <1>12, <1>13, <1>14, ClientStepKeeps, Zenon

\* send_notify_to_server: one attempt at the first address.
LEMMA AttemptKeeps ==
    ASSUME NotifyInv, NEW t \in Tasks, Attempt(t)
    PROVE  NotifyInv'
  <1>1. /\ sending \in [Tasks -> Seq(Names)] /\ targets \in [Tasks -> SUBSET DOMAIN Secondaries]
        /\ attempt \in [Tasks -> Nat] /\ version \in [Names -> Nat] /\ used \in Counts
        /\ tried \in [Addresses -> [Names -> Nat]] /\ heard \in [Addresses -> [Names -> Nat]]
        /\ dropped \in [Addresses -> [Names -> Nat]] /\ unanswered \in [Addresses -> [Names -> Nat]]
    BY DEF NotifyInv, TypeOK
  <1>2. PICK i \in targets[t], received \in BOOLEAN, answered \in BOOLEAN :
          LET a == Secondaries[i]
              n == Head(sending[t])
              done == answered \/ attempt[t] + 1 >= Attempts
              last == targets[t] = {i}
          IN /\ \A j \in targets[t] : i <= j
             /\ answered => received
             /\ ~answered => used.losses < config.losses
             /\ used' = IF answered THEN used ELSE [used EXCEPT !.losses = @ + 1]
             /\ tried' = [tried EXCEPT ![a][n] = version[n]]
             /\ heard' = IF received THEN [heard EXCEPT ![a][n] = version[n]] ELSE heard
             /\ unanswered' = IF ~answered /\ attempt[t] = Retries
                                THEN [unanswered EXCEPT ![a][n] = version[n]] ELSE unanswered
             /\ targets' = IF done THEN [targets EXCEPT ![t] = @ \ {i}] ELSE targets
             /\ sending' = IF done /\ last THEN [sending EXCEPT ![t] = Tail(@)] ELSE sending
             /\ attempt' = [attempt EXCEPT ![t] = IF done THEN 0 ELSE @ + 1]
             /\ UNCHANGED <<tables, announce, forcing, listing, outbox, dropped>>
    BY Zenon DEF Attempt
  <1>3. PICK a0, n0, rest : a0 = Secondaries[i] /\ n0 = Head(sending[t]) /\ rest = Tail(sending[t])
    BY Zenon
  <1>4. PICK done \in BOOLEAN : done <=> answered \/ attempt[t] + 1 >= Attempts
    BY Zenon
  <1>5. PICK names, positions :
          /\ names = IF done /\ targets[t] = {i} THEN rest ELSE sending[t]
          /\ positions = IF done THEN targets[t] \ {i} ELSE targets[t]
    BY Zenon
  <1>6. /\ UNCHANGED <<config, zones, version, announce, forcing, listing, queue, batch, dropped>>
        /\ used' = IF answered THEN used ELSE [used EXCEPT !.losses = @ + 1]
        /\ tried' = [tried EXCEPT ![a0][n0] = version[n0]]
        /\ heard' = IF received THEN [heard EXCEPT ![a0][n0] = version[n0]] ELSE heard
        /\ unanswered' \in {unanswered, [unanswered EXCEPT ![a0][n0] = version[n0]]}
        /\ attempt' \in {[attempt EXCEPT ![t] = 0], [attempt EXCEPT ![t] = @ + 1]}
    BY <1>2, <1>3, Zenon DEF tables, outbox
  <1>7. targets' = [targets EXCEPT ![t] = positions]
    BY <1>1, <1>2, <1>4, <1>5, Zenon
  <1>8. sending' = [sending EXCEPT ![t] = names]
    BY <1>1, <1>2, <1>3, <1>4, <1>5, Zenon
  <1>9. attempt' \in [Tasks -> Nat]
    <2>1. CASE attempt' = [attempt EXCEPT ![t] = 0]
      BY <1>1, <2>1
    <2>2. CASE attempt' = [attempt EXCEPT ![t] = @ + 1]
      BY <1>1, <2>2
    <2> QED BY <1>6, <2>1, <2>2, Zenon
  <1>10. sending[t] # <<>> /\ i \in DOMAIN Secondaries /\ a0 \in Addresses
    BY <1>1, <1>3 DEF NotifyInv, Addresses, Range
  <1>11. n0 \in Names /\ rest \in Seq(Names)
    BY <1>1, <1>3, <1>10, HeadAndTail
  <1>12. /\ names \in Seq(Names) /\ positions \in SUBSET DOMAIN Secondaries /\ (positions # {} => names # <<>>)
    BY <1>1, <1>5, <1>10, <1>11
  <1>13. used' \in Counts
    BY <1>1, <1>6, CountsUp, Zenon
  <1>14. tried' \in [Addresses -> [Names -> Nat]] /\ heard' \in [Addresses -> [Names -> Nat]]
    BY <1>1, <1>6, <1>10, <1>11
  <1>15. unanswered' \in [Addresses -> [Names -> Nat]] /\ dropped' \in [Addresses -> [Names -> Nat]]
    <2>1. CASE unanswered' = [unanswered EXCEPT ![a0][n0] = version[n0]]
      BY <1>1, <1>6, <1>10, <1>11, <2>1
    <2>2. CASE unanswered' = unanswered
      BY <1>1, <1>6, <2>2
    <2> QED BY <1>6, <2>1, <2>2, Zenon
  <1>16. ASSUME NEW a \in Addresses, NEW n \in Names, tried'[a][n] # version[n]
         PROVE  /\ tried'[a][n] = tried[a][n]
                /\ WillContact(sending[t], targets[t], a, n) => WillContact(names, positions, a, n)
    <2>1. a # a0 \/ n # n0
      BY <1>1, <1>6, <1>10, <1>11, <1>16
    <2>2. tried'[a][n] = tried[a][n]
      BY <1>1, <1>6, <1>10, <1>11, <2>1
    <2>3. ASSUME WillContact(sending[t], targets[t], a, n) PROVE WillContact(names, positions, a, n)
      <3>1. n \in Range(rest) \/ (n = n0 /\ \E j \in targets[t] : Secondaries[j] = a)
        BY <1>3, <2>3 DEF WillContact
      <3>2. CASE done /\ targets[t] = {i}
        <4>1. n \in Range(rest) /\ names = rest /\ positions = {}
          BY <1>3, <1>5, <2>1, <3>1, <3>2
        <4> QED BY <1>11, <4>1, ContactsAll
      <3>3. CASE ~(done /\ targets[t] = {i})
        <4>1. names = sending[t]
          BY <1>5, <3>3
        <4>2. n = n0 /\ n \notin Range(rest) => \E j \in positions : Secondaries[j] = a
          BY <1>3, <1>5, <2>1, <3>1
        <4> QED BY <1>3, <1>10, <3>1, <4>1, <4>2 DEF WillContact
      <3> QED BY <3>2, <3>3
    <2> QED BY <2>2, <2>3
  <1>17. \A a \in Addresses, n \in Names :
           tried'[a][n] = version[n] \/ dropped'[a][n] = version[n] \/
           (tried'[a][n] = tried[a][n] /\ dropped'[a][n] = dropped[a][n] /\
               (WillContact(sending[t], targets[t], a, n) => WillContact(names, positions, a, n)))
    BY <1>6, <1>16, Zenon
  <1>18. /\ UNCHANGED <<config, zones, version, announce, forcing, listing, queue, batch>>
         /\ sending[t] = <<>> => names = <<>>
    BY <1>6, <1>10
  <1> QED BY <1>7, <1>8, <1>9, <1>12, <1>13, <1>14, <1>15, <1>17, <1>18, ClientStepKeeps, Zenon

-----------------------------------------------------------------------------
(* The theorem                                                             *)

\* A restart drops what it does not list again.
LEMMA RestartKeeps ==
    ASSUME NotifyInv, Restart
    PROVE  NotifyInv'
  <1>1. /\ UNCHANGED <<config, zones, version, tried, heard, unanswered>> /\ used \in Counts
        /\ zones \in SUBSET Names /\ version \in [Names -> Nat] /\ dropped \in [Addresses -> [Names -> Nat]]
        /\ queue' = <<>> /\ batch' = {} /\ attempt' = [t \in Tasks |-> 0] /\ targets' = [t \in Tasks |-> {}]
        /\ announce' = [r \in Requests |-> <<>>] /\ forcing' = [r \in Requests |-> <<>>] /\ listing' = {}
        /\ used' = [used EXCEPT !.restarts = @ + 1]
    BY Zenon DEF Restart, tables, NotifyInv, TypeOK, Names
  <1>2. PICK list \in Orders(zones) :
          sending' = [t \in Tasks |-> IF t = "startup" /\ config.onStartup THEN list ELSE <<>>]
    BY Zenon DEF Restart
  <1>3. list \in Seq(zones) /\ Range(list) = zones
    BY <1>1, ListOfNames, Zenon
  <1>4. list \in Seq(Names)
    BY <1>1, <1>3
  <1>5. sending' \in [Tasks -> Seq(Names)] /\ \A r \in Requests : sending'[r] = <<>>
    BY <1>2, <1>4, NotifyAssumption DEF Tasks
  <1>6. used' \in Counts
    BY <1>1, CountsUp
  <1>7. dropped' = [a \in Addresses |-> [n \in Names |->
            IF config.onStartup /\ n \in zones THEN dropped[a][n] ELSE version[n]]]
    BY Zenon DEF Restart
  <1>8. /\ dropped' \in [Addresses -> [Names -> Nat]]
        /\ \A a \in Addresses, n \in Names : ~(config.onStartup /\ n \in zones) => dropped'[a][n] = version[n]
    BY <1>1, <1>7
  <1>9. TypeOK'
    BY <1>1, <1>5, <1>6, <1>8 DEF NotifyInv, TypeOK
  <1>10. NothingForgotten'
    <2> SUFFICES ASSUME NEW a \in Addresses, NEW n \in Names, dropped'[a][n] < version[n]
                 PROVE  Listed(a, n)'
      BY <1>1 DEF NothingForgotten
    <2>1. version[n] \in Nat
      BY <1>1
    <2>2. config.onStartup /\ n \in zones
      BY <1>8, <2>1
    <2>3. "startup" \in Tasks
      BY DEF Tasks
    <2>4. sending'["startup"] = list /\ targets'["startup"] = {}
      BY <1>1, <1>2, <2>2, <2>3
    <2>5. WillContact(sending'["startup"], targets'["startup"], a, n)
      BY <1>3, <1>4, <2>2, <2>4, ContactsAll
    <2> QED BY <2>3, <2>5, Zenon DEF Listed
  <1>11. \A t \in Tasks : targets'[t] = {}
    BY <1>1
  <1>12. \A r \in listing' : FALSE
    BY <1>1
  <1> QED BY <1>5, <1>9, <1>10, <1>11, <1>12, Zenon DEF NotifyInv

\* Every step keeps the invariant.
LEMMA NotifyNext == NotifyInv /\ [Next]_vars => NotifyInv'
  <1> SUFFICES ASSUME NotifyInv, [Next]_vars PROVE NotifyInv'
    OBVIOUS
  <1>1. ASSUME NEW r \in Requests, Write(r) PROVE NotifyInv'
    <2>1. ASSUME NEW z \in ZoneNames, ChangeZone(r, z) \/ CreateZone(r, z) \/ DeleteZone(r, z) PROVE NotifyInv'
      BY <2>1, WritesKeep
    <2>2. ASSUME NEW z \in ZoneNames, NEW to \in ZoneNames, RenameZone(r, z, to) PROVE NotifyInv'
      BY <2>2, WritesKeep
    <2>3. ASSUME NEW z \in ZoneNames, ForceOne(r, z) PROVE NotifyInv'
      <3>1. z \in Names
        BY DEF Names
      <3> QED BY <2>3, <3>1, NotifyKeeps, Zenon
    <2> QED BY <1>1, <2>1, <2>2, <2>3, NotifyKeeps, AllKeeps, Zenon DEF Write
  <1>2. ASSUME NEW r \in Requests, Continue(r) \/ Disconnect(r) PROVE NotifyInv'
    BY <1>2, AnnounceKeeps, ForceBumpKeeps, ListZonesKeeps, CutsKeep DEF Continue
  <1>3. ASSUME NEW t \in Tasks, Send(t) PROVE NotifyInv'
    BY <1>3, ResolveKeeps, AttemptKeeps DEF Send
  <1>4. CASE UNCHANGED vars
    BY <1>4 DEF vars, NotifyInv, TypeOK, NothingForgotten, Listed
  <1> QED BY <1>1, <1>2, <1>3, <1>4, WorkerRecvKeeps, WorkerFlushKeeps, RestartKeeps, Zenon DEF Next, Worker

\* A committed change of a zone stays on somebody's list, be it the request's, the
\* apply worker's or a NOTIFY client's, until every secondary was sent a NOTIFY or
\* that NOTIFY was dropped: by a failed look-up, by the end of the request that was
\* to send it (its client is gone, or a forced NOTIFY failed), or by a restart,
\* unless the start-up NOTIFY lists the zone again.
THEOREM NoAnnouncementIsForgotten == Spec => []NothingForgotten
  <1>1. Init => NotifyInv
    <2> SUFFICES ASSUME Init PROVE NotifyInv
      OBVIOUS
    <2>1. used \in Counts
      BY DEF Init, Counts
    <2>2. TypeOK
      BY <2>1 DEF Init, TypeOK, Zero
    <2>3. NothingForgotten
      BY DEF Init, NothingForgotten, Zero
    <2> QED BY <2>2, <2>3 DEF Init, NotifyInv
  <1>2. NotifyInv => NothingForgotten
    BY DEF NotifyInv
  <1> QED BY <1>1, <1>2, NotifyNext, PTL DEF Spec

-----------------------------------------------------------------------------
(* The status of a zone                                                    *)

\* What has been served at an address since the request began, the present serial
\* included, was a serial of the zone.
ServedInv ==
    /\ primary \in Nat \ {0}
    /\ serving \in [Servers -> Nat]
    /\ since \in [Servers -> SUBSET Nat]
    /\ \A a \in Servers : \A s \in since[a] : s > 0 /\ s <= primary
    /\ \A a \in Servers : serving[a] # 0 => serving[a] \in since[a]

AskingInv ==
    /\ asking \in [pc : {"idle", "resolve", "probe"}, serial : Nat]
    /\ asking.pc # "idle" => asking.serial > 0 /\ \A e \in Entries : report[e] = {}
    /\ asking.pc = "resolve" => \A e \in Entries : contacted[e] = {}

\* The probe t of the entry e has asked all addresses but those left, or has an
\* outcome: a serial that was served, or nothing after asking all of them.
ProbeOK(e, t) ==
    /\ t = [todo |-> t.todo, result |-> t.result]
    /\ \E l \in Lookups[e] :
          \/ /\ t.result = <<>> /\ t.todo \in Seq(Servers) /\ t.todo # <<>>
             /\ contacted[e] \cup Range(t.todo) = Range(l)
          \/ \E a, s : /\ t.result = <<a, s>>
                       /\ s = 0 => contacted[e] = Range(l)
                       /\ s # 0 => a \in Servers /\ s \in since[a]

ProbeInv ==
    /\ ServedInv /\ AskingInv
    /\ task = [e \in Entries |-> task[e]]
    /\ contacted = [e \in Entries |-> contacted[e]]
    /\ report = [e \in Entries |-> report[e]]
    /\ asking.pc = "probe" => \A e \in Entries : ProbeOK(e, task[e])
    /\ \A e \in Entries : \A r \in report[e] : r.visible # 0 \/ r.status = "in_sync" => r.address \in Servers
    /\ StatusTruthful

-----------------------------------------------------------------------------
\* The addresses of a sequence are its head and those of its tail.
LEMMA RangeOfTail ==
  ASSUME NEW s \in Seq(Servers), s # <<>>
  PROVE  /\ Head(s) \in Servers /\ Tail(s) \in Seq(Servers)
         /\ Range(s) = {Head(s)} \cup Range(Tail(s))
         /\ Len(s) > 1 => Tail(s) # <<>>
         /\ ~(Len(s) > 1) => Range(s) = {Head(s)}
  <1>1. Len(s) \in Nat /\ Len(s) > 0 /\ DOMAIN s = 1..Len(s) /\ \A i \in 1..Len(s) : s[i] \in Servers
    OBVIOUS
  <1>2. /\ Tail(s) \in Seq(Servers) /\ Len(Tail(s)) = Len(s) - 1 /\ DOMAIN Tail(s) = 1..(Len(s) - 1)
        /\ \A i \in 1..(Len(s) - 1) : Tail(s)[i] = s[i + 1]
    BY <1>1
  <1>3. Head(s) = s[1]
    OBVIOUS
  <1>4. ASSUME NEW x \in Range(s) PROVE x = Head(s) \/ x \in Range(Tail(s))
    <2>1. PICK i \in 1..Len(s) : x = s[i]
      BY <1>1 DEF Range
    <2>2. CASE i = 1
      BY <1>3, <2>1, <2>2
    <2>3. CASE i # 1
      <3>1. i - 1 \in 1..(Len(s) - 1) /\ (i - 1) + 1 = i
        BY <1>1, <2>1, <2>3
      <3> QED BY <1>2, <2>1, <3>1, Zenon DEF Range
    <2> QED BY <2>2, <2>3
  <1>5. Range(Tail(s)) \subseteq Range(s) /\ Head(s) \in Range(s)
    BY <1>1, <1>2, <1>3 DEF Range
  <1>6. ~(Len(s) > 1) => Range(Tail(s)) = {}
    BY <1>1, <1>2 DEF Range
  <1>7. Len(s) > 1 => Tail(s) # <<>>
    <2>1. Len(s) > 1 => 1 \in DOMAIN Tail(s)
      BY <1>1, <1>2
    <2>2. 1 \notin DOMAIN <<>>
      OBVIOUS
    <2> QED BY <2>1, <2>2, Zenon
  <1> QED BY <1>1, <1>2, <1>3, <1>4, <1>5, <1>6, <1>7

\* No addresses in the empty sequence.
LEMMA RangeOfEmpty == Range(<<>>) = {}
  BY DEF Range

\* An answer is 0 or the serial served.
LEMMA AnswersServed ==
  ASSUME NEW a, NEW serial \in Answers(a)
  PROVE  serial = 0 \/ (serial = serving[a] /\ serial # 0)
  <1>1. PICK r \in UdpExchange(a) : serial = ExtractSoaSerial(r)
    BY DEF Answers
  <1>2. CASE \E k \in {"nothing", "error", "truncated", "no SOA"} : r = [kind |-> k, serial |-> 0]
    <2>1. PICK k \in {"nothing", "error", "truncated", "no SOA"} : r = [kind |-> k, serial |-> 0]
      BY <1>2, Zenon
    <2>2. r.kind = k /\ k # "SOA"
      BY <2>1, ZenonT(30)
    <2> QED BY <1>1, <2>2, Zenon DEF ExtractSoaSerial
  <1>3. CASE \E s \in {serving[a]} \ {0} : r = [kind |-> "SOA", serial |-> s]
    <2>1. PICK s \in {serving[a]} \ {0} : r = [kind |-> "SOA", serial |-> s]
      BY <1>3
    <2>2. r.kind = "SOA" /\ r.serial = s
      BY <2>1
    <2> QED BY <1>1, <2>2, <2>1 DEF ExtractSoaSerial
  <1> QED BY <1>2, <1>3, Zenon DEF UdpExchange

-----------------------------------------------------------------------------
(* Invariance                                                              *)

\* The zone row is read: nothing has been asked or reported.
LEMMA ReadZoneKeeps ==
  ASSUME ProbeInv, ReadZone
  PROVE  ProbeInv'
  <1>1. ServedInv'
    BY DEF ProbeInv, ServedInv, ReadZone
  <1>2. AskingInv'
    BY DEF ProbeInv, ServedInv, AskingInv, ReadZone
  <1>3. StatusTruthful'
    BY DEF StatusTruthful, ReadZone
  <1> QED BY <1>1, <1>2, <1>3 DEF ProbeInv, ReadZone

\* Every entry that resolves gets a task with all of its addresses.
LEMMA SpawnProbesKeeps ==
  ASSUME ProbeInv, SpawnProbes
  PROVE  ProbeInv'
  <1>1. PICK r \in [Entries -> UNION {Lookups[e] : e \in Entries}] :
          /\ \A e \in Entries : r[e] \in Lookups[e]
          /\ task' = [e \in Entries |-> [todo |-> r[e], result |-> IF r[e] = <<>> THEN <<e, 0>> ELSE <<>>]]
    BY Zenon DEF SpawnProbes
  <1>2. /\ asking.pc = "resolve" /\ asking' = [asking EXCEPT !.pc = "probe"]
        /\ UNCHANGED <<primary, serving, report, since, contacted>>
    BY DEF SpawnProbes
  <1>3. ServedInv' /\ AskingInv'
    BY <1>2 DEF ProbeInv, ServedInv, AskingInv
  <1>4. ASSUME NEW e \in Entries PROVE ProbeOK(e, task[e])'
    <2>1. r[e] \in Lookups[e] /\ r[e] \in Seq(Servers) /\ contacted'[e] = {}
      BY <1>1, <1>2, ProbeAssumption DEF ProbeInv, AskingInv
    <2>2. CASE r[e] = <<>>
      <3>1. task'[e] = [todo |-> <<>>, result |-> <<e, 0>>]
        BY <1>1, <2>2
      <3>2. task'[e] = [todo |-> task'[e].todo, result |-> task'[e].result] /\ task'[e].result = <<e, 0>>
        BY <3>1
      <3>3. contacted'[e] = Range(r[e])
        BY <2>1, <2>2, RangeOfEmpty
      <3> QED BY <2>1, <3>1, <3>2, <3>3 DEF ProbeOK
    <2>3. CASE r[e] # <<>>
      <3>0. task'[e] = [todo |-> r[e], result |-> <<>>]
        BY <1>1, <2>3
      <3>1. /\ task'[e].todo = r[e] /\ task'[e].result = <<>>
            /\ task'[e] = [todo |-> task'[e].todo, result |-> task'[e].result]
        BY <3>0
      <3> QED BY <2>1, <2>3, <3>1 DEF ProbeOK
    <2> QED BY <2>2, <2>3
  <1>5. StatusTruthful'
    BY <1>2 DEF ProbeInv, AskingInv, StatusTruthful
  <1>6. task' = [e \in Entries |-> task'[e]]
    BY <1>1
  <1> QED BY <1>2, <1>3, <1>4, <1>5, <1>6 DEF ProbeInv

\* A write moves the zone on.
LEMMA AdvanceKeeps ==
  ASSUME ProbeInv, Advance
  PROVE  ProbeInv'
  <1>1. primary' = primary + 1 /\ UNCHANGED <<serving, asking, task, report, since, contacted>> /\ primary \in Nat
    BY DEF Advance, ProbeInv, ServedInv
  <1>2. ServedInv' /\ AskingInv'
    BY <1>1 DEF ProbeInv, ServedInv, AskingInv
  <1>3. \A e \in Entries : ProbeOK(e, task[e]) => ProbeOK(e, task[e])'
    BY <1>1 DEF ProbeOK
  <1>4. StatusTruthful'
    BY <1>1 DEF ProbeInv, AskingInv, StatusTruthful
  <1> QED BY <1>1, <1>2, <1>3, <1>4 DEF ProbeInv

\* A secondary transfers the zone or drops it: what was served before stays so.
LEMMA RefreshKeeps ==
  ASSUME ProbeInv, NEW b \in Servers, Refresh(b)
  PROVE  ProbeInv'
  <1>1. PICK s \in {0, primary} : serving' = [serving EXCEPT ![b] = s]
    BY Zenon DEF Refresh
  <1>2. /\ since' = [since EXCEPT ![b] = @ \cup ({serving'[b]} \ {0})]
        /\ UNCHANGED <<primary, asking, task, report, contacted>>
    BY DEF Refresh
  <1>3. /\ primary \in Nat \ {0} /\ serving \in [Servers -> Nat] /\ since \in [Servers -> SUBSET Nat]
        /\ \A a \in Servers : \A x \in since[a] : x > 0 /\ x <= primary
        /\ \A a \in Servers : serving[a] # 0 => serving[a] \in since[a]
    BY DEF ProbeInv, ServedInv
  <1>4. /\ serving'[b] = s /\ \A a \in Servers \ {b} : serving'[a] = serving[a] /\ since'[a] = since[a]
        /\ since'[b] = since[b] \cup ({s} \ {0})
        /\ serving' \in [Servers -> Nat] /\ since' \in [Servers -> SUBSET Nat]
    BY <1>1, <1>2, <1>3
  <1>5. ServedInv'
    BY <1>2, <1>3, <1>4 DEF ServedInv
  <1>6. AskingInv'
    BY <1>2 DEF ProbeInv, AskingInv
  <1>7. \A a \in Servers : since[a] \subseteq since'[a]
    BY <1>4
  <1>8. \A e \in Entries : ProbeOK(e, task[e]) => ProbeOK(e, task[e])'
    BY <1>2, <1>7, Zenon DEF ProbeOK
  <1>9. StatusTruthful'
    <2>1. \A e \in Entries : \A r \in report[e] : r.visible # 0 \/ r.status = "in_sync" => since[r.address] \subseteq since'[r.address]
      BY <1>7 DEF ProbeInv
    <2> QED BY <1>2, <2>1 DEF ProbeInv, StatusTruthful
  <1> QED BY <1>2, <1>5, <1>6, <1>8, <1>9 DEF ProbeInv

\* One turn of probe_entry: an answer was served there, and a failure leaves the
\* next address to ask or is the last.
LEMMA ProbeEntryKeeps ==
  ASSUME ProbeInv, NEW d \in Entries, ProbeEntry(d)
  PROVE  ProbeInv'
  <1> DEFINE t == task[d]
             a == Head(t.todo)
  <1>1. PICK serial \in Answers(a) :
          task' = [task EXCEPT ![d] = IF serial = 0 /\ Len(t.todo) > 1 THEN [t EXCEPT !.todo = Tail(t.todo)]
                                      ELSE [t EXCEPT !.result = <<a, serial>>]]
    BY Zenon DEF ProbeEntry
  <1>2. /\ asking.pc = "probe" /\ t.result = <<>> /\ contacted' = [contacted EXCEPT ![d] = @ \cup {a}]
        /\ UNCHANGED <<primary, serving, asking, report, since>>
    BY DEF ProbeEntry
  <1>3. /\ task = [e \in Entries |-> task[e]] /\ contacted = [e \in Entries |-> contacted[e]]
        /\ \A e \in Entries : ProbeOK(e, task[e])
    BY <1>2 DEF ProbeInv
  <1>4. PICK l \in Lookups[d] : t.todo \in Seq(Servers) /\ t.todo # <<>> /\ contacted[d] \cup Range(t.todo) = Range(l)
    <2>1. \A x, y : <<x, y>> # <<>>
      OBVIOUS
    <2>2. ProbeOK(d, t)
      BY <1>3
    <2> HIDE DEF t
    <2> QED BY <1>2, <2>1, <2>2 DEF ProbeOK
  <1>13. t = [todo |-> t.todo, result |-> t.result]
    BY <1>3 DEF ProbeOK
  <1>5. /\ a \in Servers /\ Tail(t.todo) \in Seq(Servers)
        /\ Range(t.todo) = {a} \cup Range(Tail(t.todo))
        /\ Len(t.todo) > 1 => Tail(t.todo) # <<>>
        /\ ~(Len(t.todo) > 1) => Range(t.todo) = {a}
    BY <1>4, RangeOfTail
  <1>6. serial # 0 => serial \in since[a]
    BY <1>5, AnswersServed DEF ProbeInv, ServedInv
  <1>7. contacted'[d] = contacted[d] \cup {a} /\ \A e \in Entries \ {d} : contacted'[e] = contacted[e] /\ task'[e] = task[e]
    BY <1>1, <1>2, <1>3
  <1>8. ServedInv' /\ AskingInv'
    <2>1. AskingInv'
      BY <1>2 DEF ProbeInv, AskingInv
    <2> QED BY <1>2, <2>1 DEF ProbeInv, ServedInv
  <1>9. StatusTruthful' /\ \A e \in Entries : report'[e] = {}
    BY <1>2 DEF ProbeInv, AskingInv, StatusTruthful
  <1>10. ProbeOK(d, task[d])'
    <2>1. CASE serial = 0 /\ Len(t.todo) > 1
      <3>1. task' = [task EXCEPT ![d] = [t EXCEPT !.todo = Tail(t.todo)]]
        BY <1>1, <2>1, Zenon
      <3>2. /\ task'[d] = [todo |-> task'[d].todo, result |-> task'[d].result]
            /\ task'[d].todo = Tail(t.todo) /\ task'[d].result = <<>>
        <4>1. task'[d] = [t EXCEPT !.todo = Tail(t.todo)]
          BY <1>3, <3>1
        <4>2. [t EXCEPT !.todo = Tail(t.todo)] = [todo |-> Tail(t.todo), result |-> t.result]
          <5>1. \A f : t = [todo |-> t.todo, result |-> t.result] =>
                       [t EXCEPT !.todo = f] = [todo |-> f, result |-> t.result]
            OBVIOUS
          <5> QED BY <1>13, <5>1, Zenon
        <4> QED BY <1>2, <4>1, <4>2, Zenon
      <3>3. contacted'[d] \cup Range(Tail(t.todo)) = Range(l)
        BY <1>4, <1>5, <1>7, Zenon
      <3> QED BY <1>5, <2>1, <3>2, <3>3, Zenon DEF ProbeOK
    <2>2. CASE ~(serial = 0 /\ Len(t.todo) > 1)
      <3>1. task' = [task EXCEPT ![d] = [t EXCEPT !.result = <<a, serial>>]]
        BY <1>1, <2>2, Zenon
      <3>2. /\ task'[d] = [todo |-> task'[d].todo, result |-> task'[d].result]
            /\ task'[d].result = <<a, serial>>
        <4>1. task'[d] = [t EXCEPT !.result = <<a, serial>>]
          BY <1>3, <3>1
        <4>2. [t EXCEPT !.result = <<a, serial>>] = [todo |-> t.todo, result |-> <<a, serial>>]
          BY <1>13
        <4> QED BY <4>1, <4>2
      <3>3. serial = 0 => contacted'[d] = Range(l)
        BY <1>4, <1>5, <1>7, <2>2, Zenon
      <3> QED BY <1>2, <1>5, <1>6, <3>2, <3>3, Zenon DEF ProbeOK
    <2> QED BY <2>1, <2>2
  <1>11. ASSUME NEW e \in Entries \ {d} PROVE ProbeOK(e, task[e])'
    <2>1. ProbeOK(e, task[e]) /\ task'[e] = task[e] /\ contacted'[e] = contacted[e] /\ since' = since
      BY <1>2, <1>3, <1>7
    <2> QED BY <2>1, Zenon DEF ProbeOK
  <1>12. task' = [e \in Entries |-> task'[e]] /\ contacted' = [e \in Entries |-> contacted'[e]]
    BY <1>1, <1>2, <1>3, Zenon
  <1> QED BY <1>2, <1>8, <1>9, <1>10, <1>11, <1>12 DEF ProbeInv

\* from_probes: the report is of the outcomes.
LEMMA ReportKeeps ==
  ASSUME ProbeInv, Report
  PROVE  ProbeInv'
  <1>1. /\ asking.pc = "probe" /\ \A e \in Entries : task[e].result # <<>>
        /\ report' = [e \in Entries |->
              {[address |-> task[e].result[1], visible |-> task[e].result[2],
                status |-> Classify(task[e].result[2], asking.serial)]}]
        /\ asking' = [asking EXCEPT !.pc = "idle"]
        /\ task' = [e \in Entries |-> Pending]
        /\ UNCHANGED <<primary, serving, since, contacted>>
    BY DEF Report
  <1>2. ServedInv' /\ AskingInv' /\ asking'.serial = asking.serial /\ asking'.pc = "idle"
    BY <1>1 DEF ProbeInv, ServedInv, AskingInv
  <1>3. asking.serial \in Nat /\ asking.serial > 0
    BY <1>1 DEF ProbeInv, AskingInv
  <1>4. ASSUME NEW e \in Entries, NEW r \in report'[e]
        PROVE  /\ r.visible # 0 => r.visible \in since'[r.address]
               /\ r.status = "ahead" => primary' > asking'.serial
               /\ r.status = "in_sync" => asking'.serial \in since'[r.address]
               /\ r.status = "unreachable" => \E l \in Lookups[e] : contacted'[e] = Range(l)
               /\ r.visible # 0 \/ r.status = "in_sync" => r.address \in Servers
    <2>0. PICK l \in Lookups[e] : \E a, s :
             /\ task[e].result = <<a, s>>
             /\ s = 0 => contacted[e] = Range(l)
             /\ s # 0 => a \in Servers /\ s \in since[a]
      BY <1>1 DEF ProbeInv, ProbeOK
    <2>1. PICK a, s :
             /\ task[e].result = <<a, s>>
             /\ s = 0 => contacted[e] = Range(l)
             /\ s # 0 => a \in Servers /\ s \in since[a]
      BY <2>0, Zenon
    <2>2. task[e].result[1] = a /\ task[e].result[2] = s
      <3>1. task[e].result = <<a, s>>
        BY <2>1
      <3> QED BY <3>1
    <2>3. r.address = a /\ r.visible = s /\ r.status = Classify(s, asking.serial)
      BY <1>1, <2>2
    <2>4. s # 0 => s \in Nat /\ s > 0 /\ s <= primary /\ primary \in Nat
      BY <2>1 DEF ProbeInv, ServedInv
    <2>5. CASE s = 0
      <3>1. r.status = "unreachable"
        BY <2>3, <2>5 DEF Classify
      <3> QED BY <1>1, <2>1, <2>3, <2>5, <3>1
    <2>6. CASE s # 0
      <3>1. /\ r.status # "unreachable" /\ (r.status = "in_sync" => s = asking.serial)
            /\ r.status = "ahead" => s > asking.serial
        BY <1>3, <2>3, <2>4, <2>6 DEF Classify
      <3> QED BY <1>1, <1>2, <1>3, <2>1, <2>3, <2>4, <2>6, <3>1
    <2> QED BY <2>5, <2>6, Zenon
  <1>5. StatusTruthful'
    BY <1>4 DEF StatusTruthful
  <1> QED BY <1>1, <1>2, <1>4, <1>5 DEF ProbeInv

\* It holds throughout.
LEMMA ProbeInvariant == ProbeSpec => []ProbeInv
  <1>1. ProbeInit => ProbeInv
    <2> SUFFICES ASSUME ProbeInit PROVE ProbeInv
      OBVIOUS
    <2>1. ServedInv /\ AskingInv
      BY DEF ProbeInit, ServedInv, AskingInv
    <2> QED BY <2>1 DEF ProbeInit, ProbeInv, StatusTruthful
  <1>2. ProbeInv /\ [ProbeNext]_probeVars => ProbeInv'
    <2> SUFFICES ASSUME ProbeInv, [ProbeNext]_probeVars PROVE ProbeInv'
      OBVIOUS
    <2>1. CASE UNCHANGED probeVars
      <3>1. \A e \in Entries : ProbeOK(e, task[e]) => ProbeOK(e, task[e])'
        BY <2>1, Zenon DEF ProbeOK, probeVars
      <3>2. StatusTruthful'
        BY <2>1 DEF ProbeInv, StatusTruthful, probeVars
      <3> QED BY <2>1, <3>1, <3>2 DEF ProbeInv, ServedInv, AskingInv, probeVars
    <2> QED BY <2>1, ReadZoneKeeps, SpawnProbesKeeps, ReportKeeps, AdvanceKeeps, ProbeEntryKeeps, RefreshKeeps
        DEF ProbeNext
  <1> QED BY <1>1, <1>2, PTL DEF ProbeSpec

\* Whatever a status says of a secondary was so while it was made: a serial was
\* served at that address, "ahead" means the zone has moved on since its row was
\* read, and "unreachable" that all the addresses of the entry were asked.
THEOREM StatusIsTrue == ProbeSpec => []StatusTruthful
  <1>1. ProbeInv => StatusTruthful
    BY DEF ProbeInv
  <1> QED BY <1>1, ProbeInvariant, PTL
=============================================================================
