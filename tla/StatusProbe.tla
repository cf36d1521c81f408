----------------------------- MODULE StatusProbe -----------------------------
(***************************************************************************)
(* The status of a zone: its row is read, then every configured secondary  *)
(* is asked for the SOA serial it serves, while writers go on and the      *)
(* secondaries transfer.                                                   *)
(***************************************************************************)
EXTENDS Integers, Sequences, Functions

CONSTANTS
    Entries,        \* entries of secondary_addrs
    Lookups,        \* entry -> the address lists it may resolve to, <<>> for a failure
    Servers,        \* where secondaries listen
    MaxProbed       \* bound: the zone's highest serial

ASSUME ProbeAssumption ==
    /\ MaxProbed \in Nat
    /\ \A e \in Entries : \A l \in Lookups[e] : l \in Seq(Servers)

VARIABLES
    primary,   \* the zone row's serial
    serving,   \* address -> the serial served there, 0 for none
    asking,    \* the request: [pc, serial]
    task,      \* entry -> [todo, result]: probe_entry's remaining addresses and its outcome
    report,    \* entry -> what the last status said of it
    since,     \* history: address -> the serials served there since the request began
    contacted  \* history: entry -> addresses asked

probeVars == <<primary, serving, asking, task, report, since, contacted>>

Pending == [todo |-> <<>>, result |-> <<>>]

-----------------------------------------------------------------------------
(* The request                                                             *)

\* zone_status: the row is read first.
ReadZone ==
    /\ asking.pc = "idle"
    /\ asking' = [pc |-> "resolve", serial |-> primary]
    /\ since' = [a \in Servers |-> {serving[a]} \ {0}]
    /\ contacted' = [e \in Entries |-> {}]
    /\ report' = [e \in Entries |-> {}]
    /\ UNCHANGED <<primary, serving, task>>

\* probe_secondaries: an entry that does not resolve is reported at once, the
\* others get a task each.
SpawnProbes ==
    /\ asking.pc = "resolve"
    /\ asking' = [asking EXCEPT !.pc = "probe"]
    /\ \E r \in [Entries -> UNION {Lookups[e] : e \in Entries}] :
          /\ \A e \in Entries : r[e] \in Lookups[e]
          /\ task' = [e \in Entries |-> [todo |-> r[e], result |-> IF r[e] = <<>> THEN <<e, 0>> ELSE <<>>]]
    /\ UNCHANGED <<primary, serving, report, since, contacted>>

\* udp_exchange: what comes back from an address in time, if anything.
UdpExchange(a) ==
    {[kind |-> k, serial |-> 0] : k \in {"nothing", "error", "truncated", "no SOA"}}
      \cup {[kind |-> "SOA", serial |-> s] : s \in {serving[a]} \ {0}}

\* extract_soa_serial: 0 where the response is refused.
ExtractSoaSerial(response) == IF response.kind = "SOA" THEN response.serial ELSE 0

Answers(a) == {ExtractSoaSerial(r) : r \in UdpExchange(a)}

ProbeEntryOnce(e) ==
    /\ asking.pc = "probe" /\ task[e].result = <<>>
    /\ LET a == Head(task[e].todo) IN
       /\ contacted' = [contacted EXCEPT ![e] = @ \cup {a}]
       /\ \E serial \in Answers(a) : task' = [task EXCEPT ![e].result = <<a, serial>>]
    /\ UNCHANGED <<primary, serving, asking, report, since>>

\* One turn of probe_entry: the first answer ends it, a failure only at the last address.
ProbeEntry(e) ==
    /\ asking.pc = "probe" /\ task[e].result = <<>>
    /\ LET t == task[e]
           a == Head(t.todo)
       IN /\ contacted' = [contacted EXCEPT ![e] = @ \cup {a}]
          /\ \E serial \in Answers(a) :
                task' = [task EXCEPT ![e] =
                           IF serial = 0 /\ Len(t.todo) > 1 THEN [t EXCEPT !.todo = Tail(t.todo)]
                           ELSE [t EXCEPT !.result = <<a, serial>>]]
    /\ UNCHANGED <<primary, serving, asking, report, since>>

\* from_probes.
Classify(visible, serial) ==
    IF visible = 0 THEN "unreachable"
    ELSE CASE visible = serial -> "in_sync" [] visible < serial -> "lagging" [] OTHER -> "ahead"

Report ==
    /\ asking.pc = "probe" /\ \A e \in Entries : task[e].result # <<>>
    /\ report' = [e \in Entries |->
          {[address |-> task[e].result[1], visible |-> task[e].result[2],
            status |-> Classify(task[e].result[2], asking.serial)]}]
    /\ asking' = [asking EXCEPT !.pc = "idle"]
    /\ task' = [e \in Entries |-> Pending]
    /\ UNCHANGED <<primary, serving, since, contacted>>

-----------------------------------------------------------------------------
(* Writers and secondaries                                                 *)

Advance ==
    /\ primary < MaxProbed
    /\ primary' = primary + 1
    /\ UNCHANGED <<serving, asking, task, report, since, contacted>>

\* A secondary transfers the zone, or drops it when it expires.
Refresh(a) ==
    /\ \E s \in {0, primary} : serving' = [serving EXCEPT ![a] = s]
    /\ since' = [since EXCEPT ![a] = @ \cup ({serving'[a]} \ {0})]
    /\ UNCHANGED <<primary, asking, task, report, contacted>>

ProbeInit ==
    /\ primary = 1
    /\ serving = [a \in Servers |-> 0]
    /\ asking = [pc |-> "idle", serial |-> 0]
    /\ task = [e \in Entries |-> Pending]
    /\ report = [e \in Entries |-> {}]
    /\ since = [a \in Servers |-> {}]
    /\ contacted = [e \in Entries |-> {}]

ProbeNext ==
    \/ ReadZone \/ SpawnProbes \/ Report \/ Advance
    \/ \E e \in Entries : ProbeEntry(e)
    \/ \E a \in Servers : Refresh(a)

ProbeSpec == ProbeInit /\ [][ProbeNext]_probeVars

-----------------------------------------------------------------------------
(* Properties                                                              *)

\* What a status says of a secondary was so while it was made: the serial it
\* shows was served at that address then, a secondary is called ahead only when
\* the zone has moved on since its row was read, and unreachable only after every
\* address it resolved to was asked ("probing only the first would contradict
\* what propagates").
StatusTruthful ==
    \A e \in Entries : \A r \in report[e] :
        /\ r.visible # 0 => r.visible \in since[r.address]
        /\ r.status = "ahead" => primary > asking.serial
        /\ r.status = "in_sync" => asking.serial \in since[r.address]
        /\ r.status = "unreachable" => \E l \in Lookups[e] : contacted[e] = Range(l)
=============================================================================
