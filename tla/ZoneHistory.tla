---------------------------- MODULE ZoneHistory ----------------------------
(***************************************************************************)
(* The loop that rebuilds an earlier record set (zone/history.rs), which   *)
(* ZoneStore states in closed form as RecordsAt.  The loop walks the log   *)
(* newest-first over a map from match keys to stacks of rows; the key      *)
(* leaves the TTL out, so undoing an ADD pops whatever row has the key.    *)
(***************************************************************************)
EXTENDS ZoneStore

MatchKey(r) == <<r.name, r.type, r.value>>

\* One row for each key at most, so a stack is a set with at most one row
\* unless the log is inconsistent; a pop of an empty stack is tolerated.
UndoAdd(state, r) == {x \in state : MatchKey(x) # MatchKey(r)}

UndoEntry(state, entry) ==
    CASE entry.op = "ADD" -> {x \in state : \A r \in entry.records : x \in UndoAdd(state, r)}
      [] entry.op = "DEL" -> state \cup entry.records
      [] entry.op = "SOA" -> state

\* Mutant of UndoLog: the rows of a serial are undone oldest-first.
UndoLogOldestFirst(state, log) ==
    LET undone[i \in 0..Len(log)] == IF i = 0 THEN state ELSE UndoEntry(undone[i - 1], log[i])
    IN  undone[Len(log)]

\* The rows of one serial, newest-first: undone[i] has those after the ith undone.
UndoLog(state, log) ==
    LET undone[i \in 0..Len(log)] ==
            IF i = Len(log) THEN state ELSE UndoEntry(undone[i + 1], log[i + 1])
    IN  undone[0]

ChangesOf(serial) == IF serial \in DOMAIN changes THEN changes[serial] ELSE <<>>

\* The changes in (serial, zone.serial], newest serial first.
ReconstructRecordsAtSerial(serial) ==
    LET at[s \in serial..zone.serial] ==
            IF s = zone.serial THEN records ELSE UndoLog(at[s + 1], ChangesOf(s + 1))
    IN  at[serial]

\* Undoing the log by match key gives, for every serial with a snapshot,
\* exactly the rows, TTLs included, that its oldest later entries found.
ReconstructionExact ==
    \A s \in DOMAIN snapshots : ReconstructRecordsAtSerial(s) = RecordsAt(s)

=============================================================================
