--------------------------- MODULE VersionedZone ---------------------------
(***************************************************************************)
(* What the zone store promises its readers, the snapshot API, rollback,   *)
(* AXFR and IXFR: a zone is a growing sequence of versions.  A version is  *)
(* published under the serial after the newest one, is never altered       *)
(* afterwards, and satisfies the rules of zone data; only deleting the     *)
(* whole zone takes versions away.                                         *)
(***************************************************************************)
EXTENDS Integers

CONSTANTS
    MaxSerial,  \* the last serial a zone can reach
    Version     \* the consistent zone contents: SOA metadata and record set

VARIABLE versions  \* serial -> version; no serial at all when there is no zone

Exists == DOMAIN versions # {}

IsNewest(s) == s \in DOMAIN versions /\ \A u \in DOMAIN versions : u <= s

Init == DOMAIN versions = {}

Create ==
    /\ ~Exists
    /\ \E s \in 1..MaxSerial : DOMAIN versions' = {s} /\ versions'[s] \in Version

Publish ==
    \E s \in DOMAIN versions :
        /\ IsNewest(s)
        /\ DOMAIN versions' = DOMAIN versions \cup {s + 1}
        /\ \A u \in DOMAIN versions : versions'[u] = versions[u]
        /\ versions'[s + 1] \in Version

Delete ==
    /\ Exists
    /\ DOMAIN versions' = {}

Next == Create \/ Publish \/ Delete

Spec == Init /\ [][Next]_versions

=============================================================================
