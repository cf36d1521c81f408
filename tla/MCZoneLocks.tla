---------------------------- MODULE MCZoneLocks ----------------------------
(* Instances of ZoneLocks: two zones 1 and 2 named 10 and 20, a record in   *)
(* each, and one policy of the scoped token per zone, granted for zone 2    *)
(* first.                                                                   *)
EXTENDS ZoneLocks, TLC

CONSTANTS r1, r2, r3

RequestSymmetry == Permutations(Requests)

TwoZones == (1 :> 10) @@ (2 :> 20)

OneRecordEach == (1 :> 1) @@ (2 :> 2)

PolicyPerZone == (1 :> 2) @@ (2 :> 1)

Writes == [kind : {"write"}, zone : {10}, scoped : BOOLEAN]

RecordOps == [kind : {"record"}, rid : {1}, delete : BOOLEAN, scoped : {TRUE}]

Externals == [kind : {"external"}, zones : {{10, 20}}, scoped : {TRUE}]

Renames == [kind : {"rename"}, zone : {10}, to : {5, 30}]
             \cup [kind : {"rename"}, zone : {20}, to : {5}]

Creates == [kind : {"create"}, to : {5}]

Deletes == [kind : {"delete"}, zone : {10, 20}]

Revocations == [kind : {"revoke"}, policy : {2}]

\* Everything but the deletion of the token.
AllButToken == Writes \cup RecordOps \cup Externals \cup Renames \cup Creates \cup Deletes \cup Revocations

FullWorkload == [r \in Requests |-> AllButToken \cup [kind : {"token"}]]

\* One rename, and writers of the other zone.
RenameWorkload ==
    [r \in Requests |-> IF r = r1 THEN [kind : {"rename"}, zone : {10}, to : {30}]
                                  ELSE [kind : {"write"}, zone : {20}, scoped : {FALSE}]]
=============================================================================
