----------------------------- MODULE MCTransfer -----------------------------
(***************************************************************************)
(* Transfer for TLC: one name server, one TTL and one record besides the   *)
(* apex NS, so that a serial's content is told apart by that record.       *)
(***************************************************************************)
EXTENDS Transfer, TLC

CONSTANTS www, v1, nullmx, ns1, n1, n2, t1

MCOwners == {"@", www}

MCValues == {v1, nullmx, ns1}

MCRequests == {[name |-> www, type |-> "A", value |-> v1, ttl |-> 1]}

MCBatches == {}

Symmetric == Permutations(Secondaries)

=============================================================================
