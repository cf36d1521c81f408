---------------------------- MODULE MCZoneStore ----------------------------
(***************************************************************************)
(* ZoneStore for TLC: two owner names, two name servers, two TTLs and a    *)
(* handful of requests chosen so that every record rule can be violated.   *)
(***************************************************************************)
EXTENDS ZoneDiff, TLC

CONSTANTS www, v1, nullmx, ns1, ns2, t1

MCOwners == {"@", www}

MCValues == {v1, nullmx, ns1, ns2}

Rr(name, type, value, ttl) == [name |-> name, type |-> type, value |-> value, ttl |-> ttl]

\* One address at two TTLs, an alias of the same name, a second apex NS and
\* a second TTL for the first; an ordinary and a null MX come in batches.
MCRequests ==
    {Rr(www, "A", v1, 1), Rr(www, "A", v1, 2), Rr(www, "CNAME", v1, 1),
     Rr("@", "NS", ns2, 1), Rr("@", "NS", ns1, 2)}

MCBatches ==
    {{Rr(www, "A", v1, 2)},
     {Rr(www, "CNAME", v1, 1)},
     {Rr("@", "MX", v1, 1), Rr("@", "NS", ns1, 2)},
     {Rr("@", "MX", nullmx, 1), Rr(www, "A", v1, 1)}}

=============================================================================
