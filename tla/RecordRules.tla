---------------------------- MODULE RecordRules ----------------------------
(***************************************************************************)
(* The rules a zone's records obey (bindizr-service/src/record/validation),*)
(* shared by every path that writes them.                                  *)
(***************************************************************************)

CONSTANTS
    Apex,     \* the owner name "@"
    NullMx    \* the rdata of a null MX (RFC 7505)

\* The same owner, type and canonical value; the TTL is not part of identity.
SameRdata(r, x) == r.name = x.name /\ r.type = x.type /\ r.value = x.value

\* Why an existing record x of the zone refuses the candidate r.
Conflicts(r, x) ==
    /\ r.name = x.name
    /\ \/ SameRdata(r, x)
       \/ r.type = "MX" /\ x.type = "MX" /\ NullMx \in {r.value, x.value}
       \/ "CNAME" \in {r.type, x.type}
       \/ r.type = x.type /\ r.ttl # x.ttl

\* validate_record_add_constraints_normalized.
Addable(existing, r) ==
    /\ r.type = "CNAME" => r.name # Apex
    /\ r.type = "NS" => r.name = Apex
    /\ \A x \in existing : ~Conflicts(r, x)

\* A list validated one by one, each against the survivors and the ones before
\* it. Conflicts is symmetric, so the order of the list does not matter.
AllAddable(existing, adds) == \A r \in adds : Addable(existing \cup (adds \ {r}), r)

IsApexNs(r) == r.type = "NS" /\ r.name = Apex

IsPrimaryNs(soa, r) == IsApexNs(r) /\ r.value = soa.primary_ns

\* validate_delete_constraints: SOA rows never enter the records table.
Deletable(soa, dels) == \A r \in dels : ~IsPrimaryNs(soa, r)
=============================================================================
