--------------------------- MODULE UpdateMessage ---------------------------
(***************************************************************************)
(* The RFC 2136 message as bindizr reads it: the checks of the parser, the *)
(* meaning of the prerequisite and update sections, the evaluation of the  *)
(* prerequisites and the effect of the operations on a zone's records.     *)
(* A name is the sequence of its labels, leaf first; rdata is a value,     *)
(* NoRdata for an empty field or BadRdata for one its type cannot read.    *)
(* Fallible steps return an rcode, "NOERROR" for success.                  *)
(***************************************************************************)
EXTENDS Integers, Sequences, Grants

CONSTANTS
    NoRdata,    \* rdata of length 0
    BadRdata,   \* rdata that does not parse as the type it is given for
    BadLabel,   \* a label with whitespace or control octets
    MaxTtl,     \* i32::MAX
    NullMx      \* the rdata of a null MX (RFC 7505)

\* The zone's record rules, on label sequences.
Rules == INSTANCE RecordRules WITH Apex <- <<>>

\* rr_type_to_record_type: SOA and everything else cannot be updated.
UpdatableTypes == {"A", "AAAA", "CNAME", "MX", "NS", "PTR", "SRV", "TXT"}

-----------------------------------------------------------------------------
(* The parser: nsupdate/parser                                             *)

\* parse_additional_section: a TSIG record is the last one, hence the only one.
TsigLast(additional) ==
    \A i \in DOMAIN additional : additional[i] = "TSIG" => i = Len(additional)

\* parse_update_request: one zone entry of type SOA and class IN, sections as
\* long as their counts and nothing after them.
ParseUpdateRequest(m) ==
    IF /\ m.qdcount = 1
       /\ m.ztype = "SOA" /\ m.zclass = "IN"
       /\ TsigLast(m.additional)
       /\ ~m.truncated /\ ~m.trailing
      THEN "NOERROR" ELSE "FORMERR"

Signed(m) == \E i \in DOMAIN m.additional : m.additional[i] = "TSIG"

-----------------------------------------------------------------------------
(* The sections: nsupdate/update                                           *)

\* rr_to_record_value: the type can be updated and its rdata reads to the end.
HasRecordValue(rr) == rr.type \in UpdatableTypes /\ rr.rdata \notin {NoRdata, BadRdata}

\* decode_prerequisite (RFC 2136, Section 2.4).
DecodablePrerequisite(rr) ==
    /\ rr.ttl = 0
    /\ \/ rr.class \in {"ANY", "NONE"} /\ rr.rdata = NoRdata /\ rr.type \in UpdatableTypes \cup {WholeName}
       \/ rr.class = "IN" /\ HasRecordValue(rr)

\* decode_update with validate_delete_shape (RFC 2136, Section 2.5).
DecodableUpdate(rr) ==
    \/ rr.class = "IN" /\ HasRecordValue(rr) /\ rr.ttl <= MaxTtl
    \/ rr.class = "ANY" /\ rr.ttl = 0 /\ rr.rdata = NoRdata /\ rr.type \in UpdatableTypes \cup {WholeName}
    \/ rr.class = "NONE" /\ rr.ttl = 0 /\ HasRecordValue(rr)

\* decode_prerequisites, then decode_updates.
Decode(m) ==
    IF /\ \A i \in DOMAIN m.prerequisites : DecodablePrerequisite(m.prerequisites[i])
       /\ \A i \in DOMAIN m.updates : DecodableUpdate(m.updates[i])
      THEN "NOERROR" ELSE "REFUSED"

-----------------------------------------------------------------------------
(* The effect: bindizr-service/src/dynamic_update                          *)

\* owner_in_zone and parse_absolute_in_zone: labels are checked first.
OwnerError(name, zone) ==
    IF name = <<>> THEN "NOTZONE"
    ELSE IF \E i \in DOMAIN name : name[i] = BadLabel THEN "REFUSED"
    ELSE IF ~IsSameOrUnder(name, zone) THEN "NOTZONE"
    ELSE "NOERROR"

\* strip_zone_suffix.
Owner(name, zone) == SubSeq(name, 1, Len(name) - Len(zone))

\* owner_exists: the apex always does.
OwnerExists(owner, rs) == owner = <<>> \/ \E r \in rs : r.name = owner

RrsetExists(owner, type, rs) == \E r \in rs : r.name = owner /\ r.type = type

\* One prerequisite of evaluate_against_records.
EvaluatePrerequisite(rr, zone, rs) ==
    LET owner == Owner(rr.name, zone)
        exists == IF rr.type = WholeName THEN OwnerExists(owner, rs) ELSE RrsetExists(owner, rr.type, rs)
    IN  IF OwnerError(rr.name, zone) # "NOERROR" THEN OwnerError(rr.name, zone)
        ELSE IF rr.class = "IN" THEN
               IF \E r \in rs : r.name = owner /\ r.type = rr.type /\ r.value = rr.rdata
                 THEN "NOERROR" ELSE "NXRRSET"
        ELSE IF (rr.class = "ANY") = exists THEN "NOERROR"
        ELSE CASE rr.class = "ANY" /\ rr.type = WholeName -> "NXDOMAIN"
               [] rr.class = "ANY" /\ rr.type # WholeName -> "NXRRSET"
               [] rr.class # "ANY" /\ rr.type = WholeName -> "YXDOMAIN"
               [] rr.class # "ANY" /\ rr.type # WholeName -> "YXRRSET"

\* The error of the first entry that has one.
FirstError(seq, Error(_)) ==
    IF \A i \in DOMAIN seq : Error(seq[i]) = "NOERROR" THEN "NOERROR"
    ELSE LET first == CHOOSE i \in DOMAIN seq :
                        Error(seq[i]) # "NOERROR" /\ \A j \in 1..(i - 1) : Error(seq[j]) = "NOERROR"
         IN  Error(seq[first])

EvaluatePrerequisites(m, rs) ==
    FirstError(m.prerequisites, LAMBDA rr : EvaluatePrerequisite(rr, m.zone, rs))

\* authorize_key for a scoped key: the owner of every update is resolved and
\* covered, in order.
AuthorizeKey(m, policies) ==
    IF policies = {} THEN "REFUSED"
    ELSE FirstError(m.updates, LAMBDA rr :
           IF OwnerError(rr.name, m.zone) # "NOERROR" THEN OwnerError(rr.name, m.zone)
           ELSE IF Covers(policies, Owner(rr.name, m.zone), rr.type) THEN "NOERROR" ELSE "REFUSED")

RecordOf(rr, zone) ==
    [name |-> Owner(rr.name, zone), type |-> rr.type, value |-> rr.rdata, ttl |-> rr.ttl]

\* The rows delete_matching selects: a whole name, an RRset or one record.
Matching(rr, zone, rs) ==
    {r \in rs : /\ r.name = Owner(rr.name, zone)
                /\ rr.type \in {WholeName, r.type}
                /\ rr.class = "NONE" => r.value = rr.rdata}

\* apply_op on an open transaction: an add that is already there (whatever its
\* TTL) and a deletion that matches nothing are no-ops.
ApplyOp(state, rr, zone, soa) ==
    LET error == OwnerError(rr.name, zone)
        added == RecordOf(rr, zone)
        gone == Matching(rr, zone, state.records)
        Refused(rcode) == [rcode |-> rcode, records |-> state.records]
        Written(records) == [rcode |-> "NOERROR", records |-> records]
    IN  IF state.rcode # "NOERROR" THEN state
        ELSE IF error # "NOERROR" THEN Refused(error)
        ELSE IF rr.class = "IN" THEN
               IF \E r \in state.records : Rules!SameRdata(added, r) THEN state
               ELSE IF ~Rules!Addable(state.records, added) THEN Refused("REFUSED")
               ELSE Written(state.records \cup {added})
        ELSE IF ~Rules!Deletable(soa, gone) THEN Refused("REFUSED")
        ELSE Written(state.records \ gone)

\* The loop over the operations, from the records of the zone.
ApplyOps(m, rs, soa) ==
    LET after[n \in 0..Len(m.updates)] ==
          IF n = 0 THEN [rcode |-> "NOERROR", records |-> rs]
          ELSE ApplyOp(after[n - 1], m.updates[n], m.zone, soa)
    IN  after[Len(m.updates)]

\* The body of DynamicUpdateService::apply after the zone is locked: policies
\* is the key's for the zone, unrestricted tells a global key or no key. The
\* transaction of an update that fails is rolled back.
ApplyUpdate(m, rs, unrestricted, policies, soa) ==
    LET authorized == IF unrestricted THEN "NOERROR" ELSE AuthorizeKey(m, policies)
        met == EvaluatePrerequisites(m, rs)
        result == ApplyOps(m, rs, soa)
        Failed(rcode) == [rcode |-> rcode, records |-> rs]
    IN  IF authorized # "NOERROR" THEN Failed(authorized)
        ELSE IF met # "NOERROR" THEN Failed(met)
        ELSE IF result.rcode # "NOERROR" THEN Failed(result.rcode)
        ELSE result
=============================================================================
