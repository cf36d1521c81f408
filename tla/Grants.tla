------------------------------- MODULE Grants -------------------------------
(***************************************************************************)
(* What a policy grants: the record-name patterns and record-type lists    *)
(* shared by the TSIG policies of nsupdate and the token policies of the   *)
(* HTTP API (policy_pattern). An owner name is the sequence of its labels  *)
(* relative to the zone, leaf first; the apex is the empty sequence.       *)
(***************************************************************************)
EXTENDS Integers, Sequences

\* The grammar of a stored pattern: '*', '@', '*.<name>' or an exact name.
AnyName == [form |-> "any", labels |-> <<>>]
ApexOnly == [form |-> "apex", labels |-> <<>>]
Under(labels) == [form |-> "under", labels |-> labels]
Exactly(labels) == [form |-> "exact", labels |-> labels]

\* The type list '*'.
AnyType == {"*"}

\* The scope of a write that touches every type at a name.
WholeName == "ANY"

\* OwnerName::is_same_or_under: label by label, from the end.
IsSameOrUnder(owner, other) ==
    /\ Len(other) <= Len(owner)
    /\ SubSeq(owner, Len(owner) - Len(other) + 1, Len(owner)) = other

PatternMatchesName(pattern, owner) ==
    CASE pattern.form = "any" -> TRUE
      [] pattern.form = "apex" -> owner = <<>>
      [] pattern.form = "under" -> IsSameOrUnder(owner, pattern.labels)
      [] pattern.form = "exact" -> owner = pattern.labels

\* A type-limited policy cannot cover a deletion of every type at a name.
TypesMatch(types, type) == types = AnyType \/ (type # WholeName /\ type \in types)

\* authorize_update and the test of authorize_with_policies: one policy covers
\* both the name and the type.
Covers(policies, owner, type) ==
    \E p \in policies : PatternMatchesName(p.pattern, owner) /\ TypesMatch(p.types, type)

\* authorize_record_writes_tx and authorize_key for a scoped credential: no
\* policy at all refuses even a request that resolves to no writes.
AuthorizeAll(policies, writes) ==
    /\ policies # {}
    /\ \A i \in DOMAIN writes : Covers(policies, writes[i].owner, writes[i].type)
=============================================================================
