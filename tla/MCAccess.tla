------------------------------ MODULE MCAccess ------------------------------
(* A small instance: two zone names, two credential names, names at the    *)
(* apex, at "a", under "a" and at a label that only ends like "a".          *)
EXTENDS Access, TLC

MCFirstZone == <<"z">>

Symmetry == Permutations(Managers)

MCZoneNames == {<<"z">>, <<"y">>}

MCOwners == {<<>>, <<"a">>, <<"b", "a">>, <<"xa">>}

MCRequests ==
    {[name |-> <<"b", "a">>, type |-> "A", value |-> "v", ttl |-> 1],
     [name |-> <<"b", "a">>, type |-> "TXT", value |-> "v", ttl |-> 1]}

MCGrantable ==
    {[pattern |-> AnyName, types |-> {"A"}],
     [pattern |-> Under(<<"a">>), types |-> AnyType]}

Rr(name, type, class, ttl, rdata) ==
    [name |-> name, type |-> type, class |-> class, ttl |-> ttl, rdata |-> rdata]

Message(zone, key, secret, prerequisites, updates) ==
    [qdcount |-> 1, ztype |-> "SOA", zclass |-> "IN", truncated |-> FALSE, trailing |-> FALSE,
     zone |-> zone, prerequisites |-> prerequisites, updates |-> updates,
     additional |-> IF secret = 0 THEN <<>> ELSE <<"TSIG">>, key |-> key, secret |-> secret]

\* Additions, whole-name and single-record deletions, one update of two
\* operations, one with a prerequisite, one that does not decode.
Sections ==
    {[pre |-> <<>>, upd |-> <<Rr(<<"b", "a", "z">>, WholeName, "ANY", 0, NoRdata)>>],
     [pre |-> <<>>, upd |-> <<Rr(<<"xa", "z">>, "A", "IN", 1, "v"), Rr(<<"b", "a", "z">>, "TXT", "NONE", 0, "v")>>],
     [pre |-> <<Rr(<<"xa", "z">>, WholeName, "NONE", 0, NoRdata)>>, upd |-> <<Rr(<<"b", "a", "z">>, "A", "NONE", 0, "v")>>],
     [pre |-> <<>>, upd |-> <<Rr(<<"a", "z">>, "SOA", "IN", 1, "v")>>]}

MCMessages ==
    {Message(<<"z">>, "k", s, x.pre, x.upd) : s \in 0..2, x \in Sections}
      \cup {[Message(<<"z">>, "k", 1, <<>>, <<>>) EXCEPT !.qdcount = 2], Message(<<>>, "k", 1, <<>>, <<>>)}
=============================================================================
