--------------------------- MODULE MCExternalDns ---------------------------
(***************************************************************************)
(* A zone and a subzone of it, one managed name in each, and one name of   *)
(* each zone other clients write to.                                       *)
(***************************************************************************)
EXTENDS ExternalDns

Z == <<"z">>
SubZ == <<"s", "z">>

MCZoneOrder == <<SubZ, Z>>

\* A policy for every name of the zone.
Policy(z, types) == [zone |-> z, names |-> {<<>>, <<"a">>, <<"b">>, <<"a", "s">>}, types |-> types]

\* One zone, both, and one with a policy for addresses only.
MCGrantChoices ==
    { {}, {Policy(Z, {"A", "CNAME"})}, {Policy(SubZ, {"A", "CNAME"}), Policy(Z, {"A", "CNAME"})},
      {Policy(SubZ, {"A", "CNAME"}), Policy(Z, {"A"})} }
MCManaged == {<<"a", "z">>, <<"a", "s", "z">>}

\* "V1" is another spelling of "v1"; "bad" does not parse.
MCEncoded == [s \in {"v1", "V1", "v2", "h"} |-> IF s = "V1" THEN "v1" ELSE s]

Ep(n, t, ttl, ts) == [name |-> n, type |-> t, ttl |-> ttl, targets |-> ts]

\* A TTL left to the zone and one configured; an address that becomes an alias;
\* an endpoint the provider refuses at once and a value only the server refuses.
MCDesiredSets ==
    { <<Ep(<<"a", "z">>, "A", 0, {"V1", "v2"}), Ep(<<"a", "s", "z">>, "A", 2, {"v1"})>>,
      <<Ep(<<"a", "z">>, "CNAME", 0, {"h"}), Ep(<<"a", "s", "z">>, "A", 1, {"v1", "v2"})>>,
      <<Ep(<<"a", "z">>, "CNAME", 0, {"h", "v1"})>>,
      <<Ep(<<"a", "z">>, "A", 0, {"bad"})>>,
      << >> }

Row(z, n, t, v, ttl) == [zone |-> z, name |-> n, type |-> t, value |-> v, ttl |-> ttl]

\* A managed name's address with a TTL of its own, one the parent zone holds of a
\* name the subzone serves, and records of a name and of a type the controller
\* does not manage, the latter also where it may want an alias.
MCForeignRows ==
    { Row(Z, <<"a">>, "A", "v1", 2), Row(SubZ, <<"a">>, "A", "v1", 1), Row(Z, <<"a", "s">>, "A", "v1", 1),
      Row(Z, <<"a">>, "MX", "m", 1), Row(Z, <<"b">>, "A", "v2", 1) }
=============================================================================
