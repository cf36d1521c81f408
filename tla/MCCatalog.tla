----------------------------- MODULE MCCatalog -----------------------------
(* Instances of Catalog for TLC.                                           *)
EXTENDS Catalog

CONSTANTS s1, s2

\* a.b and a.c: no two of these share a member label.
PlainNames == {<<"a", ".", "b">>, <<"a", ".", "c">>}

\* a.b-c and a-b.c are both a-b-c below zones.catalog.bind.
CollidingNames == {<<"a", ".", "b", "-", "c">>, <<"a", "-", "b", ".", "c">>}
=============================================================================
