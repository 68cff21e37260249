----------------------------- MODULE MC_Resolver -----------------------------
(* Zones for checking Resolver with TLC.  n0 is the name looked up.        *)
EXTENDS Resolver

CONSTANTS n0, n1, n2, n3

Rec(e, c, a, aaaa, ttl) == [exists |-> e, cname |-> c, a |-> a, aaaa |-> aaaa, ttl |-> ttl]
Absent == Rec(FALSE, NoName, <<>>, <<>>, 0)

\* n0 -> n1 -> n2: a chain adns refuses (a CNAME to a CNAME).
ZoneChain ==
    [n \in {n0, n1, n2, n3} |->
        CASE n = n0 -> Rec(TRUE, n1, <<>>, <<>>, 3)
          [] n = n1 -> Rec(TRUE, n2, <<>>, <<>>, 3)
          [] n = n2 -> Rec(TRUE, NoName, <<"a1", "a2">>, <<"x1">>, 2)
          [] OTHER  -> Absent]

\* The chain edited to go through n3, or through n2 to n1.
ZoneChainVia(a, b) ==
    [n \in {n0, n1, n2, n3} |->
        CASE n = n0 -> Rec(TRUE, a, <<>>, <<>>, 3)
          [] n = a  -> Rec(TRUE, b, <<>>, <<>>, 3)
          [] n = b  -> Rec(TRUE, NoName, <<"a1">>, <<"x1">>, 2)
          [] OTHER  -> Absent]

\* n0 with its own addresses, of both families.
ZoneFlat ==
    [n \in {n0, n1, n2, n3} |->
        CASE n = n0 -> Rec(TRUE, NoName, <<"a1">>, <<"x1">>, 2)
          [] OTHER  -> Absent]

\* n0 with A records only.
ZoneDirect ==
    [n \in {n0, n1, n2, n3} |->
        CASE n = n0 -> Rec(TRUE, NoName, <<"a2">>, <<>>, 3)
          [] OTHER  -> Absent]

\* n0 does not exist.
ZoneGone == [n \in {n0, n1, n2, n3} |-> Absent]

\* The zone is edited while a lookup runs.
MC_ZonesChanging == {ZoneChain, ZoneChainVia(n3, n2), ZoneChainVia(n2, n1), ZoneDirect, ZoneGone}
MC_ZonesChain == {ZoneChain}
MC_ZonesFlat == {ZoneFlat}
MC_ZonesGone == {ZoneGone}
============================================================================
