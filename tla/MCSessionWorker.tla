-------------------------- MODULE MCSessionWorker ---------------------------
(***************************************************************************)
(* Model values and message sets that instantiate SessionWorker for TLC.  *)
(* A message is a record: its type, how its length relates to the payload *)
(* struct (size), how it names the interface (iface, see NetActuator), the *)
(* address or route object, the interface index, the address family, the *)
(* number of addresses (n, 0 or 1 stands for addr_len = 0 or > 0) and the  *)
(* search domains.                                                         *)
(***************************************************************************)
EXTENDS SessionWorker, TLC

CONSTANTS s1, s2, o1, o2, i1, i2

Msg(type, size, iface, obj, idx, family, n, dom) ==
    [type |-> type, size |-> size, iface |-> iface, obj |-> obj, idx |-> idx,
     family |-> family, n |-> n, dom |-> dom]

\* A well-formed message of a type with default fields.
Req(type, iface) == Msg(type, "exact", iface, o1, i1, "v4", 1, <<>>)

\* Address and route requests naming the interface every way, one object.
MsgsRows ==
    {Msg(t, "exact", f, o1, i1, "v4", 1, <<>>) :
        t \in {"add_address", "del_address", "add_route", "del_route"},
        f \in {"index", "alias", "empty"}}

\* Every other request kind, the malformed ones among them.
MsgsOther ==
    {Req("flush_neighbors", "index"), Req("enable_dhcp", "index"),
     Req("set_mtu", "index"), Msg("set_mtu", "exact", "index", o1, i1, "v6", 1, <<>>),
     Req("register_ring_buffers", "index"), Req("register_dns", "index"),
     Req("add_wins_cfg", "alias"), Req("del_wins_cfg", "alias"),
     Req("add_wins_cfg", "unknown"), Req("add_wins_cfg", "empty"),
     Msg("add_wins_cfg", "exact", "alias", o1, i1, "v4", 0, <<>>),
     Req("bogus", "index"),
     Msg("add_address", "short", "alias", o1, i1, "v4", 1, <<>>),
     Msg("add_route", "mismatch", "alias", o1, i1, "v4", 1, <<>>),
     Msg("add_route", "oversize", "alias", o1, i1, "v4", 1, <<>>)}

\* Block requests, on the session's interface i1.
MsgsWfp == {Req("add_wfp_block", "index"), Req("del_wfp_block", "index")}

\* Address, route and block requests of one session.
MsgsRowsWfp == MsgsRows \cup MsgsWfp

\* Search domains "a" and "a,b"; SearchLists of the system built from x, y.
DomA == <<"a">>
DomAB == <<"a", ",", "b">>
MsgsDomains ==
    {Msg("add_dns_cfg", "exact", "alias", o1, i1, "v4", 0, d) : d \in {DomA, DomAB}}
    \cup {Msg("del_dns_cfg", "exact", "alias", o1, i1, "v4", 0, DomA),
          Msg("add_dns_cfg", "exact", "empty", o1, i1, "v4", 0, DomA),
          Msg("add_dns_cfg", "exact", "unknown", o1, i1, "v4", 0, DomA)}

\* Name server requests of both families.
MsgsServers ==
    {Msg(t, "exact", "alias", o1, i1, f, n, <<>>) :
        t \in {"add_dns_cfg", "del_dns_cfg"}, f \in Families, n \in {0, 1}}

\* Every other request kind and name servers of both families.
MsgsOtherServers == MsgsOther \cup MsgsServers

\* IPv6 name servers only.
MsgsServers6 ==
    {Msg("add_dns_cfg", "exact", "alias", o1, i1, "v6", 1, <<>>)}

\* A dns_cfg message of header size only: its payload is whatever the
\* stack held.
MsgsShortDns ==
    {Msg("add_dns_cfg", "short", "alias", o1, i1, "v4", 1, <<>>)}

\* Initial SearchList values: none, a list without domain characters,
\* "x" and "x,y".
ListsDisjoint == {NoValue, <<",">>, <<"x">>, <<"x", ",", "y">>}

\* A system list that already contains the suffix the engine pushes.
ListsOverlap == {<<"a", ",", "x">>}

ListsSystem == {<<"x">>}

MetricsSmall == {-1, 0, 5}

\* IPv4 or IPv6 without IP interface row, or a fixed metric.
MetricsNoAuto == {-1, 5}

=============================================================================
