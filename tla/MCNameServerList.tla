------------------------- MODULE MCNameServerList ---------------------------
(***************************************************************************)
(* Address strings of the shortest and longest forms the conversions      *)
(* produce: "1.1.1.1" (7) and "255.255.255.255" (15) for IPv4; "::" (2),   *)
(* eight full groups (39) and the ISATAP form with a dotted IPv4 tail,     *)
(* "ffff:ffff:ffff:ffff:200:5efe:255.255.255.255" (44), for IPv6.  Each    *)
(* is written with its own letter so that a dropped or repeated address   *)
(* shows in the result.                                                    *)
(***************************************************************************)
EXTENDS NameServerList

Str(c, n) == [k \in 1 .. n |-> c]

IPv4Strings == {Str("a", 7), Str("b", 15)}

IPv6Strings == {Str("c", 2), Str("d", 39), Str("e", 44)}

FamilyStringsV4 == [v4 |-> IPv4Strings]

FamilyStrings == [v4 |-> IPv4Strings, v6 |-> IPv6Strings]

=============================================================================
