---------------------------- MODULE NetActuator -----------------------------
(***************************************************************************)
(* Handlers of interactive.c that change the IP configuration: addresses,  *)
(* routes, neighbour flush, DHCP, MTU, and the registration of the wintun  *)
(* ring buffers.  Each handler is an action of session s for message m;    *)
(* it sets the ack error with Reply and leaves the variables of the other  *)
(* components to HandleMessage.  fail names the allocation or command     *)
(* that fails in this step ("none" when all succeed).                      *)
(*                                                                         *)
(* A message names its interface by m.iface:                               *)
(*   "index"   iface.index != -1                                           *)
(*   "alias"   iface.index == -1, iface.name is the session's tun alias    *)
(*   "unknown" iface.index == -1, iface.name matches no interface          *)
(*   "empty"   iface.index == -1, iface.name is ""                         *)
(***************************************************************************)
EXTENDS ServiceState

(***************************************************************************)
(* The row a handler builds: an address or route object and how the row    *)
(* names its interface (InterfaceIndex, InterfaceLuid, or neither).  Rows  *)
(* are compared with memcmp (CmpAddress, CmpRoute), so the same object     *)
(* named by index and by alias gives two different rows.                   *)
(***************************************************************************)
RowForm(m) == CASE m.iface = "index" -> "index"
                [] m.iface = "alias" -> "luid"
                [] m.iface = "empty" -> "none"
                [] OTHER             -> "unresolved"

\* Mutant: the new row is left in the table when AddListItem fails.
ChangeRowNoRollback(s, m, T, k, row, add, fail) ==
    \/ /\ add /\ row.obj \in T
       /\ Reply(s, OsError) /\ UNCHANGED <<T, lists>>
    \/ /\ add /\ row.obj \notin T /\ fail = "list"
       /\ T' = T \cup {row.obj}
       /\ Reply(s, ERROR_OUTOFMEMORY) /\ UNCHANGED lists
    \/ /\ add /\ row.obj \notin T /\ fail # "list"
       /\ T' = T \cup {row.obj}
       /\ SetList(s, k, AddListItem(lists[s][k], row))
       /\ Reply(s, NO_ERROR)
    \/ /\ ~add /\ row.obj \notin T
       /\ Reply(s, OsError) /\ UNCHANGED <<T, lists>>
    \/ /\ ~add /\ row.obj \in T
       /\ T' = T \ {row.obj}
       /\ SetList(s, k, RemoveListItem(lists[s][k], CmpEqual, row))
       /\ Reply(s, NO_ERROR)

(***************************************************************************)
(* The add/del part HandleAddressMessage and HandleRouteMessage share,     *)
(* over the system table T and undo list kind k.  Adding an object the     *)
(* table has fails (ERROR_OBJECT_ALREADY_EXISTS), deleting one it lacks    *)
(* fails (ERROR_NOT_FOUND).  When AddListItem fails the new row is deleted *)
(* again.  A successful delete unlinks the first identical row.            *)
(***************************************************************************)
ChangeRow(s, m, T, k, row, add, fail) ==
    \/ /\ add /\ row.obj \in T
       /\ Reply(s, OsError) /\ UNCHANGED <<T, lists>>
    \/ /\ add /\ row.obj \notin T /\ fail = "list"
       /\ Reply(s, ERROR_OUTOFMEMORY) /\ UNCHANGED <<T, lists>>
    \/ /\ add /\ row.obj \notin T /\ fail # "list"
       /\ T' = T \cup {row.obj}
       /\ SetList(s, k, AddListItem(lists[s][k], row))
       /\ Reply(s, NO_ERROR)
    \/ /\ ~add /\ row.obj \notin T
       /\ Reply(s, OsError) /\ UNCHANGED <<T, lists>>
    \/ /\ ~add /\ row.obj \in T
       /\ T' = T \ {row.obj}
       /\ SetList(s, k, RemoveListItem(lists[s][k], CmpEqual, row))
       /\ Reply(s, NO_ERROR)

(***************************************************************************)
(* HandleAddressMessage: malloc of the row, the interface (InterfaceLuid   *)
(* fails for an unknown or empty alias), then the add or delete.           *)
(***************************************************************************)
HandleAddressMessage(s, m, fail) ==
    LET row == [form |-> RowForm(m), obj |-> m.obj] IN
    /\ \/ /\ fail = "malloc"
          /\ Reply(s, ERROR_OUTOFMEMORY) /\ UNCHANGED <<addrs, lists>>
       \/ /\ fail # "malloc" /\ m.iface # "index"
          /\ InterfaceLuid(m.iface) # NO_ERROR
          /\ Reply(s, InterfaceLuid(m.iface)) /\ UNCHANGED <<addrs, lists>>
       \/ /\ fail # "malloc"
          /\ m.iface = "index" \/ InterfaceLuid(m.iface) = NO_ERROR
          /\ ChangeRow(s, m, addrs, "address", row, m.type = "add_address", fail)
    /\ UNCHANGED <<routes, mtu, dhcp>>

(***************************************************************************)
(* HandleRouteMessage: as for addresses, except that an empty alias leaves *)
(* the row without interface, which CreateIpForwardEntry2 and              *)
(* DeleteIpForwardEntry2 reject (ERROR_INVALID_PARAMETER).                 *)
(***************************************************************************)
HandleRouteMessage(s, m, fail) ==
    LET row == [form |-> RowForm(m), obj |-> m.obj] IN
    /\ \/ /\ fail = "malloc"
          /\ Reply(s, ERROR_OUTOFMEMORY) /\ UNCHANGED <<routes, lists>>
       \/ /\ fail # "malloc" /\ m.iface \notin {"index", "empty"}
          /\ InterfaceLuid(m.iface) # NO_ERROR
          /\ Reply(s, InterfaceLuid(m.iface)) /\ UNCHANGED <<routes, lists>>
       \/ /\ fail # "malloc" /\ m.iface = "empty"
          /\ Reply(s, OsError) /\ UNCHANGED <<routes, lists>>
       \/ /\ fail # "malloc"
          /\ m.iface = "index" \/ InterfaceLuid(m.iface) = NO_ERROR
          /\ ChangeRow(s, m, routes, "route", row, m.type = "add_route", fail)
    /\ UNCHANGED <<addrs, mtu, dhcp>>

\* DeleteAddress / DeleteRoute of every row of a list, as Undo does them;
\* a failing delete (the object is already gone) is ignored.
DeleteRows(T, list) == T \ {list[i].obj : i \in DOMAIN list}

(***************************************************************************)
(* HandleFlushNeighborsMessage: FlushIpNetTable(2) empties a neighbour     *)
(* cache, state no property reads; only its result is kept.                *)
(***************************************************************************)
HandleFlushNeighborsMessage(s, m) ==
    /\ \E err \in {NO_ERROR, OsError} : Reply(s, err)
    /\ UNCHANGED <<netVars, lists>>

(***************************************************************************)
(* HandleEnableDHCPMessage: malloc of the command line, then               *)
(* "netsh interface ipv4 set address name=<index> source=dhcp" run by      *)
(* ExecCommand with a 5 s timeout; any non-zero exit code is the error.    *)
(***************************************************************************)
HandleEnableDHCPMessage(s, m, fail) ==
    LET err == ExecCommand(fail # "command") IN
    /\ \/ /\ fail = "malloc"
          /\ Reply(s, ERROR_OUTOFMEMORY) /\ UNCHANGED dhcp
       \/ /\ fail # "malloc" /\ err # NO_ERROR
          /\ Reply(s, err) /\ UNCHANGED dhcp
       \/ /\ fail # "malloc" /\ err = NO_ERROR
          /\ dhcp' = dhcp \cup {m.idx}
          /\ Reply(s, NO_ERROR)
    /\ UNCHANGED <<addrs, routes, mtu, lists>>

(***************************************************************************)
(* HandleMTUMessage: GetIpInterfaceEntry fails when the family has no IP   *)
(* interface; otherwise NlMtu is written back with SetIpInterfaceEntry.    *)
(***************************************************************************)
HandleMTUMessage(s, m) ==
    /\ \/ /\ NoIpInterface(m.idx, m.family)
          /\ Reply(s, OsError) /\ UNCHANGED mtu
       \/ /\ ~NoIpInterface(m.idx, m.family)
          /\ mtu' = [mtu EXCEPT ![m.idx][m.family] = "set"]
          /\ Reply(s, NO_ERROR)
    /\ UNCHANGED <<addrs, routes, dhcp, lists>>

(***************************************************************************)
(* HandleRegisterRingBuffers: the previous mapping, if any, is taken off   *)
(* the undo list and unmapped (else a fresh one is calloc'ed); then the    *)
(* device, the two ring sections and the two events are duplicated from    *)
(* the engine process, the sections mapped, the rings registered with the  *)
(* driver and the mapping added to the undo list.  Any failure unmaps and  *)
(* frees the mapping.  fail = "register" stands for a failing duplication, *)
(* mapping or IOCTL.                                                       *)
(***************************************************************************)
HandleRegisterRingBuffers(s, m, fail) ==
    LET old == lists[s]["undo_ring_buffer"]
        rest == RemoveListItem(old, CmpAny, NoValue)
    IN
    /\ \/ /\ old = <<>> /\ fail = "malloc"
          /\ Reply(s, ERROR_OUTOFMEMORY) /\ UNCHANGED <<rings, lists>>
       \/ /\ fail = "register" \/ (old # <<>> /\ fail = "malloc")
          /\ rings' = [rings EXCEPT ![s] = {}]
          /\ SetList(s, "undo_ring_buffer", rest)
          /\ Reply(s, OsError)
       \/ /\ fail = "list"
          /\ rings' = [rings EXCEPT ![s] = {}]
          /\ SetList(s, "undo_ring_buffer", rest)
          /\ Reply(s, ERROR_OUTOFMEMORY)
       \/ /\ fail \notin {"malloc", "register", "list"}
          /\ rings' = [rings EXCEPT ![s] = {"send", "recv"}]
          /\ SetList(s, "undo_ring_buffer", AddListItem(rest, "maps"))
          /\ Reply(s, NO_ERROR)
    /\ UNCHANGED netVars

=============================================================================
