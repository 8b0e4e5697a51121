----------------------------- MODULE DnsConfig ------------------------------
(***************************************************************************)
(* The DNS configuration manager of interactive.c: name servers and search *)
(* domains set by dns_cfg messages, WINS servers set by wins_cfg messages, *)
(* and the RegisterDNS threads.  The registry helpers are operators on the *)
(* registry state (a record of the SearchList and InitialSearchList values *)
(* of every key); HandleDNSConfigMessage and HandleWINSConfigMessage are   *)
(* actions.  Registry reads and writes of existing keys succeed; a value   *)
(* that is missing reads as an error, as RegGetValueW returns one.        *)
(* ApplyDnsSettings only notifies Windows and changes no state modelled.   *)
(***************************************************************************)
EXTENDS ServiceState

\* The HKEY GetDnsSearchListKey returns when none was found.
INVALID_HANDLE_VALUE == "INVALID_HANDLE_VALUE"

\* itf_name NULL, as CleanupRegistry passes it.
NoItf == "NULL"

(***************************************************************************)
(* GetDnsSearchListKey: the group policy key if it has a valid SearchList, *)
(* else the system key if it has one (have_list TRUE), else the interface  *)
(* key of itf (have_list FALSE), else none.                                *)
(***************************************************************************)
GetDnsSearchListKey(reg, itf) ==
    IF HasValidSearchList(reg.SearchList["gpol"], NoValue)
    THEN [key |-> "gpol", have_list |-> TRUE]
    ELSE IF HasValidSearchList(reg.SearchList["system"], NoValue)
    THEN [key |-> "system", have_list |-> TRUE]
    ELSE IF itf # NoItf
    THEN [key |-> itf, have_list |-> FALSE]
    ELSE [key |-> INVALID_HANDLE_VALUE, have_list |-> FALSE]

(***************************************************************************)
(* ResetDnsSearchDomains: SearchList := InitialSearchList and delete       *)
(* InitialSearchList; nothing when there is no InitialSearchList.          *)
(***************************************************************************)
ResetDnsSearchDomains(reg, key) ==
    IF reg.InitialSearchList[key] = NoValue THEN reg
    ELSE [reg EXCEPT !.SearchList[key] = reg.InitialSearchList[key],
                     !.InitialSearchList[key] = NoValue]

\* Mutant: the cleanup only looks at the group policy key.
CleanupRegistryGpolOnly(reg) ==
    IF HasValidSearchList(reg.SearchList["gpol"], NoValue)
    THEN ResetDnsSearchDomains(reg, "gpol") ELSE reg

(***************************************************************************)
(* CleanupRegistry at service start: ResetDnsSearchDomains on the key      *)
(* GetDnsSearchListKey finds with no interface, if any.                    *)
(***************************************************************************)
CleanupRegistry(reg) ==
    LET k == GetDnsSearchListKey(reg, NoItf) IN
    IF k.key = INVALID_HANDLE_VALUE THEN reg
    ELSE ResetDnsSearchDomains(reg, k.key)

(***************************************************************************)
(* RemoveDnsSearchDomains: cut the first occurrence of domains (and the    *)
(* comma before it) out of SearchList.  A non-empty result that is a       *)
(* prefix of InitialSearchList (wcsncmp over the result's length) resets   *)
(* the list; without an InitialSearchList nothing is written.              *)
(***************************************************************************)
RemoveDnsSearchDomains(reg, key, domains) ==
    LET list == reg.SearchList[key]
        at == WcsStr(list, domains)
        cut == CutDomains(list, at, Len(domains))
        initial == reg.InitialSearchList[key]
    IN IF list = NoValue THEN reg
       ELSE IF at = 0 THEN reg
       ELSE IF cut # <<>> /\ initial = NoValue THEN reg
       ELSE IF cut # <<>> /\ IsPrefix(cut, initial)
            THEN ResetDnsSearchDomains(reg, key)
       ELSE [reg EXCEPT !.SearchList[key] = cut]

(***************************************************************************)
(* StoreInitialDnsSearchList: keep the list as InitialSearchList unless    *)
(* one is stored already.  The list is never empty here: have_list means  *)
(* it holds a domain character.                                            *)
(***************************************************************************)
StoreInitialDnsSearchList(reg, key, list) ==
    IF reg.InitialSearchList[key] # NoValue THEN reg
    ELSE [reg EXCEPT !.InitialSearchList[key] = list]

(***************************************************************************)
(* AddDnsSearchDomains: with an existing list, store it as initial list,   *)
(* then append ",<domains>" if it fits into the buffer; without one, the   *)
(* domains become the list.  Result: success and the new registry.        *)
(***************************************************************************)
AddDnsSearchDomains(reg, key, have_list, domains) ==
    LET list == reg.SearchList[key]
        stored == StoreInitialDnsSearchList(reg, key, list)
    IN IF ~have_list
       THEN [ok |-> TRUE, reg |-> [reg EXCEPT !.SearchList[key] = domains]]
       ELSE IF ~Fits(list, domains, Capacity)
       THEN [ok |-> FALSE, reg |-> stored]
       ELSE [ok |-> TRUE,
             reg |-> [stored EXCEPT !.SearchList[key] = Appended(list, domains)]]

(***************************************************************************)
(* SetDnsSearchDomains for interface itf with undo list l: the previously  *)
(* added domains (head of undo_domains) are removed, then the new ones     *)
(* added and recorded.  utf8to16 or malloc failing (fail = "domains")      *)
(* return ERROR_OUTOFMEMORY after the removal; when adding or AddListItem  *)
(* (fail = "domains_list") fails, the domains are removed again.  Result:  *)
(* the error, the registry and the undo_domains list.                      *)
(***************************************************************************)
SetDnsSearchDomains(reg, l, itf, domains, fail) ==
    LET k == GetDnsSearchListKey(reg, itf)
        rest == RemoveListItem(l, CmpAny, NoValue)
        reg1 == IF l = <<>> THEN reg
                ELSE RemoveDnsSearchDomains(reg, k.key, Head(l).domains)
        added == AddDnsSearchDomains(reg1, k.key, k.have_list, domains)
    IN IF k.key = INVALID_HANDLE_VALUE
       THEN [err |-> ERROR_FILE_NOT_FOUND, reg |-> reg, l |-> l]
       ELSE IF domains = <<>>
       THEN [err |-> NO_ERROR, reg |-> reg1, l |-> rest]
       ELSE IF fail = "domains"
       THEN [err |-> ERROR_OUTOFMEMORY, reg |-> reg1, l |-> rest]
       ELSE IF ~added.ok \/ fail = "domains_list"
       THEN [err |-> ERROR_OUTOFMEMORY,
             reg |-> RemoveDnsSearchDomains(added.reg, k.key, domains),
             l |-> rest]
       ELSE [err |-> NO_ERROR, reg |-> added.reg,
             l |-> AddListItem(rest, [itf |-> itf, domains |-> domains])]

(***************************************************************************)
(* UndoDnsSearchDomains: remove the recorded domains from the list the key *)
(* lookup finds now.                                                       *)
(***************************************************************************)
UndoDnsSearchDomains(reg, data) ==
    LET k == GetDnsSearchListKey(reg, data.itf) IN
    IF k.key = INVALID_HANDLE_VALUE THEN reg
    ELSE RemoveDnsSearchDomains(reg, k.key, data.domains)

(***************************************************************************)
(* SetNameServersValue: GetInterfacesKey opens the Interfaces key of the   *)
(* family, RegOpenKeyExW the interface's key and RegSetValueExA writes     *)
(* NameServer; when any of them fails (ok = FALSE) the value is left as it *)
(* was and the error returned.  SetNameServers writes the joined list,     *)
(* ResetNameServers the empty string.                                      *)
(***************************************************************************)
SetNameServersValue(ns, s, f, value, ok) ==
    IF ok THEN [ns EXCEPT ![s][f] = value] ELSE ns

SetNameServers(ns, s, f, ok) == SetNameServersValue(ns, s, f, "set", ok)

\* Mutant: the reset leaves the value as it was.
ResetNameServersKept(ns, s, f, ok) == ns

ResetNameServers(ns, s, f, ok) == SetNameServersValue(ns, s, f, "", ok)

(***************************************************************************)
(* HandleDNSConfigMessage.  The undo list of the name servers is chosen    *)
(* with the families swapped: IPv6 servers are recorded in undo_dns4 and   *)
(* IPv4 ones in undo_dns6.  An empty interface name is rejected, an        *)
(* unknown one fails in InterfaceIdString.  With addresses, or for a del,  *)
(* the family's NameServer is reset (fail = "reset": the handler returns)  *)
(* and the head of the undo list freed; a del then removes the search     *)
(* domains if the message carries any.  Otherwise the addresses are        *)
(* written (m.n > 0; fail = "set": the handler returns) and recorded, and *)
(* the search domains set.  fail = "servers" is _wcsdup or AddListItem of *)
(* the record failing, which resets the NameServer again.                  *)
(***************************************************************************)
HandleDNSConfigMessage(s, m, fail) ==
    LET undo_type == IF m.family = "v6" THEN "undo_dns4" ELSE "undo_dns6"
        del == m.type = "del_dns_cfg"
        reset == m.n > 0 \/ del
        ns1 == IF reset THEN ResetNameServers(nameServer, s, m.family, TRUE)
               ELSE nameServer
        l1 == IF reset
              THEN [lists[s] EXCEPT ![undo_type] = RemoveListItem(@, CmpAny, NoValue)]
              ELSE lists[s]
        l2 == IF m.n > 0
              THEN [l1 EXCEPT ![undo_type] = AddListItem(@, s)] ELSE l1
        sd == SetDnsSearchDomains(registry, l2["undo_domains"], s,
                                  IF del THEN <<>> ELSE m.dom, fail)
    IN
    /\ \/ /\ m.iface \in {"index", "empty"}
          /\ Reply(s, ERROR_MESSAGE_DATA)
          /\ UNCHANGED <<nameServer, registry, lists>>
       \/ /\ m.iface \notin {"index", "empty"} /\ InterfaceIdString(m.iface) # NO_ERROR
          /\ Reply(s, InterfaceIdString(m.iface))
          /\ UNCHANGED <<nameServer, registry, lists>>
       \/ /\ m.iface = "alias" /\ reset /\ fail = "reset"
          /\ Reply(s, OsError)
          /\ UNCHANGED <<nameServer, registry, lists>>
       \/ /\ m.iface = "alias" /\ ~del /\ m.n > 0 /\ fail = "set"
          /\ nameServer' = SetNameServers(ns1, s, m.family, FALSE)
          /\ lists' = [lists EXCEPT ![s] = l1]
          /\ Reply(s, OsError)
          /\ UNCHANGED registry
       \/ /\ m.iface = "alias" /\ ~del /\ m.n > 0 /\ fail = "servers"
          /\ nameServer' = ResetNameServers(SetNameServers(ns1, s, m.family, TRUE),
                                            s, m.family, TRUE)
          /\ lists' = [lists EXCEPT ![s] = l1]
          /\ Reply(s, ERROR_OUTOFMEMORY)
          /\ UNCHANGED registry
       \/ /\ m.iface = "alias"
          /\ ~(reset /\ fail = "reset") /\ ~(~del /\ m.n > 0 /\ fail \in {"set", "servers"})
          /\ nameServer' = IF ~del /\ m.n > 0
                           THEN SetNameServers(ns1, s, m.family, TRUE) ELSE ns1
          /\ \/ /\ m.dom = <<>>
                /\ lists' = [lists EXCEPT ![s] = l2]
                /\ Reply(s, NO_ERROR)
                /\ UNCHANGED registry
             \/ /\ m.dom # <<>>
                /\ registry' = sd.reg
                /\ lists' = [lists EXCEPT ![s] = [l2 EXCEPT !["undo_domains"] = sd.l]]
                /\ Reply(s, sd.err)

(***************************************************************************)
(* netsh_wins_cmd: "netsh interface ip <action> wins <name> ..." run by     *)
(* ExecCommand with a 30 s timeout.  netsh fails for a name that is no     *)
(* interface; ok is FALSE when the command fails otherwise (the malloc of  *)
(* its command line, CreateProcess, a non-zero exit or the timeout).       *)
(***************************************************************************)
netsh_wins_cmd(iface, ok) == ExecCommand(iface = "alias" /\ ok)

\* Mutant: when recording the name fails the servers are not deleted.
HandleWINSConfigMessageNoCleanup(s, m, fail) ==
    LET del == m.type = "del_wins_cfg"
        named == m.iface \in {"alias", "unknown"} /\ fail # "malloc"
        delErr == netsh_wins_cmd(m.iface, fail # "command")
        setErr == netsh_wins_cmd(m.iface, fail # "wins_set")
        deleted == named /\ delErr = NO_ERROR
        l1 == RemoveListItem(lists[s]["undo_wins"], CmpEqual, s)
    IN
    /\ \/ /\ m.iface \in {"index", "empty"}
          /\ Reply(s, ERROR_MESSAGE_DATA) /\ UNCHANGED <<wins, lists>>
       \/ /\ m.iface \in {"alias", "unknown"} /\ fail = "malloc"
          /\ Reply(s, ERROR_OUTOFMEMORY) /\ UNCHANGED <<wins, lists>>
       \/ /\ named /\ m.n = 0 /\ ~del
          /\ Reply(s, NO_ERROR) /\ UNCHANGED <<wins, lists>>
       \/ /\ named /\ (m.n > 0 \/ del) /\ delErr # NO_ERROR
          /\ Reply(s, delErr) /\ UNCHANGED <<wins, lists>>
       \/ /\ deleted /\ (del \/ (m.n > 0 /\ setErr # NO_ERROR))
          /\ wins' = [wins EXCEPT ![s] = FALSE]
          /\ SetList(s, "undo_wins", l1)
          /\ Reply(s, IF del THEN NO_ERROR ELSE setErr)
       \/ /\ deleted /\ ~del /\ m.n > 0 /\ setErr = NO_ERROR /\ fail = "list"
          /\ wins' = [wins EXCEPT ![s] = TRUE]
          /\ SetList(s, "undo_wins", l1)
          /\ Reply(s, ERROR_OUTOFMEMORY)
       \/ /\ deleted /\ ~del /\ m.n > 0 /\ setErr = NO_ERROR /\ fail # "list"
          /\ wins' = [wins EXCEPT ![s] = TRUE]
          /\ SetList(s, "undo_wins", AddListItem(l1, s))
          /\ Reply(s, NO_ERROR)

(***************************************************************************)
(* HandleWINSConfigMessage.  An empty name is rejected; utf8to16 may fail  *)
(* (fail = "malloc").  With addresses, or for a del, "netsh ... delete     *)
(* all" runs first (fail = "command": it fails) and the record of the      *)
(* interface is freed; a del stops there.  The first address is then       *)
(* "set" (fail = "wins_set": its error is returned), the others "add"ed    *)
(* with errors ignored, and the name is recorded; when that fails          *)
(* (fail = "list") the servers are deleted again.                          *)
(***************************************************************************)
HandleWINSConfigMessage(s, m, fail) ==
    LET del == m.type = "del_wins_cfg"
        named == m.iface \in {"alias", "unknown"} /\ fail # "malloc"
        delErr == netsh_wins_cmd(m.iface, fail # "command")
        setErr == netsh_wins_cmd(m.iface, fail # "wins_set")
        deleted == named /\ delErr = NO_ERROR
        l1 == RemoveListItem(lists[s]["undo_wins"], CmpEqual, s)
    IN
    /\ \/ /\ m.iface \in {"index", "empty"}
          /\ Reply(s, ERROR_MESSAGE_DATA) /\ UNCHANGED <<wins, lists>>
       \/ /\ m.iface \in {"alias", "unknown"} /\ fail = "malloc"
          /\ Reply(s, ERROR_OUTOFMEMORY) /\ UNCHANGED <<wins, lists>>
       \/ /\ named /\ m.n = 0 /\ ~del
          /\ Reply(s, NO_ERROR) /\ UNCHANGED <<wins, lists>>
       \/ /\ named /\ (m.n > 0 \/ del) /\ delErr # NO_ERROR
          /\ Reply(s, delErr) /\ UNCHANGED <<wins, lists>>
       \/ /\ deleted /\ (del \/ (m.n > 0 /\ (setErr # NO_ERROR \/ fail = "list")))
          /\ wins' = [wins EXCEPT ![s] = FALSE]
          /\ SetList(s, "undo_wins", l1)
          /\ Reply(s, CASE del -> NO_ERROR
                        [] setErr # NO_ERROR -> setErr
                        [] OTHER -> ERROR_OUTOFMEMORY)
       \/ /\ deleted /\ ~del /\ m.n > 0 /\ setErr = NO_ERROR /\ fail # "list"
          /\ wins' = [wins EXCEPT ![s] = TRUE]
          /\ SetList(s, "undo_wins", AddListItem(l1, s))
          /\ Reply(s, NO_ERROR)

(***************************************************************************)
(* HandleRegisterDNSMessage: start a RegisterDNS thread, whose handle is   *)
(* closed at once and never joined.  CreateThread may fail.                *)
(***************************************************************************)
HandleRegisterDNSMessage(s, fail) ==
    \/ /\ fail = "thread"
       /\ Reply(s, OsError) /\ UNCHANGED rdnsWaiting
    \/ /\ fail # "thread"
       /\ rdnsWaiting' = rdnsWaiting + 1
       /\ Reply(s, NO_ERROR)

=============================================================================
