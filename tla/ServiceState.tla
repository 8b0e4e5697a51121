---------------------------- MODULE ServiceState ----------------------------
(***************************************************************************)
(* State shared by the components of the interactive service              *)
(* (src/src/openvpnserv/interactive.c): the constants that size a model,  *)
(* the per-session worker state, and the system state the workers change *)
(* on behalf of their engines (routing tables, WFP filters, interface     *)
(* metrics, DNS registry values, WINS servers, ring buffer mappings).     *)
(***************************************************************************)
EXTENDS Naturals, Integers, Sequences, FiniteSets, UndoLists, SearchList

CONSTANTS
    Sessions,      \* connected clients; session s also names its tun interface
    Ifaces,        \* interface indices a message may carry
    Objs,          \* identities of unicast addresses and routes
    Msgs,          \* the requests an engine may send
    MaxMsgs,       \* bound on the requests one engine sends
    Capacity,      \* characters of the WCHAR list[2048] buffer of AddDnsSearchDomains
    InitLists,     \* possible SearchList values at group policy / system scope
    MetricVals,    \* possible interface metrics at start (-1: family disabled, 0: automatic)
    BlockMetric,   \* WFP_BLOCK_IFACE_METRIC
    MayFail,       \* whether failing allocations and commands are explored
    MayCrash,      \* whether a crash and restart of the service is explored
    NoValue,       \* a registry value that does not exist
    NoMsg          \* nothing in an engine pipe

ASSUME /\ MaxMsgs \in Nat
       /\ Capacity \in Nat
       /\ MayFail \in BOOLEAN
       /\ MayCrash \in BOOLEAN
       /\ BlockMetric \notin MetricVals

Families == {"v4", "v6"}

\* Registry keys holding a SearchList: the group policy DNSClient key, the
\* system-wide TCPIP parameters key, and one interface key per tun adapter.
GlobalKeys == {"gpol", "system"}
RegKeys == GlobalKeys \cup Sessions

\* Error codes carried by an ack.
NO_ERROR == "NO_ERROR"
ERROR_MESSAGE_DATA == "ERROR_MESSAGE_DATA"
ERROR_MESSAGE_TYPE == "ERROR_MESSAGE_TYPE"
ERROR_OUTOFMEMORY == "ERROR_OUTOFMEMORY"
ERROR_FILE_NOT_FOUND == "ERROR_FILE_NOT_FOUND"
OsError == "os_error"   \* any native error code of a failing system call
Errors == {NO_ERROR, ERROR_MESSAGE_DATA, ERROR_MESSAGE_TYPE,
           ERROR_OUTOFMEMORY, ERROR_FILE_NOT_FOUND, OsError}

VARIABLES
    \* Session worker (RunOpenvpn)
    phase,        \* [Sessions -> {"startup","spawn","serve","teardown","done"}]
    child,        \* [Sessions -> state of the engine process]
    pipe,         \* [Sessions -> Msgs \cup {NoMsg}]: the engine-side message pipe
    sent,         \* [Sessions -> 0..MaxMsgs]: requests written by the engine
    ack,          \* [Sessions -> error code of the last ack, or "none"]
    lists,        \* [Sessions -> undo_lists_t]
    exitEvent,    \* the service-wide exit_event
    \* System state changed on behalf of engines
    addrs,        \* unicast IP address table (objects present)
    routes,       \* IP forward table (objects present)
    filters,      \* WFP filter sets installed, by engine handle
    nextEngine,   \* next engine handle add_wfp_block_filters returns
    metric,       \* [Ifaces -> [Families -> metric]]
    mtu,          \* [Ifaces -> [Families -> "default" | "set"]]
    dhcp,         \* interfaces switched to DHCP by netsh
    nameServer,   \* [Sessions -> [Families -> "" | "set"]]: NameServer values
    registry,     \* SearchList and InitialSearchList values
    wins,         \* [Sessions -> BOOLEAN]: WINS servers configured by netsh
    rings,        \* [Sessions -> SUBSET {"send","recv"}]: ring views mapped
    rdnsWaiting,  \* RegisterDNS threads waiting for rdns_semaphore
    rdnsHeld,     \* whether a RegisterDNS thread holds rdns_semaphore
    \* History, for the properties only
    addrs0,       \* address table before any session
    routes0,      \* forward table before any session
    metric0,      \* interface metrics before any session
    registry0     \* registry values before any session

workerVars == <<phase, child, pipe, sent, ack, lists, exitEvent>>
netVars == <<addrs, routes, mtu, dhcp>>
wfpVars == <<filters, nextEngine, metric>>
dnsVars == <<nameServer, registry>>
miscVars == <<wins, rings, rdnsWaiting, rdnsHeld>>
ghostVars == <<addrs0, routes0, metric0, registry0>>
vars == <<workerVars, netVars, wfpVars, dnsVars, miscVars, ghostVars>>

RegValues == Seq(STRING) \cup {NoValue}

\* undo_lists_t with the data each kind of record holds: address and route
\* rows naming their interface by index or LUID, block data, interface ids,
\* search domains with the interface alias, ring mappings, WINS names.
UndoListsType ==
    [address : Seq([form : {"index", "luid"}, obj : Objs]),
     route : Seq([form : {"index", "luid"}, obj : Objs]),
     wfp_block : Seq([engine : Nat, index : Ifaces,
                      v4 : MetricVals \cup {0, BlockMetric},
                      v6 : MetricVals \cup {0, BlockMetric}]),
     undo_dns4 : Seq(Sessions), undo_dns6 : Seq(Sessions),
     undo_domains : Seq([itf : Sessions, domains : Seq(STRING)]),
     undo_ring_buffer : Seq({"maps"}),
     undo_wins : Seq(Sessions)]

TypeOK ==
    /\ phase \in [Sessions -> {"startup", "spawn", "serve", "teardown", "done",
                                  "crashed"}]
    /\ child \in [Sessions -> {"none", "running", "exited", "failed", "killed"}]
    /\ pipe \in [Sessions -> Msgs \cup {NoMsg}]
    /\ sent \in [Sessions -> 0..MaxMsgs]
    /\ ack \in [Sessions -> Errors \cup {"none"}]
    /\ lists \in [Sessions -> UndoListsType]
    /\ exitEvent \in BOOLEAN
    /\ addrs \subseteq Objs /\ routes \subseteq Objs
    /\ filters \subseteq Nat /\ nextEngine \in Nat
    /\ metric \in [Ifaces -> [Families -> MetricVals \cup {BlockMetric}]]
    /\ mtu \in [Ifaces -> [Families -> {"default", "set"}]]
    /\ dhcp \subseteq Ifaces
    /\ nameServer \in [Sessions -> [Families -> {"", "set"}]]
    /\ registry.SearchList \in [RegKeys -> RegValues]
    /\ registry.InitialSearchList \in [RegKeys -> RegValues]
    /\ wins \in [Sessions -> BOOLEAN]
    /\ rings \in [Sessions -> SUBSET {"send", "recv"}]
    /\ rdnsWaiting \in Nat /\ rdnsHeld \in BOOLEAN

\* A family with no IP interface row on interface i: metric[i][f] = -1.
NoIpInterface(i, f) == metric[i][f] = -1

\* ack is how a handler returns its error to HandleMessage.
Reply(s, err) == ack' = [ack EXCEPT ![s] = err]

\* InterfaceLuid: utf8to16 of the name and ConvertInterfaceAliasToLuid,
\* which fails for a name that is no interface alias, the empty one too.
InterfaceLuid(iface) == IF iface = "alias" THEN NO_ERROR ELSE OsError

\* InterfaceIdString: the LUID of the alias, its GUID and the GUID as a
\* braced string; for the names of the model only the LUID can fail.
InterfaceIdString(iface) == InterfaceLuid(iface)

(***************************************************************************)
(* ExecCommand: _wcsdup and CreateProcessW, a wait of at most the timeout, *)
(* then the exit code; a command still running is killed and WAIT_TIMEOUT *)
(* returned.  The result is 0 only when the command ran and exited with 0  *)
(* (ok); a command that fails is taken to have changed nothing.            *)
(***************************************************************************)
ExecCommand(ok) == IF ok THEN NO_ERROR ELSE OsError

\* Replace the undo list of kind k of session s.
SetList(s, k, l) == lists' = [lists EXCEPT ![s][k] = l]

=============================================================================
