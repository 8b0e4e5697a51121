--------------------------- MODULE SessionWorker ----------------------------
(***************************************************************************)
(* The session worker RunOpenvpn of interactive.c, one per connected      *)
(* client, with the engine process it starts: the message loop, the        *)
(* HandleMessage dispatch to the component handlers, the teardown that     *)
(* runs Undo, the service-wide exit_event, and the RegisterDNS threads     *)
(* sharing rdns_semaphore.  The engine is the environment: it writes a     *)
(* request whenever the previous one was read, and may exit at any time.  *)
(***************************************************************************)
EXTENDS NetActuator, WfpBlock, DnsConfig

\* Message types whose size HandleMessage compares with the payload struct.
SizeChecked == {"add_address", "del_address", "add_route", "del_route",
                "flush_neighbors", "add_wfp_block", "del_wfp_block",
                "enable_dhcp", "register_ring_buffers", "set_mtu"}

\* The failures a handler of message type t can meet, "none" for none.
FailPoints(t) ==
    LET points ==
          CASE t \in {"add_address", "del_address", "add_route", "del_route"}
                  -> {"malloc", "list"}
            [] t \in {"add_wfp_block", "del_wfp_block"} -> {"filters", "malloc", "list"}
            [] t \in {"add_dns_cfg", "del_dns_cfg"}
                  -> {"reset", "set", "servers", "domains", "domains_list"}
            [] t \in {"add_wins_cfg", "del_wins_cfg"}
                  -> {"malloc", "command", "wins_set", "list"}
            [] t = "enable_dhcp" -> {"malloc", "command"}
            [] t = "register_ring_buffers" -> {"malloc", "register", "list"}
            [] t = "register_dns" -> {"thread"}
            [] OTHER -> {}
    IN {"none"} \cup (IF MayFail THEN points ELSE {})

Init ==
    /\ phase = [s \in Sessions |-> "startup"]
    /\ child = [s \in Sessions |-> "none"]
    /\ pipe = [s \in Sessions |-> NoMsg]
    /\ sent = [s \in Sessions |-> 0]
    /\ ack = [s \in Sessions |-> "none"]
    /\ lists = [s \in Sessions |-> EmptyLists]
    /\ exitEvent = FALSE
    /\ addrs \in SUBSET Objs /\ routes \in SUBSET Objs
    /\ filters = {} /\ nextEngine = 1
    /\ metric \in [Ifaces -> [Families -> MetricVals]]
    /\ mtu = [i \in Ifaces |-> [f \in Families |-> "default"]]
    /\ dhcp = {}
    /\ nameServer = [s \in Sessions |-> [f \in Families |-> ""]]
    /\ \E gl \in InitLists, sl \in InitLists :
          registry = [SearchList |-> [k \in RegKeys |->
                                        CASE k = "gpol" -> gl
                                          [] k = "system" -> sl
                                          [] OTHER -> NoValue],
                      InitialSearchList |-> [k \in RegKeys |-> NoValue]]
    /\ wins = [s \in Sessions |-> FALSE]
    /\ rings = [s \in Sessions |-> {}]
    /\ rdnsWaiting = 0 /\ rdnsHeld = FALSE
    /\ addrs0 = addrs /\ routes0 = routes
    /\ metric0 = metric /\ registry0 = registry

(***************************************************************************)
(* The switch of HandleMessage for a message that was read whole and whose *)
(* header size matches: the per-type size check (absent for register_dns,  *)
(* dns_cfg and wins_cfg), the handler, ERROR_MESSAGE_TYPE for an unknown   *)
(* type.                                                                   *)
(***************************************************************************)
Dispatch(s, m, fail) ==
    \/ /\ m.type \in SizeChecked /\ m.size = "short"
       /\ Reply(s, ERROR_MESSAGE_DATA)
       /\ UNCHANGED <<lists, netVars, wfpVars, dnsVars, miscVars>>
    \/ /\ m.type \in {"add_address", "del_address"} /\ m.size = "exact"
       /\ HandleAddressMessage(s, m, fail)
       /\ UNCHANGED <<wfpVars, dnsVars, miscVars>>
    \/ /\ m.type \in {"add_route", "del_route"} /\ m.size = "exact"
       /\ HandleRouteMessage(s, m, fail)
       /\ UNCHANGED <<wfpVars, dnsVars, miscVars>>
    \/ /\ m.type = "flush_neighbors" /\ m.size = "exact"
       /\ HandleFlushNeighborsMessage(s, m)
       /\ UNCHANGED <<wfpVars, dnsVars, miscVars>>
    \/ /\ m.type \in {"add_wfp_block", "del_wfp_block"} /\ m.size = "exact"
       /\ HandleWfpBlockMessage(s, m, fail)
       /\ UNCHANGED <<dnsVars, miscVars>>
    \/ /\ m.type = "register_dns"
       /\ HandleRegisterDNSMessage(s, fail)
       /\ UNCHANGED <<lists, netVars, wfpVars, dnsVars, wins, rings, rdnsHeld>>
    \/ /\ m.type \in {"add_dns_cfg", "del_dns_cfg"}
       /\ HandleDNSConfigMessage(s, m, fail)
       /\ UNCHANGED <<netVars, wfpVars, miscVars>>
    \/ /\ m.type \in {"add_wins_cfg", "del_wins_cfg"}
       /\ HandleWINSConfigMessage(s, m, fail)
       /\ UNCHANGED <<netVars, wfpVars, dnsVars, rings, rdnsWaiting, rdnsHeld>>
    \/ /\ m.type = "enable_dhcp" /\ m.size = "exact"
       /\ HandleEnableDHCPMessage(s, m, fail)
       /\ UNCHANGED <<wfpVars, dnsVars, miscVars>>
    \/ /\ m.type = "register_ring_buffers" /\ m.size = "exact"
       /\ HandleRegisterRingBuffers(s, m, fail)
       /\ UNCHANGED <<wfpVars, dnsVars, wins, rdnsWaiting, rdnsHeld>>
    \/ /\ m.type = "set_mtu" /\ m.size = "exact"
       /\ HandleMTUMessage(s, m)
       /\ UNCHANGED <<wfpVars, dnsVars, miscVars>>
    \/ /\ m.type = "bogus"
       /\ Reply(s, ERROR_MESSAGE_TYPE)
       /\ UNCHANGED <<lists, netVars, wfpVars, dnsVars, miscVars>>

(***************************************************************************)
(* HandleMessage: read the message the peek announced; a read of another   *)
(* length or a header size that differs from it is acked with             *)
(* ERROR_MESSAGE_DATA, otherwise the message is dispatched.                *)
(***************************************************************************)
HandleMessage(s) ==
    LET m == pipe[s] IN
    /\ pipe' = [pipe EXCEPT ![s] = NoMsg]
    /\ \/ /\ m.size = "mismatch"
          /\ Reply(s, ERROR_MESSAGE_DATA)
          /\ UNCHANGED <<lists, netVars, wfpVars, dnsVars, miscVars>>
       \/ /\ m.size \in {"exact", "short"}
          /\ \E fail \in FailPoints(m.type) : Dispatch(s, m, fail)

(***************************************************************************)
(* The start of RunOpenvpn, from GetStartupData to DuplicateTokenEx and   *)
(* the stdin/stdout handles: bad startup data, options neither valid nor  *)
(* authorized, or a failing token, security descriptor or handle call     *)
(* ends the worker at out: with no engine; otherwise it goes on to create *)
(* the engine.  No handler ran, so there is nothing to undo.              *)
(***************************************************************************)
StartOpenvpn(s) ==
    /\ phase[s] = "startup"
    /\ \E next \in {"spawn", "done"} : phase' = [phase EXCEPT ![s] = next]
    /\ UNCHANGED <<child, pipe, sent, ack, lists, exitEvent, netVars, wfpVars,
                   dnsVars, miscVars, ghostVars>>

(***************************************************************************)
(* The rest of the startup: the engine's message pipe (CreateNamedPipe,    *)
(* CreateFile, SetNamedPipeHandleState), the command line, the             *)
(* environment block and CreateProcessAsUser; a failure of any ends the   *)
(* worker with no engine.  When RevertToSelf fails the new engine is       *)
(* terminated.  Otherwise ReturnProcessId writes the PID to the client    *)
(* (aborted by exit_event), std_input is written to the engine's stdin    *)
(* and the message loop starts.                                            *)
(***************************************************************************)
CreateEngine(s) ==
    /\ phase[s] = "spawn"
    /\ \/ phase' = [phase EXCEPT ![s] = "serve"] /\ child' = [child EXCEPT ![s] = "running"]
       \/ phase' = [phase EXCEPT ![s] = "done"] /\ UNCHANGED child
       \/ phase' = [phase EXCEPT ![s] = "done"] /\ child' = [child EXCEPT ![s] = "killed"]
    /\ UNCHANGED <<pipe, sent, ack, lists, exitEvent, netVars, wfpVars, dnsVars,
                   miscVars, ghostVars>>

\* Mutant: the peek returns 0 only once the engine has closed the pipe,
\* exit_event is not waited for.
ServeLoopIgnoreExit(s) ==
    /\ phase[s] = "serve"
    /\ \/ /\ pipe[s] = NoMsg /\ child[s] # "running"
          /\ phase' = [phase EXCEPT ![s] = "teardown"]
          /\ UNCHANGED <<pipe, ack, lists, netVars, wfpVars, dnsVars, miscVars>>
       \/ /\ pipe[s] # NoMsg /\ pipe[s].size = "oversize"
          /\ phase' = [phase EXCEPT ![s] = "teardown"]
          /\ UNCHANGED <<pipe, ack, lists, netVars, wfpVars, dnsVars, miscVars>>
       \/ /\ pipe[s] # NoMsg /\ pipe[s].size # "oversize"
          /\ HandleMessage(s)
          /\ UNCHANGED phase
    /\ UNCHANGED <<child, sent, exitEvent, ghostVars>>

(***************************************************************************)
(* One turn of the loop of RunOpenvpn.  PeekNamedPipeAsync waits for the   *)
(* pipe or exit_event; the pipe event is handles[0], so a message waiting  *)
(* is announced even after exit_event is set.  It returns 0 when the pipe  *)
(* is empty and exit_event is set or the engine has closed its end, and    *)
(* the loop ends; so does a message longer than pipe_message_t.            *)
(***************************************************************************)
ServeLoop(s) ==
    /\ phase[s] = "serve"
    /\ \/ /\ pipe[s] = NoMsg /\ (exitEvent \/ child[s] # "running")
          /\ phase' = [phase EXCEPT ![s] = "teardown"]
          /\ UNCHANGED <<pipe, ack, lists, netVars, wfpVars, dnsVars, miscVars>>
       \/ /\ pipe[s] # NoMsg /\ pipe[s].size = "oversize"
          /\ phase' = [phase EXCEPT ![s] = "teardown"]
          /\ UNCHANGED <<pipe, ack, lists, netVars, wfpVars, dnsVars, miscVars>>
       \/ /\ pipe[s] # NoMsg /\ pipe[s].size # "oversize"
          /\ HandleMessage(s)
          /\ UNCHANGED phase
    /\ UNCHANGED <<child, sent, exitEvent, ghostVars>>

(***************************************************************************)
(* Undo: every list from its head, in the order of undo_type_t.  Deleting  *)
(* an address or route that is gone, or restoring a metric of a family     *)
(* without interface row, fails and is ignored.  The block metrics are     *)
(* restored on the interface recorded in the data.                         *)
(***************************************************************************)
UndoNameServers(ns, s, L) ==
    [ns EXCEPT ![s]["v4"] = IF L["undo_dns4"] # <<>> THEN "" ELSE @,
               ![s]["v6"] = IF L["undo_dns6"] # <<>> THEN "" ELSE @]

Undo(s) ==
    LET L == lists[s]
        blocks == L["wfp_block"]
    IN
    /\ addrs' = DeleteRows(addrs, L["address"])
    /\ routes' = DeleteRows(routes, L["route"])
    /\ filters' = filters \ {blocks[i].engine : i \in DOMAIN blocks}
    /\ metric' = FoldLeft(LAMBDA met, d : RestoreMetrics(met, d.index, d),
                          metric, blocks)
    /\ nameServer' = UndoNameServers(nameServer, s, L)
    /\ registry' = FoldLeft(LAMBDA reg, d : UndoDnsSearchDomains(reg, d),
                            registry, L["undo_domains"])
    /\ rings' = IF L["undo_ring_buffer"] # <<>>
                THEN [rings EXCEPT ![s] = {}] ELSE rings
    /\ wins' = IF L["undo_wins"] # <<>> THEN [wins EXCEPT ![s] = FALSE] ELSE wins
    /\ lists' = [lists EXCEPT ![s] = EmptyLists]

\* Mutant: an engine that exited with an error leaves RunOpenvpn through
\* "goto out" after ReturnError, skipping Undo.
CloseSessionReturnEarly(s) ==
    /\ phase[s] = "teardown"
    /\ phase' = [phase EXCEPT ![s] = "done"]
    /\ \/ child[s] = "failed" /\ UNCHANGED <<child, lists, netVars, wfpVars,
                                                dnsVars, miscVars>>
       \/ child[s] \notin {"running", "failed"} /\ UNCHANGED child /\ Undo(s)
       \/ child[s] = "running" /\ \E c \in {"exited", "failed", "killed"} :
                                     child' = [child EXCEPT ![s] = c]
          /\ Undo(s)
    /\ UNCHANGED <<pipe, sent, ack, exitEvent, mtu, dhcp, nextEngine,
                   rdnsWaiting, rdnsHeld, ghostVars>>

(***************************************************************************)
(* The end of RunOpenvpn: wait IO_TIMEOUT for the engine, terminate it if  *)
(* it is still active, then Undo.                                          *)
(***************************************************************************)
CloseSession(s) ==
    /\ phase[s] = "teardown"
    /\ phase' = [phase EXCEPT ![s] = "done"]
    /\ \/ child[s] # "running" /\ UNCHANGED child
       \/ child[s] = "running" /\ \E c \in {"exited", "failed", "killed"} :
                                     child' = [child EXCEPT ![s] = c]
    /\ Undo(s)
    /\ UNCHANGED <<pipe, sent, ack, exitEvent, mtu, dhcp, nextEngine,
                   rdnsWaiting, rdnsHeld, ghostVars>>

\* The engine writes a request once the worker has read the previous one.
EngineSend(s) ==
    /\ child[s] = "running" /\ pipe[s] = NoMsg /\ sent[s] < MaxMsgs
    /\ \E m \in Msgs : pipe' = [pipe EXCEPT ![s] = m]
    /\ sent' = [sent EXCEPT ![s] = @ + 1]
    /\ UNCHANGED <<phase, child, ack, lists, exitEvent, netVars, wfpVars,
                   dnsVars, miscVars, ghostVars>>

\* The engine exits, with exit code 0 or not, possibly before its last
\* request was read.
EngineExit(s) ==
    /\ child[s] = "running"
    /\ \E c \in {"exited", "failed"} : child' = [child EXCEPT ![s] = c]
    /\ UNCHANGED <<phase, pipe, sent, ack, lists, exitEvent, netVars, wfpVars,
                   dnsVars, miscVars, ghostVars>>

\* ServiceCtrlInteractive, SERVICE_CONTROL_STOP: SetEvent(exit_event).
ServiceStop ==
    /\ ~exitEvent
    /\ exitEvent' = TRUE
    /\ UNCHANGED <<phase, child, pipe, sent, ack, lists, netVars, wfpVars,
                   dnsVars, miscVars, ghostVars>>

(***************************************************************************)
(* The service process dies at any point and the SCM starts it again.     *)
(* Everything in its memory is gone: the undo lists, the worker and       *)
(* RegisterDNS threads, the pipes and the ring buffer views.  The filters *)
(* of its dynamic WFP session go with the engine handle.  What Windows    *)
(* keeps (rows, metrics, name servers, WINS, registry values) stays.  The *)
(* new ServiceStartInteractive runs CleanupRegistry before anything else.  *)
(* Sessions of the old process are "crashed" and take no further step.     *)
(***************************************************************************)
ServiceCrashRestart ==
    /\ MayCrash /\ \A s \in Sessions : phase[s] # "crashed"
    /\ phase' = [s \in Sessions |-> "crashed"]
    /\ lists' = [s \in Sessions |-> EmptyLists]
    /\ pipe' = [s \in Sessions |-> NoMsg]
    /\ exitEvent' = FALSE
    /\ filters' = {}
    /\ rings' = [s \in Sessions |-> {}]
    /\ rdnsWaiting' = 0 /\ rdnsHeld' = FALSE
    /\ registry' = CleanupRegistry(registry)
    /\ UNCHANGED <<child, sent, ack, netVars, nextEngine, metric, nameServer,
                   wins, ghostVars>>

(***************************************************************************)
(* RegisterDNS: wait for rdns_semaphore or exit_event (600 s); with the    *)
(* semaphore, run "ipconfig /flushdns" and "ipconfig /registerdns" and     *)
(* release it.  A thread gives up on exit_event, or on the timeout while   *)
(* another thread holds the semaphore.  The semaphore wins when both are  *)
(* signalled, being handles[0].                                            *)
(***************************************************************************)
RegisterDNSAcquire ==
    /\ rdnsWaiting > 0 /\ ~rdnsHeld
    /\ rdnsWaiting' = rdnsWaiting - 1 /\ rdnsHeld' = TRUE
    /\ UNCHANGED <<workerVars, netVars, wfpVars, dnsVars, wins, rings, ghostVars>>

RegisterDNSGiveUp ==
    /\ rdnsWaiting > 0 /\ (exitEvent \/ rdnsHeld)
    /\ rdnsWaiting' = rdnsWaiting - 1
    /\ UNCHANGED <<workerVars, netVars, wfpVars, dnsVars, wins, rings, rdnsHeld,
                   ghostVars>>

RegisterDNSRelease ==
    /\ rdnsHeld
    /\ rdnsHeld' = FALSE
    /\ UNCHANGED <<workerVars, netVars, wfpVars, dnsVars, wins, rings,
                   rdnsWaiting, ghostVars>>

RegisterDNSThread == RegisterDNSAcquire \/ RegisterDNSGiveUp \/ RegisterDNSRelease

Worker(s) == StartOpenvpn(s) \/ CreateEngine(s) \/ ServeLoop(s) \/ CloseSession(s)

Engine(s) == EngineSend(s) \/ EngineExit(s)

Next ==
    \/ \E s \in Sessions : Worker(s) \/ Engine(s)
    \/ ServiceStop
    \/ ServiceCrashRestart
    \/ RegisterDNSThread

(***************************************************************************)
(* Worker threads and RegisterDNS threads are scheduled by Windows: each   *)
(* that can proceed eventually does.  The engine and the service control   *)
(* manager act when they like, so they get no fairness.                    *)
(***************************************************************************)
Spec ==
    /\ Init /\ [][Next]_vars
    /\ \A s \in Sessions : WF_vars(Worker(s))
    /\ WF_vars(RegisterDNSThread)

-----------------------------------------------------------------------------
(***************************************************************************)
(* Properties                                                              *)
(***************************************************************************)

\* The objects, engine handles and records in the undo lists.
Recorded(s, k) == {lists[s][k][i].obj : i \in DOMAIN lists[s][k]}
RecordedRows(k) == UNION {Recorded(s, k) : s \in Sessions}
RecordedEngines ==
    UNION {{lists[s]["wfp_block"][i].engine : i \in DOMAIN lists[s]["wfp_block"]}
           : s \in Sessions}
NoneRecorded(k) == \A s \in Sessions : lists[s][k] = <<>>
Crashed == \A s \in Sessions : phase[s] = "crashed"

(***************************************************************************)
(* Every address and route the service added through HandleAddressMessage *)
(* or HandleRouteMessage is in the undo list of some session, so Undo can  *)
(* delete it: the table holds nothing beyond what was there before and    *)
(* what a live session recorded, whatever failures hit the handlers.      *)
(***************************************************************************)
LedgerCoversRows ==
    /\ addrs \subseteq addrs0 \cup RecordedRows("address")
    /\ routes \subseteq routes0 \cup RecordedRows("route")

(***************************************************************************)
(* A WFP filter set is installed exactly while a wfp_block record holds    *)
(* its engine handle: AddWfpBlock deletes the filters on every failure     *)
(* after installing them, and DeleteWfpBlock and Undo delete the ones they *)
(* take off the list.                                                      *)
(***************************************************************************)
FiltersRecorded == filters = RecordedEngines

(***************************************************************************)
(* The interface metrics are back to their values before any session      *)
(* whenever no block data is recorded: AddWfpBlock stores the metrics it  *)
(* overwrites, and DeleteWfpBlock and Undo write back the stored ones      *)
(* (only those >= 0, automatic stored as 0).                               *)
(***************************************************************************)
MetricsRestored == NoneRecorded("wfp_block") => metric = metric0

(***************************************************************************)
(* Whenever no session has search domains recorded, the group policy and  *)
(* system SearchList values are the ones before any session, no           *)
(* InitialSearchList is left behind, and no interface SearchList holds a   *)
(* domain: AddDnsSearchDomains, RemoveDnsSearchDomains and                 *)
(* ResetDnsSearchDomains together undo what SetDnsSearchDomains did.       *)
(***************************************************************************)
SearchListRestored ==
    NoneRecorded("undo_domains") /\ ~Crashed =>
        /\ \A k \in GlobalKeys : registry.SearchList[k] = registry0.SearchList[k]
        /\ \A k \in RegKeys : registry.InitialSearchList[k] = NoValue
        /\ \A s \in Sessions : registry.SearchList[s] \in {NoValue, <<>>}

(***************************************************************************)
(* After a crash of the service, at whatever point of the sessions'        *)
(* requests, failures or teardown, the CleanupRegistry of the restarted    *)
(* service brings the group policy and system SearchList back to their     *)
(* values before any session and leaves no InitialSearchList at either:    *)
(* the one key AddDnsSearchDomains may have stored an initial list at is   *)
(* the key GetDnsSearchListKey finds again.                                *)
(***************************************************************************)
SearchListsRecovered ==
    Crashed =>
        \A k \in GlobalKeys :
            /\ registry.SearchList[k] = registry0.SearchList[k]
            /\ registry.InitialSearchList[k] = NoValue

(***************************************************************************)
(* WINS servers and ring buffer mappings of a session exist only while     *)
(* recorded in its undo list, so Undo removes them: HandleWINSConfigMessage *)
(* and HandleRegisterRingBuffers drop the record exactly when they delete  *)
(* the servers or unmap the rings.                                          *)
(***************************************************************************)
SessionResourcesRecorded ==
    \A s \in Sessions :
        /\ wins[s] => lists[s]["undo_wins"] # <<>>
        /\ (rings[s] # {}) = (lists[s]["undo_ring_buffer"] # <<>>)

(***************************************************************************)
(* While a session is served, every NameServer value it holds has a record *)
(* in one of its dns undo lists: HandleDNSConfigMessage frees the record   *)
(* only after ResetNameServers succeeded, and when recording new servers   *)
(* fails it resets them again, so neither a failed write nor a failed     *)
(* record leaves servers that Undo would not know of.                      *)
(***************************************************************************)
NameServersRecorded ==
    \A s \in Sessions, f \in Families :
        phase[s] = "serve" /\ nameServer[s][f] # "" =>
            lists[s]["undo_dns4"] # <<>> \/ lists[s]["undo_dns6"] # <<>>

(***************************************************************************)
(* A finished session has left no name servers on its interface: each     *)
(* NameServer value HandleDNSConfigMessage set is reset by Undo.           *)
(***************************************************************************)
NameServersCleared ==
    \A s \in Sessions : phase[s] = "done" => nameServer[s] = [f \in Families |-> ""]

(***************************************************************************)
(* A message HandleMessage reads that is shorter than its payload struct  *)
(* is rejected without changing the system (spec: malformed messages are  *)
(* acked with ERROR_MESSAGE_DATA and cause no mutation).                   *)
(***************************************************************************)
ShortMessageChangesNothing ==
    [][\A s \in Sessions :
          (pipe[s] # NoMsg /\ pipe'[s] = NoMsg /\ pipe[s].size = "short")
             => UNCHANGED <<netVars, wfpVars, dnsVars, miscVars, lists>>]_vars

(***************************************************************************)
(* Once the service is told to stop (exit_event), every session ends and   *)
(* is undone: the peek returns 0 on an empty pipe and the engine is        *)
(* terminated after IO_TIMEOUT.                                            *)
(***************************************************************************)
StopEndsSessions == exitEvent ~> \A s \in Sessions : phase[s] = "done"

\* The kinds of undo record session s holds.
HeldKinds(s) == {k \in UndoKinds : lists[s][k] # <<>>}

Ledger == INSTANCE SessionLedger WITH
    Kinds  <- UndoKinds,
    state  <- [s \in Sessions |-> IF phase[s] = "done" THEN "ended" ELSE "running"],
    ledger <- [s \in Sessions |-> HeldKinds(s)],
    stop   <- exitEvent

(***************************************************************************)
(* RunOpenvpn implements the session ledger: a worker holds undo records   *)
(* only while it runs, returns from RunOpenvpn with every list emptied by  *)
(* Undo, whichever way the engine or the loop ended, and after exit_event  *)
(* it returns.                                                             *)
(***************************************************************************)
LedgerRefined == Ledger!Spec

=============================================================================
