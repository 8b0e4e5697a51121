------------------------------ MODULE Dispatcher ------------------------------
(***************************************************************************)
(* ServiceStartInteractive: the accept loop of the interactive service.    *)
(* It listens on one pipe instance at a time, starts a suspended           *)
(* RunOpenvpn thread per client, keeps the thread handles in a list and    *)
(* waits with WaitForMultipleObjects on io_event and the thread handles;   *)
(* exit_event is in the wait set only while no thread is alive.  The       *)
(* session workers are the SessionLedger abstraction that SessionWorker    *)
(* implements; ServiceCtrlInteractive sets exit_event on a stop.           *)
(***************************************************************************)
EXTENDS Integers, UndoLists

CONSTANTS
    Threads,      \* thread handles CreateThread can return, numbered
    IoEvent,      \* the handle of io_event
    ExitEvent,    \* the handle of exit_event
    Kinds,        \* kinds of change a session can hold
    MaxWait,      \* MAXIMUM_WAIT_OBJECTS
    MaxClients,   \* clients that connect over a run
    MayFail       \* whether pipe creation, CreateThread and list growth fail

VARIABLES
    svc,          \* where ServiceStartInteractive is
    pipeValid,    \* the current pipe instance is not INVALID_HANDLE_VALUE
    connected,    \* a client is connected to the current instance
    pending,      \* ConnectNamedPipe is outstanding on it
    ioSignaled,   \* io_event
    exitEvent,    \* exit_event
    stopRequested,\* SERVICE_CONTROL_STOP was received
    threads,      \* the list of thread handles, newest first
    handles,      \* the wait set, handles[1] .. handles[handle_count]
    wstate,       \* wstate[t]: the state of thread t
    ledger,       \* ledger[t]: the kinds of change thread t holds
    outPath,      \* how the loop was left
    clients       \* clients connected so far

vars == <<svc, pipeValid, connected, pending, ioSignaled, exitEvent,
          stopRequested, threads, handles, wstate, ledger, outPath, clients>>

loopVars == <<svc, pipeValid, connected, pending, ioSignaled, threads,
              handles, outPath>>

ThreadStates == {"none", "suspended", "running", "ended", "closed", "terminated"}

\* The worker threads, as sessions of the ledger: not yet returned or returned.
Session == INSTANCE SessionLedger WITH
    Sessions <- Threads,
    state    <- [t \in Threads |->
                   IF wstate[t] \in {"ended", "closed", "terminated"}
                   THEN "ended" ELSE "running"],
    stop     <- stopRequested

TypeOK ==
    /\ svc \in {"starting", "listening", "waiting", "sleeping", "stopped"}
    /\ {pipeValid, connected, pending, ioSignaled, exitEvent, stopRequested}
          \subseteq BOOLEAN
    /\ threads \in Seq(Threads)
    /\ handles \in Seq(Threads \cup {IoEvent, ExitEvent})
    /\ wstate \in [Threads -> ThreadStates]
    /\ ledger \in [Threads -> SUBSET Kinds]
    /\ outPath \in {"none", "setup", "connect", "wait_failed", "exit"}
    /\ clients \in 0 .. MaxClients

\* UpdateWaitHandles: io_event, then exit_event if there is no thread,
\* then the thread handles in list order.
UpdateWaitHandles(ths) ==
    <<IoEvent>> \o (IF ths = <<>> THEN <<ExitEvent>> ELSE ths)

Signaled(h) ==
    CASE h = IoEvent   -> ioSignaled
      [] h = ExitEvent -> exitEvent
      [] OTHER         -> wstate[h] = "ended"

\* The index WaitForMultipleObjects returns: the lowest signalled one.
FirstSignaled ==
    CHOOSE i \in DOMAIN handles :
        Signaled(handles[i]) /\ \A j \in 1 .. i - 1 : ~Signaled(handles[j])

(***************************************************************************)
(* CreateClientPipeInstance: a valid instance, or INVALID_HANDLE_VALUE     *)
(* when the security descriptor cannot be built or CreateNamedPipe fails   *)
(* (on the first call also when the name exists already, by               *)
(* FILE_FLAG_FIRST_PIPE_INSTANCE).                                         *)
(***************************************************************************)
CreateClientPipeInstance == IF MayFail THEN BOOLEAN ELSE {TRUE}

Init ==
    /\ svc = "starting"
    /\ pipeValid = FALSE /\ connected = FALSE /\ pending = FALSE
    /\ ioSignaled = FALSE /\ exitEvent = FALSE /\ stopRequested = FALSE
    /\ threads = <<>> /\ handles = <<>>
    /\ wstate = [t \in Threads |-> "none"]
    /\ ledger = [t \in Threads |-> {}]
    /\ outPath = "none"
    /\ clients = 0

(***************************************************************************)
(* From RegisterServiceCtrlHandlerEx to SERVICE_RUNNING: CleanupRegistry,  *)
(* GetOpenvpnSettings, the two events, rdns_semaphore, the first wait set  *)
(* and the first pipe instance; a failure of any of them goes to out.      *)
(***************************************************************************)
StartService ==
    /\ svc = "starting"
    /\ \/ /\ MayFail
          /\ svc' = "stopped" /\ outPath' = "setup"
          /\ UNCHANGED <<pipeValid, handles>>
       \/ \E ok \in CreateClientPipeInstance :
          /\ svc' = IF ok THEN "listening" ELSE "stopped"
          /\ outPath' = IF ok THEN outPath ELSE "setup"
          /\ handles' = UpdateWaitHandles(threads)
          /\ pipeValid' = ok
    /\ UNCHANGED <<connected, pending, ioSignaled, exitEvent, stopRequested,
                   threads, wstate, ledger, clients>>

(***************************************************************************)
(* The top of the loop: ConnectNamedPipe on the current instance.  It     *)
(* fails on an invalid instance, and the loop is left.  With a client     *)
(* already connected it returns ERROR_PIPE_CONNECTED, which is accepted,  *)
(* but the operation is not pending and io_event stays clear.  Otherwise  *)
(* the connect is pending.  The request clears io_event.                   *)
(***************************************************************************)
Listen ==
    /\ svc = "listening"
    /\ \/ /\ ~pipeValid
          /\ svc' = "stopped" /\ outPath' = "connect"
          /\ UNCHANGED <<pending, ioSignaled>>
       \/ /\ pipeValid
          /\ svc' = "waiting"
          /\ pending' = ~connected
          /\ ioSignaled' = FALSE
          /\ UNCHANGED outPath
    /\ UNCHANGED <<pipeValid, connected, exitEvent, stopRequested, threads,
                   handles, wstate, ledger, clients>>

(***************************************************************************)
(* io_event signalled: a client connected.  The next instance is created   *)
(* first (it may fail), then the thread, suspended.  When AddListItem or  *)
(* UpdateWaitHandles fails the client gets an error, the thread is taken  *)
(* off the list again and terminated; otherwise it is resumed.  The new    *)
(* instance becomes the current one.                                       *)
(***************************************************************************)
Accept ==
    /\ \E nextOk \in CreateClientPipeInstance :
          /\ pipeValid' = nextOk
          /\ \/ /\ MayFail
                /\ UNCHANGED <<threads, handles, wstate>>
             \/ \E t \in Threads :
                   /\ wstate[t] = "none"
                   /\ \A u \in Threads : wstate[u] = "none" => t <= u
                   /\ \/ /\ MayFail
                         /\ wstate' = [wstate EXCEPT ![t] = "terminated"]
                         /\ UNCHANGED <<threads, handles>>
                      \/ /\ threads' = AddListItem(threads, t)
                         /\ handles' = UpdateWaitHandles(threads')
                         /\ wstate' = [wstate EXCEPT ![t] = "running"]
    /\ connected' = FALSE /\ pending' = FALSE /\ ioSignaled' = FALSE
    /\ svc' = "listening"
    /\ UNCHANGED <<exitEvent, outPath>>

(***************************************************************************)
(* Another handle signalled: the pending connect is cancelled.  With no    *)
(* thread it is exit_event: it is reset and the loop is left.  Otherwise  *)
(* the thread at that index has returned: it is taken off the list, the    *)
(* wait set rebuilt and the handle closed.                                 *)
(***************************************************************************)
WaitOther(i) ==
    LET h == handles[i] IN
    /\ pending' = FALSE
    /\ \/ /\ threads = <<>>
          /\ exitEvent' = FALSE
          /\ svc' = "stopped" /\ outPath' = "exit"
          /\ UNCHANGED <<threads, handles, wstate>>
       \/ /\ threads # <<>>
          /\ threads' = RemoveListItem(threads, CmpEqual, h)
          /\ handles' = UpdateWaitHandles(threads')
          /\ wstate' = [wstate EXCEPT ![h] = "closed"]
          /\ svc' = "listening"
          /\ UNCHANGED <<exitEvent, outPath>>
    /\ UNCHANGED <<pipeValid, connected, ioSignaled>>

\* Mutant: the loop is left when the signalled index is 1, the place of
\* exit_event when there is no thread.
DispatchWaitExitByIndex ==
    /\ svc = "waiting"
    /\ \/ /\ Len(handles) > MaxWait
          /\ exitEvent' = TRUE /\ pending' = FALSE /\ svc' = "sleeping"
          /\ UNCHANGED <<pipeValid, connected, ioSignaled, threads, handles,
                         wstate, outPath>>
       \/ /\ Len(handles) <= MaxWait
          /\ \E i \in DOMAIN handles : Signaled(handles[i])
          /\ LET i == FirstSignaled IN
             \/ i = 1 /\ Accept
             \/ i = 2 /\ pending' = FALSE /\ exitEvent' = FALSE
                /\ svc' = "stopped" /\ outPath' = "exit"
                /\ UNCHANGED <<pipeValid, connected, ioSignaled, threads,
                               handles, wstate>>
             \/ i > 2 /\ WaitOther(i)
    /\ UNCHANGED <<stopRequested, ledger, clients>>

(***************************************************************************)
(* WaitForMultipleObjects on handle_count handles, without timeout.  More  *)
(* than MAXIMUM_WAIT_OBJECTS handles make it fail: exit_event is set, the  *)
(* dispatcher sleeps one second and leaves the loop.                       *)
(***************************************************************************)
DispatchWait ==
    /\ svc = "waiting"
    /\ \/ /\ Len(handles) > MaxWait
          /\ exitEvent' = TRUE /\ pending' = FALSE /\ svc' = "sleeping"
          /\ UNCHANGED <<pipeValid, connected, ioSignaled, threads, handles,
                         wstate, outPath>>
       \/ /\ Len(handles) <= MaxWait
          /\ \E i \in DOMAIN handles : Signaled(handles[i])
          /\ LET i == FirstSignaled IN
             \/ i = 1 /\ Accept
             \/ i > 1 /\ WaitOther(i)
    /\ UNCHANGED <<stopRequested, ledger, clients>>

\* Sleep(1000) after WAIT_FAILED, then out.
SleepDone ==
    /\ svc = "sleeping"
    /\ svc' = "stopped" /\ outPath' = "wait_failed"
    /\ UNCHANGED <<pipeValid, connected, pending, ioSignaled, exitEvent,
                   stopRequested, threads, handles, wstate, ledger, clients>>

\* A client connects to the current instance; io_event is set only if a
\* connect is pending on it.
ClientConnect ==
    /\ svc \in {"listening", "waiting", "sleeping"}
    /\ pipeValid /\ ~connected /\ clients < MaxClients
    /\ connected' = TRUE
    /\ ioSignaled' = pending
    /\ pending' = FALSE
    /\ clients' = clients + 1
    /\ UNCHANGED <<svc, pipeValid, exitEvent, stopRequested, threads, handles,
                   wstate, ledger, outPath>>

\* Mutant: the handler reports STOP_PENDING but does not set exit_event.
ServiceCtrlStopNoEvent ==
    /\ svc \in {"listening", "waiting", "sleeping"} /\ ~stopRequested
    /\ stopRequested' = TRUE
    /\ UNCHANGED <<loopVars, exitEvent, wstate, ledger, clients>>

(***************************************************************************)
(* ServiceCtrlInteractive, SERVICE_CONTROL_STOP: SetEvent(exit_event).     *)
(* The service accepts a stop once it has reported SERVICE_RUNNING.        *)
(***************************************************************************)
ServiceCtrlStop ==
    /\ svc \in {"listening", "waiting", "sleeping"} /\ ~stopRequested
    /\ stopRequested' = TRUE
    /\ exitEvent' = TRUE
    /\ UNCHANGED <<loopVars, wstate, ledger, clients>>

\* A resumed worker takes on or gives back changes.
WorkerChange(t) ==
    /\ wstate[t] = "running"
    /\ UNCHANGED <<loopVars, exitEvent, wstate, clients>>
    /\ Session!Change(t)

\* A worker returns from RunOpenvpn, after Undo; its handle is signalled.
WorkerEnd(t) ==
    /\ wstate[t] = "running"
    /\ wstate' = [wstate EXCEPT ![t] = "ended"]
    /\ Session!End(t)
    /\ UNCHANGED <<loopVars, exitEvent, clients>>

Dispatch == StartService \/ Listen \/ DispatchWait \/ SleepDone

Next ==
    \/ Dispatch
    \/ ClientConnect
    \/ ServiceCtrlStop
    \/ \E t \in Threads : WorkerChange(t) \/ WorkerEnd(t)

(***************************************************************************)
(* The dispatcher thread and the workers are scheduled by Windows.  A      *)
(* worker returns once exit_event is set (SessionWorker's StopEndsSessions *)
(* and the WF of the ledger it implements).  Clients and the SCM get no    *)
(* fairness.                                                               *)
(***************************************************************************)
Spec ==
    /\ Init /\ [][Next]_vars
    /\ WF_vars(Dispatch)
    /\ \A t \in Threads : WF_vars(exitEvent /\ WorkerEnd(t))

-----------------------------------------------------------------------------
\* A session whose worker has not returned.
Alive(t) == wstate[t] \in {"suspended", "running"}

(***************************************************************************)
(* When the loop is left through exit_event, no worker is still running   *)
(* and no session holds a change: exit_event is only waited for once the  *)
(* thread list is empty, and a thread leaves the list only after it        *)
(* returned from RunOpenvpn, which runs Undo.                              *)
(***************************************************************************)
ExitAfterSessions ==
    outPath = "exit" => \A t \in Threads : ~Alive(t) /\ ledger[t] = {}

(***************************************************************************)
(* Whenever the service reports SERVICE_STOPPED, every session it served   *)
(* has returned and given back its changes.                                *)
(***************************************************************************)
NothingLeftBehind ==
    svc = "stopped" => \A t \in Threads : ~Alive(t) /\ ledger[t] = {}

(***************************************************************************)
(* A stop request of the SCM makes the service reach SERVICE_STOPPED:     *)
(* exit_event ends every worker, each ending removes a thread from the    *)
(* wait set, and with none left exit_event is waited for.                 *)
(***************************************************************************)
StopStopsService == stopRequested ~> svc = "stopped"

(***************************************************************************)
(* A client connected to the current pipe instance is eventually accepted *)
(* (Accept takes it and creates the next instance) unless the service     *)
(* stops: the dispatcher thread is scheduled fairly and io_event reports  *)
(* the connect.  A client that connects after CreateClientPipeInstance    *)
(* and before ConnectNamedPipe gets ERROR_PIPE_CONNECTED, which leaves    *)
(* io_event clear.                                                         *)
(***************************************************************************)
ClientServed == connected ~> (~connected \/ svc = "stopped")

=============================================================================
