---------------------------- MODULE SessionLedger ----------------------------
(***************************************************************************)
(* What a session worker of the interactive service promises: while it    *)
(* runs, the kinds of system change it holds (the undo_type_t lists that  *)
(* are not empty) may grow and shrink as requests come and go; it ends     *)
(* once, holding nothing; an ended session changes nothing more; and once *)
(* the service is told to stop, every session ends.                        *)
(***************************************************************************)
CONSTANTS
    Sessions,   \* the session worker threads
    Kinds       \* the kinds of change a session can hold

VARIABLES
    state,      \* state[s] \in {"running", "ended"}
    ledger,     \* ledger[s]: the kinds of change s holds
    stop        \* exit_event is set

vars == <<state, ledger, stop>>

TypeOK ==
    /\ state \in [Sessions -> {"running", "ended"}]
    /\ ledger \in [Sessions -> SUBSET Kinds]
    /\ stop \in BOOLEAN

Init ==
    /\ state = [s \in Sessions |-> "running"]
    /\ ledger = [s \in Sessions |-> {}]
    /\ stop = FALSE

\* A running session takes on or gives back changes.
Change(s) ==
    /\ state[s] = "running"
    /\ \E held \in SUBSET Kinds : ledger' = [ledger EXCEPT ![s] = held]
    /\ UNCHANGED <<state, stop>>

\* A session ends and gives back everything it holds.
End(s) ==
    /\ state[s] = "running"
    /\ state' = [state EXCEPT ![s] = "ended"]
    /\ ledger' = [ledger EXCEPT ![s] = {}]
    /\ UNCHANGED stop

\* The service is told to stop.
Stop ==
    /\ ~stop
    /\ stop' = TRUE
    /\ UNCHANGED <<state, ledger>>

Next == Stop \/ \E s \in Sessions : Change(s) \/ End(s)

\* After a stop, a running session does not stay running for ever.
Spec ==
    /\ Init /\ [][Next]_vars
    /\ \A s \in Sessions : WF_vars(stop /\ End(s))

=============================================================================
