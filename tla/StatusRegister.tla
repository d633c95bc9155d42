--------------------------- MODULE StatusRegister ---------------------------
(***************************************************************************)
(* What status.json promises to whoever reads it: a register that holds    *)
(* nothing or one whole status, and changes in one step only.  It is       *)
(* written by running daemons, each with the status it has in memory at    *)
(* that moment.  After a power failure it holds what it held at some       *)
(* earlier moment.  StateFile implements it with system calls.             *)
(***************************************************************************)
CONSTANTS
    Pids,       \* processes that may run the daemon
    Statuses,   \* everything a daemon may publish
    Absent      \* no status

VARIABLES
    running,    \* the daemons that run
    latest,     \* the status each has, or had, in memory
    shown,      \* what a reader finds
    durable     \* what a reader would find after a power failure

regVars == <<running, latest, shown, durable>>

RegInit ==
    /\ running = {}
    /\ latest \in [Pids -> Statuses]
    /\ shown = Absent
    /\ durable = Absent

\* p has another status in memory
Renewed(p) ==
    /\ latest'[p] \in Statuses
    /\ latest' = [latest EXCEPT ![p] = latest'[p]]

Begin(p) ==
    /\ p \notin running
    /\ running' = running \cup {p}
    /\ Renewed(p)
    /\ UNCHANGED <<shown, durable>>

Change(p) ==
    /\ p \in running
    /\ Renewed(p)
    /\ UNCHANGED <<running, shown, durable>>

Show(p) ==
    /\ p \in running
    /\ shown' = latest[p]
    /\ UNCHANGED <<running, latest, durable>>

Hide(p) ==
    /\ p \in running
    /\ shown' = Absent
    /\ UNCHANGED <<running, latest, durable>>

End(p) ==
    /\ p \in running
    /\ running' = running \ {p}
    /\ UNCHANGED <<latest, shown, durable>>

Settle ==
    /\ durable' = shown
    /\ UNCHANGED <<running, latest, shown>>

Blackout ==
    /\ running' = {}
    /\ shown' = durable
    /\ UNCHANGED <<latest, durable>>

RegNext ==
    \/ \E p \in Pids : Begin(p) \/ Change(p) \/ Show(p) \/ Hide(p) \/ End(p)
    \/ Settle
    \/ Blackout

RegSpec == RegInit /\ [][RegNext]_regVars
=============================================================================
