--------------------------- MODULE FailureDetector ---------------------------
(***************************************************************************)
(* What the timers of the control plane promise when updates come in time: *)
(* a perfect failure detector. A router hears a neighbour only after it    *)
(* has started, gives it up only after it has crashed, and never takes it  *)
(* back. No message, clock or cost appears here.                           *)
(***************************************************************************)
CONSTANTS
    Routers,        \* the router ids
    Neighbours(_)   \* Neighbours(n): the routers n watches

VARIABLES
    phase,   \* phase[n]: n is new, running or gone
    status   \* status[n][m]: what n thinks of m

fdVars == <<phase, status>>

Init ==
    /\ phase = [n \in Routers |-> "new"]
    /\ status = [n \in Routers |-> [m \in Routers |-> "INITIALIZED"]]

Start(n) ==
    /\ phase[n] = "new"
    /\ phase' = [phase EXCEPT ![n] = "running"]
    /\ UNCHANGED status

Crash(n) ==
    /\ phase[n] = "running"
    /\ phase' = [phase EXCEPT ![n] = "gone"]
    /\ UNCHANGED status

\* The first update of m reaches n, which may be after m has crashed.
Hear(n, m) ==
    /\ phase[n] = "running"
    /\ phase[m] # "new"
    /\ status[n][m] = "INITIALIZED"
    /\ status' = [status EXCEPT ![n][m] = "ACTIVE"]
    /\ UNCHANGED phase

\* n gives up the neighbours in lost at once.
GiveUp(n, lost) ==
    /\ phase[n] = "running"
    /\ \A m \in lost : phase[m] = "gone" /\ status[n][m] # "INACTIVE"
    /\ status' = [status EXCEPT ![n] =
                     [m \in Routers |-> IF m \in lost THEN "INACTIVE" ELSE status[n][m]]]
    /\ UNCHANGED phase

Next ==
    \E n \in Routers :
        \/ Start(n)
        \/ Crash(n)
        \/ \E m \in Neighbours(n) : Hear(n, m)
        \/ \E lost \in SUBSET Neighbours(n) : GiveUp(n, lost)

Spec == Init /\ [][Next]_fdVars
==============================================================================
