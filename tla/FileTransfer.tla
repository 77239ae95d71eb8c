----------------------------- MODULE FileTransfer -----------------------------
(***************************************************************************)
(* What the data plane promises of each file transfer, whatever happens to *)
(* the routes meanwhile: the packets of a file reach its destination in    *)
(* sequence order and at most once each, a file is stored once, when its   *)
(* last packet arrives, and the controller is answered at most once.       *)
(* Packets may be missing: src/src/data_routing.cpp has no retransmission. *)
(***************************************************************************)
EXTENDS Naturals

CONSTANTS
    Transfers,  \* the transfer ids
    Size        \* Size[t]: the number of packets of the file of t

VARIABLES
    requested,  \* the transfers SENDFILE asked for
    arrived,    \* arrived[t]: the last packet of t to reach the destination
    stored,     \* the transfers whose file the destination has written
    answered    \* the transfers whose SENDFILE the controller has an answer to

ftVars == <<requested, arrived, stored, answered>>

Init ==
    /\ requested = {}
    /\ arrived = [t \in Transfers |-> 0]
    /\ stored = {}
    /\ answered = {}

Request(t) ==
    /\ t \notin requested
    /\ requested' = requested \cup {t}
    /\ UNCHANGED <<arrived, stored, answered>>

Arrive(t, k) ==
    /\ t \in requested \ stored
    /\ k > arrived[t]
    /\ arrived' = [arrived EXCEPT ![t] = k]
    /\ stored' = IF k = Size[t] THEN stored \cup {t} ELSE stored
    /\ UNCHANGED <<requested, answered>>

\* One write_handler may send the last packets of several files.
Answer(ts) ==
    /\ ts \subseteq requested \ answered
    /\ answered' = answered \cup ts
    /\ UNCHANGED <<requested, arrived, stored>>

Next ==
    \/ \E t \in Transfers : Request(t) \/ \E k \in 1 .. Size[t] : Arrive(t, k)
    \/ \E ts \in SUBSET Transfers : Answer(ts)

Spec == Init /\ [][Next]_ftVars
===============================================================================
