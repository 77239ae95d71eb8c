-------------------------------- MODULE System --------------------------------
(***************************************************************************)
(* The router as a whole: the control plane of DistanceVector and the data *)
(* plane of DataPlane in one process at every router. They meet in three   *)
(* places. sendfile and receive look the next hop up in the routing table  *)
(* the control plane keeps. The neighbours' data connections belong to the *)
(* entries of rs.routers, which the control plane opens (and, on a         *)
(* timeout, leaves open). And the process ends for both: on CRASH, or by   *)
(* SIGPIPE when write_handler writes to a neighbour that is gone.          *)
(*                                                                         *)
(* The system starts settled: every router has been initialised, tables    *)
(* are the shortest paths, and connect_data_ports has run at the last      *)
(* update, so every neighbour is connected.                                *)
(***************************************************************************)
EXTENDS DistanceVector, Sequences

CONSTANTS
    Transfers, Origin, Dest, Size, InitTTL, MaxTTL, MaxBuffered,   \* as in DataPlane
    Crashing   \* bound: the routers the controller may send CRASH to

ASSUME DataAssumption ==
    /\ Transfers \subseteq Nat /\ IsFiniteSet(Transfers)
    /\ Origin \in [Transfers -> Routers]
    /\ Dest \in [Transfers -> Routers]
    /\ Size \in [Transfers -> Nat \ {0}]
    /\ MaxTTL \in Nat \ {0}
    /\ InitTTL \in [Transfers -> 0 .. MaxTTL]
    /\ MaxBuffered \in Nat \ {0}
    /\ Crashing \subseteq Routers

\* A network can settle on its cheapest paths when each of them begins with a
\* link, and no link and path together pass INF.
ASSUME SettledAssumption ==
    LET dist == Shortest[Routers]
    IN  \A n \in Routers : \A d \in Routers \ {n} :
            /\ dist[n][d] # INF =>
                  \E m \in Neighbours(n) : dist[n][d] = Link[n][m] + dist[m][d]
            /\ \A m \in Neighbours(n) :
                  dist[m][d] # INF => Link[n][m] + dist[m][d] <= INF

VARIABLES
    requested, connected, pin, queue, writable, tcp, stats,
    fileData, file, answers, expired   \* as in DataPlane

dataVars == <<requested, connected, pin, queue, writable, tcp, stats,
              fileData, file, answers, expired>>

\* Every router has heard every neighbour, and its vectors are the tables.
SettledVectors ==
    [n \in Routers |-> [m \in Routers |->
        IF m = n THEN Link[n]
        ELSE IF m \in Neighbours(n) THEN Shortest[Routers][m]
        ELSE InitialVectors(n)[m]]]

SettledTables == [n \in Routers |-> TableOf(SettledVectors[n], n)]

Gone == {n \in Routers : phase[n] = "gone"}

\* Next hops come from the routing tables: the hop is INF when the cost is.
NextHops == [n \in Routers |-> [d \in Routers |-> table[n][d].hop]]

Data == INSTANCE DataPlane WITH
    NoHop <- INF,
    FirstRoute <- [n \in Routers |-> [d \in Routers |-> SettledTables[n][d].hop]],
    RouteChoices <- [n \in Routers |-> [d \in Routers |-> {}]],
    MayFail <- FALSE,
    MaxReroutes <- 0,
    route <- NextHops,
    down <- Gone,
    reroutes <- 0

-------------------------------------------------------------------------------

SystemInit ==
    /\ phase = [n \in Routers |-> "running"]
    /\ status = [n \in Routers |-> [m \in Routers |->
                    IF m \in Neighbours(n) THEN "ACTIVE" ELSE "INITIALIZED"]]
    /\ linkCost = Link
    /\ age = [n \in Routers |-> [m \in Routers |-> 0]]
    /\ vectors = SettledVectors
    /\ table = SettledTables
    /\ net = {}
    /\ sent = [n \in Routers |-> Neighbours(n)]
    /\ updates = 0 /\ crashes = 0 /\ losses = 0
    /\ requested = {}
    /\ connected = [n \in Routers |-> Neighbours(n)]
    /\ pin = [n \in Routers |-> [t \in Transfers |-> INF]]
    /\ queue = [n \in Routers |-> [t \in Transfers |-> <<>>]]
    /\ writable = [n \in Routers |-> {}]
    /\ tcp = [n \in Routers |-> [h \in Routers |-> <<>>]]
    /\ stats = [n \in Routers |-> [t \in Transfers |-> {}]]
    /\ fileData = [t \in Transfers |-> <<>>]
    /\ file = [t \in Transfers |-> <<>>]
    /\ answers = [t \in Transfers |-> 0]
    /\ expired = [t \in Transfers |-> {}]

-------------------------------------------------------------------------------

\* A handler of the control plane. With every neighbour connected from the
\* start, and data_socket_fd never set back, connect_data_ports opens nothing.
Control ==
    /\ \/ Timer
       \/ Network
       \/ \E n \in Routers : \E m \in Neighbours(n), c \in UpdateCosts : UpdateCost(n, m, c)
    /\ UNCHANGED dataVars

\* A handler of the data plane; the tables are only read.
SendFile(t) == UNCHANGED <<phase, table>> /\ Data!SendFile(t) /\ UNCHANGED vars

Receive(m, n) == UNCHANGED <<phase, table>> /\ Data!Receive(m, n) /\ UNCHANGED vars

WriteHandler(n, h) == UNCHANGED <<phase, table>> /\ Data!WriteHandler(n, h) /\ UNCHANGED vars

\* CRASH ends the process, both halves of it.
Crash(n) == CrashNow(n) /\ Data!CrashNow(n)

\* So does the signal a write to a neighbour that is gone raises.
Broken(n, h) == Exit(n) /\ UNCHANGED crashes /\ Data!Broken(n, h)

SystemNext ==
    \/ Control
    \/ \E t \in Transfers : SendFile(t)
    \/ \E n, m \in Routers : Receive(m, n)
    \/ \E n, h \in Routers : WriteHandler(n, h)
    \/ \E n \in Crashing : Crash(n)
    \/ \E n, h \in Routers : Broken(n, h)

allVars == <<vars, dataVars>>

SystemSpec == SystemInit /\ [][SystemNext]_allVars

-------------------------------------------------------------------------------

\* A transfer takes its next hop from a table that knows: no key is made for a
\* neighbour this router has given up, though it is still connected to it.
PinsAreLive ==
    [][\A n \in Routers, t \in Transfers :
          pin'[n][t] # pin[n][t] => status[n][pin'[n][t]] # "INACTIVE"]_allVars

\* No TTL runs out while all routers are there. That is so only where no UPDATE
\* changes a link: after one to INF two neighbours may send packets to each other
\* for some intervals, every router being up.
NoLoopsInPeace == Gone = {} => \A t \in Transfers : expired[t] = {}
===============================================================================
