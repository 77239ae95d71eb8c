---------------------------- MODULE DistanceVector ----------------------------
(***************************************************************************)
(* The control plane of a network of routers: every router runs the code   *)
(* of src/src/routing.cpp and the part of src/src/controller.cpp that      *)
(* drives it (INIT, UPDATE, CRASH), and they exchange routing updates over *)
(* UDP.                                                                    *)
(*                                                                         *)
(* A router is one process with one thread: whatever runs between two      *)
(* calls of select in Router::select_loop is one action here.              *)
(*                                                                         *)
(* Time is abstract: age[n][m] counts the update intervals elapsed since   *)
(* n last heard m (last_update), and Elapse(n, m) lets one pass. With      *)
(* Timely = FALSE intervals pass at any rate. With Timely = TRUE one       *)
(* passes between n and m only after m has sent its update for it and the  *)
(* network has delivered or lost that datagram; then clocks and delays are *)
(* small against the interval, and no datagram is duplicated.              *)
(***************************************************************************)
EXTENDS RouteTable

CONSTANTS
    Shortest,      \* Shortest[S][n][d]: the cost of the cheapest path from n to
                   \* d through routers in S; only properties refer to it
    UpdateCosts,   \* costs the controller's UPDATE messages carry
    Timely,        \* TRUE: bounded delays, see above
    MaxUpdates,    \* bound: UPDATE messages in a behaviour
    MaxCrashes,    \* bound: CRASH messages in a behaviour
    MaxLosses,     \* bound: datagrams lost in a behaviour, if Timely
    MaxInFlight    \* bound, per sender: its datagrams in flight to one router

\* What the proofs need of it: no path is shorter than its first link followed
\* by the cheapest path from there.
ASSUME ShortestAssumption ==
    /\ Shortest \in [SUBSET Routers -> [Routers -> [Routers -> Cost]]]
    /\ \A n \in Routers : Shortest[Routers][n][n] = 0
    /\ \A n, m, d \in Routers :
          Shortest[Routers][n][d] <= Link[n][m] + Shortest[Routers][m][d]

ASSUME UpdateCostsAssumption == UpdateCosts \subseteq Cost

ASSUME TimelyAssumption == Timely \in BOOLEAN

ASSUME BoundsAssumption ==
    /\ MaxUpdates \in Nat
    /\ MaxCrashes \in Nat
    /\ MaxLosses \in Nat
    /\ MaxInFlight \in [Routers -> Nat \ {0}]

\* A neighbour times out when three update intervals pass without an update.
MaxAge == 3

VARIABLES
    phase,    \* phase[n]: before INIT, in the select loop, or exited on CRASH
    status,   \* status[n][m]: rs.routers[m].status at n
    linkCost, \* linkCost[n][m]: rs.routers[m].cost at n
    age,      \* age[n][m]: intervals since rs.routers[m].last_update at n
    vectors,  \* vectors[n][m][d]: distance_vectors[m][d] at n
    table,    \* table[n][d]: routing_table[d] at n
    net,      \* the datagrams in flight
    sent,     \* sent[n]: who has sent to n since its age at n last grew
    updates, crashes, losses   \* counters behind the bounds

local  == <<status, linkCost, age, vectors, table>>
counts == <<updates, crashes, losses>>
vars   == <<phase, local, net, sent, counts>>

Running == {n \in Routers : phase[n] = "running"}

Datagram == [src : Routers, dst : Routers, vec : [Routers -> Cost]]

InFlight(m, n) == {msg \in net : msg.src = m /\ msg.dst = n}

Init ==
    /\ phase = [n \in Routers |-> "new"]
    /\ status = [n \in Routers |-> [m \in Routers |-> "INITIALIZED"]]
    /\ linkCost = Link
    /\ age = [n \in Routers |-> [m \in Routers |-> 0]]
    /\ vectors = [n \in Routers |-> InitialVectors(n)]
    /\ table = [n \in Routers |-> TableOf(InitialVectors(n), n)]
    /\ net = {}
    /\ sent = [n \in Routers |-> {}]
    /\ updates = 0 /\ crashes = 0 /\ losses = 0

-------------------------------------------------------------------------------

\* The table of n in the form of a vector, as routing_payload writes it.
Payload(tab) == [d \in Routers |-> tab[d].cost]

\* Mutant of Listeners: only neighbours heard before are sent to.
ListenersHeard(n) == {m \in Neighbours(n) \cap Running : status[n][m] = "ACTIVE"}

\* One datagram to every entry of type NEIGHBOUR, INACTIVE ones included; the
\* ones to a router with no socket bound to its port reach nobody.
Listeners(n) == Neighbours(n) \cap Running

HasRoom(n) == \A m \in Listeners(n) : Cardinality(InFlight(n, m)) < MaxInFlight[n]

SendRoutingUpdates(n, tab) ==
    /\ net' = net \cup [src : {n}, dst : Listeners(n), vec : {Payload(tab)}]
    /\ sent' = [m \in Routers |->
                   IF Timely /\ m \in Listeners(n) THEN sent[m] \cup {n} ELSE sent[m]]

\* INIT arrives: parse_init fills the tables, the socket is bound, and the
\* first updates go out. A second INIT changes nothing.
InitResponse(n) ==
    /\ phase[n] = "new"
    /\ phase' = [phase EXCEPT ![n] = "running"]
    /\ SendRoutingUpdates(n, table[n])
    /\ UNCHANGED <<local, counts>>

\* Mutants of Expired: two intervals suffice, and three do not.
ExpiredEarly(n) ==
    {m \in Neighbours(n) : status[n][m] # "INACTIVE" /\ age[n][m] >= MaxAge - 1}

ExpiredLate(n) ==
    {m \in Neighbours(n) : status[n][m] # "INACTIVE" /\ age[n][m] > MaxAge}

\* The neighbours that time out at n now.
Expired(n) ==
    {m \in Neighbours(n) : status[n][m] # "INACTIVE" /\ age[n][m] >= MaxAge}

\* n's vectors once the links to the routers in gone are set to infinity.
Cut(n, gone) ==
    [vectors[n] EXCEPT ![n] =
        [m \in Routers |-> IF m \in gone THEN INF ELSE vectors[n][n][m]]]

\* Mutant of MarkInactive: the table is not recomputed.
MarkInactiveOnly(n) ==
    /\ status' = [status EXCEPT ![n] =
                     [m \in Routers |->
                         IF m \in Expired(n) THEN "INACTIVE" ELSE status[n][m]]]
    /\ linkCost' = [linkCost EXCEPT ![n] =
                     [m \in Routers |->
                         IF m \in Expired(n) THEN INF ELSE linkCost[n][m]]]
    /\ vectors' = [vectors EXCEPT ![n] = Cut(n, Expired(n))]
    /\ UNCHANGED <<age, table>>

MarkInactive(n) ==
    /\ status' = [status EXCEPT ![n] =
                     [m \in Routers |->
                         IF m \in Expired(n) THEN "INACTIVE" ELSE status[n][m]]]
    /\ linkCost' = [linkCost EXCEPT ![n] =
                     [m \in Routers |->
                         IF m \in Expired(n) THEN INF ELSE linkCost[n][m]]]
    /\ vectors' = [vectors EXCEPT ![n] = Cut(n, Expired(n))]
    /\ table' = [table EXCEPT ![n] =
                    IF Expired(n) = {} THEN table[n] ELSE TableOf(Cut(n, Expired(n)), n)]
    /\ UNCHANGED age

\* A clock tick within the update interval.
ClockTick(n) ==
    /\ n \in Running
    /\ Expired(n) # {}
    /\ MarkInactive(n)
    /\ UNCHANGED <<phase, net, sent, counts>>

\* The clock tick that completes an update interval.
IntervalTick(n) ==
    /\ n \in Running
    /\ HasRoom(n)
    /\ MarkInactive(n)
    /\ SendRoutingUpdates(n, table'[n])
    /\ UNCHANGED <<phase, counts>>

\* Mutants of ProcessUpdate: the status is not looked at, and costs that grew
\* are not believed.
ProcessUpdateAlways(msg) ==
    LET n == msg.dst
        m == msg.src
        v == [vectors[n] EXCEPT ![m] = msg.vec]
    IN  /\ status' = [status EXCEPT ![n][m] = "ACTIVE"]
        /\ age' = [age EXCEPT ![n][m] = 0]
        /\ vectors' = [vectors EXCEPT ![n] = v]
        /\ table' = [table EXCEPT ![n] = TableOf(v, n)]
        /\ UNCHANGED linkCost

ProcessUpdateCheaper(msg) ==
    LET n == msg.dst
        m == msg.src
        v == [vectors[n] EXCEPT ![m] =
                [d \in Routers |-> IF msg.vec[d] < @[d] THEN msg.vec[d] ELSE @[d]]]
    IN  IF status[n][m] = "INACTIVE"
        THEN UNCHANGED local
        ELSE /\ status' = [status EXCEPT ![n][m] = "ACTIVE"]
             /\ age' = [age EXCEPT ![n][m] = 0]
             /\ vectors' = [vectors EXCEPT ![n] = v]
             /\ table' = [table EXCEPT ![n] = TableOf(v, n)]
             /\ UNCHANGED linkCost

\* process_update, for a datagram msg from a router n knows.
ProcessUpdate(msg) ==
    LET n == msg.dst
        m == msg.src
        v == [vectors[n] EXCEPT ![m] = msg.vec]
    IN  IF status[n][m] = "INACTIVE"
        THEN UNCHANGED local
        ELSE /\ status' = [status EXCEPT ![n][m] = "ACTIVE"]
             /\ age' = [age EXCEPT ![n][m] = 0]
             /\ vectors' = [vectors EXCEPT ![n] = v]
             /\ table' = [table EXCEPT ![n] = TableOf(v, n)]
             /\ UNCHANGED linkCost

\* A datagram is delivered; unless delays are bounded the network may keep a
\* copy of it, and datagrams may overtake each other.
ReceiveUpdate(msg) ==
    /\ msg.dst \in Running
    /\ ProcessUpdate(msg)
    /\ \/ net' = net \ {msg}
       \/ ~Timely /\ UNCHANGED net
    /\ UNCHANGED <<phase, sent, counts>>

\* The network loses a datagram; without bounded delays, any number of them.
Lose(msg) ==
    /\ losses' = IF Timely THEN losses + 1 ELSE losses
    /\ losses' <= MaxLosses
    /\ net' = net \ {msg}
    /\ UNCHANGED <<phase, local, sent, updates, crashes>>

\* Mutant of UpdateCost: the table is not recomputed.
UpdateCostOnly(n, m, c) ==
    /\ n \in Running
    /\ updates < MaxUpdates
    /\ updates' = updates + 1
    /\ linkCost' = [linkCost EXCEPT ![n] =
                       [l \in Routers |-> IF Index[n][l] = m THEN c ELSE linkCost[n][l]]]
    /\ vectors' = [vectors EXCEPT ![n][n][m] = c]
    /\ UNCHANGED <<phase, status, age, table, net, sent, crashes, losses>>

\* UPDATE for the link to the neighbour whose id is m. The cost field is that
\* of the entry at POSITION m of the vector; the link cost is that of id m.
UpdateCost(n, m, c) ==
    LET v == [vectors[n] EXCEPT ![n][m] = c]
    IN  /\ n \in Running
        /\ updates < MaxUpdates
        /\ updates' = updates + 1
        /\ linkCost' = [linkCost EXCEPT ![n] =
                           [l \in Routers |-> IF Index[n][l] = m THEN c ELSE linkCost[n][l]]]
        /\ vectors' = [vectors EXCEPT ![n] = v]
        /\ table' = [table EXCEPT ![n] = TableOf(v, n)]
        /\ UNCHANGED <<phase, status, age, net, sent, crashes, losses>>

\* The process of n ends and is never restarted.
Exit(n) ==
    /\ n \in Running
    /\ phase' = [phase EXCEPT ![n] = "gone"]
    /\ net' = {msg \in net : msg.dst # n}
    /\ UNCHANGED <<local, sent, updates, losses>>

\* CRASH.
CrashNow(n) ==
    /\ Exit(n)
    /\ crashes < MaxCrashes
    /\ crashes' = crashes + 1

\* An update interval passes at n since it last heard m; three or more, in one
\* step, when intervals pass at any rate. Nothing reads the age of an INACTIVE
\* neighbour.
Elapse(n, m) ==
    /\ n \in Running
    /\ m \in Neighbours(n)
    /\ status[n][m] # "INACTIVE"
    /\ age[n][m] < MaxAge
    /\ Timely => /\ m \in sent[n] \/ phase[m] = "gone"
                 /\ InFlight(m, n) = {}
    /\ age' = [age EXCEPT ![n][m] = IF Timely THEN age[n][m] + 1 ELSE MaxAge]
    /\ sent' = [sent EXCEPT ![n] = sent[n] \ {m}]
    /\ UNCHANGED <<phase, status, linkCost, vectors, table, net, counts>>

-------------------------------------------------------------------------------

Controller ==
    \E n \in Routers :
        \/ InitResponse(n)
        \/ CrashNow(n)
        \/ \E m \in Neighbours(n), c \in UpdateCosts : UpdateCost(n, m, c)

Timer ==
    \E n \in Routers :
        \/ ClockTick(n)
        \/ IntervalTick(n)
        \/ \E m \in Routers : Elapse(n, m)

Network == \E msg \in net : ReceiveUpdate(msg) \/ Lose(msg)

Next == Controller \/ Timer \/ Network

Spec == Init /\ [][Next]_vars

\* The select loop reaches its timeout again and again, the network delivers a
\* datagram it does not lose, and time passes. INIT reaches every router; the
\* controller promises nothing else.
Fairness ==
    /\ \A n \in Routers :
          /\ WF_vars(InitResponse(n))
          /\ WF_vars(ClockTick(n))
          /\ WF_vars(IntervalTick(n))
          /\ \A m \in Neighbours(n) : WF_vars(Elapse(n, m))
    /\ \A n \in Routers : \A m \in Neighbours(n) :
          WF_vars(\E msg \in net : msg.src = m /\ msg.dst = n /\ ReceiveUpdate(msg))

FairSpec == Spec /\ Fairness

-------------------------------------------------------------------------------

TypeOK ==
    /\ phase \in [Routers -> {"new", "running", "gone"}]
    /\ status \in [Routers -> [Routers -> {"INITIALIZED", "ACTIVE", "INACTIVE"}]]
    /\ linkCost \in [Routers -> [Routers -> Cost]]
    /\ age \in [Routers -> [Routers -> 0 .. MaxAge]]
    /\ vectors \in [Routers -> [Routers -> [Routers -> Cost]]]
    /\ table \in [Routers -> [Routers -> Route]]
    /\ net \subseteq Datagram
    /\ sent \in [Routers -> SUBSET Routers]
    /\ updates \in 0 .. MaxUpdates
    /\ crashes \in 0 .. MaxCrashes
    /\ losses \in 0 .. MaxLosses

\* Between two calls of select no table is out of date: whichever handlers ran,
\* in whatever order, it is what recompute_routing_table would compute now.
TableCurrent == \A n \in Routers : table[n] = TableOf(vectors[n], n)

\* The declarative table is the one the code's loop computes, whatever vectors
\* the routers come to hold, ties included.
TableAsComputed ==
    \A n \in Routers : \A d \in Routers \ {n} : table[n][d] = LoopRoute(vectors[n], n, d)

\* What ROUTING-TABLE reports is well formed: the next hop is INF exactly when
\* the cost is, and otherwise it is a neighbour reached over a finite link.
RouteWellFormed ==
    \A n \in Routers : \A d \in Routers \ {n} :
        LET r == table[n][d]
        IN  /\ (r.cost = INF) <=> (r.hop = INF)
            /\ r.hop # INF => r.hop \in Neighbours(n) /\ vectors[n][n][r.hop] # INF

\* mark_inactive takes a dead neighbour out of the network: no route leads
\* through a neighbour that has timed out.
NoRouteViaInactive ==
    \A n, d \in Routers :
        LET hop == table[n][d].hop IN hop \in Neighbours(n) => status[n][hop] # "INACTIVE"

\* No two finite costs add up past INF to a small one: a route costs at least
\* as much as its first link (the comment in recompute_routing_table).
NoWrapAround ==
    \A n, d \in Routers :
        LET r == table[n][d] IN r.hop \in Neighbours(n) => r.cost >= vectors[n][n][r.hop]

\* Losses, duplicates, reordering, crashes and timeouts never make a router
\* believe in a path cheaper than the cheapest the topology has.
NoUnderestimate ==
    LET dist == Shortest[Routers]
    IN  /\ \A n, d \in Routers : table[n][d].cost >= dist[n][d]
        /\ \A msg \in net : \A d \in Routers : msg.vec[d] >= dist[msg.src][d]

\* No router is gone, and the one UPDATE there was, if any, made a link cheaper.
OnlyCheaper ==
    /\ \A n \in Routers : phase[n] # "gone"
    /\ updates <= 1
    /\ \A n, m \in Routers : vectors[n][n][m] <= Link[n][m]

\* Until something gets worse, each next hop is closer to the destination, in its
\* own table of this very moment, than the router that uses it: vectors held and
\* in flight lag behind, but never promise too much, so no two routers ever take
\* each other for the way to one destination.
NextHopsDescend ==
    OnlyCheaper =>
        \A n \in Routers : \A d \in Routers \ {n} :
            LET r == table[n][d] IN r.hop \in Neighbours(n) => table[r.hop][d].cost < r.cost

\* A timeout is final: once n has given m up, whatever m sends and whatever was
\* still in flight changes neither m's status nor the vector n holds for it.
TimeoutIsFinal ==
    [][\A n, m \in Routers :
          status[n][m] = "INACTIVE" =>
              status'[n][m] = "INACTIVE" /\ vectors'[n][m] = vectors[n][m]]_vars

\* With bounded delays and at most one lost datagram, only a router that has
\* crashed is ever given up.
NoFalseTimeout ==
    \A n \in Running : \A m \in Neighbours(n) :
        status[n][m] = "INACTIVE" => phase[m] = "gone"

\* With bounded delays and at most one lost datagram the timers are a perfect
\* failure detector, whatever happens to datagrams, costs and tables.
Detector == INSTANCE FailureDetector

DetectsPerfectly == Detector!Spec

\* Crashed routers are noticed: again and again there is a time when every
\* surviving neighbour of every crashed router has given it up.
CrashDetected ==
    []<>(\A n \in Running : \A m \in Neighbours(n) :
            phase[m] = "gone" => status[n][m] = "INACTIVE")

==============================================================================
