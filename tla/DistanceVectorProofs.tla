------------------------- MODULE DistanceVectorProofs -------------------------
(***************************************************************************)
(* Theorems about DistanceVector, for every network, every bound and any   *)
(* number of losses, duplicates, crashes and UPDATE messages.              *)
(***************************************************************************)
EXTENDS DistanceVector, RouteTableProofs

Statuses == {"INITIALIZED", "ACTIVE", "INACTIVE"}

-------------------------------------------------------------------------------
(***************************************************************************)
(* Type correctness.                                                       *)
(***************************************************************************)

\* Setting link costs to infinity leaves vectors of costs.
LEMMA CutType ==
    ASSUME TypeOK, NEW n \in Routers, NEW gone
    PROVE  Cut(n, gone) \in Vectors
<1>1. INF \in Cost
    BY InfAssumption DEF Cost
<1> QED BY <1>1 DEF TypeOK, Cut, Vectors

\* What is sent is a set of datagrams.
LEMMA SendType ==
    ASSUME TypeOK, NEW n \in Routers, NEW tab \in [Routers -> Route],
           SendRoutingUpdates(n, tab)
    PROVE  /\ net' \subseteq Datagram
           /\ sent' \in [Routers -> SUBSET Routers]
<1>1. Payload(tab) \in [Routers -> Cost]
    BY DEF Payload, Route
<1>2. [src : {n}, dst : Listeners(n), vec : {Payload(tab)}] \subseteq Datagram
    BY <1>1 DEF Listeners, Running, Datagram
<1>3. net' \subseteq Datagram
    BY <1>2 DEF SendRoutingUpdates, TypeOK
<1>4. sent' \in [Routers -> SUBSET Routers]
    BY DEF SendRoutingUpdates, TypeOK
<1> QED BY <1>3, <1>4

\* mark_inactive keeps every type.
LEMMA MarkInactiveType ==
    ASSUME TypeOK, NEW n \in Routers, MarkInactive(n)
    PROVE  /\ status' \in [Routers -> [Routers -> Statuses]]
           /\ linkCost' \in [Routers -> [Routers -> Cost]]
           /\ age' = age
           /\ vectors' \in [Routers -> Vectors]
           /\ table' \in [Routers -> [Routers -> Route]]
<1>1. status' \in [Routers -> [Routers -> Statuses]]
    BY DEF MarkInactive, TypeOK, Statuses
<1>2. linkCost' \in [Routers -> [Routers -> Cost]]
    <2>1. INF \in Cost
        BY InfAssumption DEF Cost
    <2> QED BY <2>1 DEF MarkInactive, TypeOK
<1>3. vectors' \in [Routers -> Vectors]
    <2>1. Cut(n, Expired(n)) \in Vectors
        BY CutType
    <2>2. vectors \in [Routers -> Vectors]
        BY DEF TypeOK, Vectors
    <2> QED BY <2>1, <2>2 DEF MarkInactive
<1>4. table' \in [Routers -> [Routers -> Route]]
    <2>1. TableOf(Cut(n, Expired(n)), n) \in [Routers -> Route]
        BY CutType, TableType
    <2> QED BY <2>1 DEF MarkInactive, TypeOK
<1> QED BY <1>1, <1>2, <1>3, <1>4 DEF MarkInactive

\* A datagram of the right shape leaves the tables well typed.
LEMMA ProcessUpdateType ==
    ASSUME TypeOK, NEW msg \in net, ProcessUpdate(msg)
    PROVE  /\ status' \in [Routers -> [Routers -> Statuses]]
           /\ linkCost' \in [Routers -> [Routers -> Cost]]
           /\ age' \in [Routers -> [Routers -> 0 .. MaxAge]]
           /\ vectors' \in [Routers -> Vectors]
           /\ table' \in [Routers -> [Routers -> Route]]
<1> DEFINE n == msg.dst
           m == msg.src
           v == [vectors[n] EXCEPT ![m] = msg.vec]
<1>1. n \in Routers /\ m \in Routers /\ msg.vec \in [Routers -> Cost]
    BY DEF TypeOK, Datagram
<1>2. v \in Vectors
    BY <1>1 DEF TypeOK, Vectors
<1>3. TableOf(v, n) \in [Routers -> Route]
    <2> HIDE DEF v, n
    <2> QED BY <1>1, <1>2, TableType
<1>4. vectors \in [Routers -> Vectors]
    BY DEF TypeOK, Vectors
<1>5. CASE status[n][m] = "INACTIVE"
    BY <1>4, <1>5 DEF ProcessUpdate, TypeOK, local, Statuses
<1>6. CASE status[n][m] # "INACTIVE"
    <2>1. /\ status' = [status EXCEPT ![n][m] = "ACTIVE"]
          /\ age' = [age EXCEPT ![n][m] = 0]
          /\ vectors' = [vectors EXCEPT ![n] = v]
          /\ table' = [table EXCEPT ![n] = TableOf(v, n)]
          /\ linkCost' = linkCost
        BY <1>6 DEF ProcessUpdate
    <2>2. status' \in [Routers -> [Routers -> Statuses]]
        BY <2>1, <1>1 DEF TypeOK, Statuses
    <2>3. age' \in [Routers -> [Routers -> 0 .. MaxAge]]
        BY <2>1, <1>1 DEF TypeOK, MaxAge
    <2> HIDE DEF v, n, m
    <2>4. vectors' \in [Routers -> Vectors]
        BY <2>1, <1>1, <1>2, <1>4
    <2>5. table' \in [Routers -> [Routers -> Route]]
        BY <2>1, <1>1, <1>3 DEF TypeOK
    <2> QED BY <2>1, <2>2, <2>3, <2>4, <2>5 DEF TypeOK
<1> QED BY <1>5, <1>6

\* The initial state has its types.
LEMMA TypeInit == Init => TypeOK
<1> SUFFICES ASSUME Init PROVE TypeOK
    OBVIOUS
<1>1. vectors \in [Routers -> [Routers -> [Routers -> Cost]]]
    BY InitialVectorsType DEF Init, Vectors
<1>2. table \in [Routers -> [Routers -> Route]]
    BY InitialVectorsType, TableType DEF Init
<1>3. linkCost \in [Routers -> [Routers -> Cost]]
    BY LinkAssumption DEF Init
<1>4. age \in [Routers -> [Routers -> 0 .. MaxAge]]
    BY DEF Init, MaxAge
<1>5. updates \in 0 .. MaxUpdates /\ crashes \in 0 .. MaxCrashes /\ losses \in 0 .. MaxLosses
    BY BoundsAssumption DEF Init
<1>6. /\ phase \in [Routers -> {"new", "running", "gone"}]
      /\ status \in [Routers -> [Routers -> {"INITIALIZED", "ACTIVE", "INACTIVE"}]]
      /\ net \subseteq Datagram
      /\ sent \in [Routers -> SUBSET Routers]
    BY DEF Init
<1> QED BY <1>1, <1>2, <1>3, <1>4, <1>5, <1>6 DEF TypeOK

\* Every step keeps the types.
LEMMA TypeStep == TypeOK /\ [Next]_vars => TypeOK'
<1> SUFFICES ASSUME TypeOK, [Next]_vars PROVE TypeOK'
    OBVIOUS
<1> USE DEF Vectors, Statuses
<1>1. ASSUME NEW n \in Routers, InitResponse(n) PROVE TypeOK'
    <2>1. net' \subseteq Datagram /\ sent' \in [Routers -> SUBSET Routers]
        BY <1>1, SendType DEF InitResponse, TypeOK
    <2> QED BY <1>1, <2>1 DEF InitResponse, TypeOK, local, counts
<1>2. ASSUME NEW n \in Routers, CrashNow(n) PROVE TypeOK'
    <2>1. crashes' \in 0 .. MaxCrashes
        BY <1>2, BoundsAssumption DEF CrashNow, Exit, TypeOK
    <2> QED BY <1>2, <2>1 DEF CrashNow, Exit, TypeOK, local
<1>3. ASSUME NEW n \in Routers, NEW m \in Neighbours(n), NEW c \in UpdateCosts,
             UpdateCost(n, m, c)
      PROVE  TypeOK'
    <2> DEFINE v == [vectors[n] EXCEPT ![n][m] = c]
    <2>1. c \in Cost /\ m \in Routers
        BY UpdateCostsAssumption DEF Neighbours
    <2>2. v \in Vectors
        BY <2>1 DEF TypeOK
    <2>3. TableOf(v, n) \in [Routers -> Route]
        BY <2>2, TableType
    <2>4. vectors' = [vectors EXCEPT ![n] = v] /\ table' = [table EXCEPT ![n] = TableOf(v, n)]
        BY <1>3 DEF UpdateCost
    <2>5. vectors' \in [Routers -> Vectors]
        BY <2>2, <2>4 DEF TypeOK
    <2>6. table' \in [Routers -> [Routers -> Route]]
        BY <2>3, <2>4 DEF TypeOK
    <2>7. linkCost' \in [Routers -> [Routers -> Cost]]
        BY <1>3, <2>1 DEF UpdateCost, TypeOK
    <2>8. updates' \in 0 .. MaxUpdates
        BY <1>3, BoundsAssumption DEF UpdateCost, TypeOK
    <2> QED BY <1>3, <2>5, <2>6, <2>7, <2>8 DEF UpdateCost, TypeOK
<1>4. ASSUME NEW n \in Routers, ClockTick(n) PROVE TypeOK'
    BY <1>4, MarkInactiveType DEF ClockTick, TypeOK, counts
<1>5. ASSUME NEW n \in Routers, IntervalTick(n) PROVE TypeOK'
    <2>1. MarkInactive(n) /\ SendRoutingUpdates(n, table'[n])
        BY <1>5 DEF IntervalTick
    <2>2. table'[n] \in [Routers -> Route]
        BY <2>1, MarkInactiveType
    <2>3. net' \subseteq Datagram /\ sent' \in [Routers -> SUBSET Routers]
        BY <2>1, <2>2, SendType
    <2> QED BY <1>5, <2>1, <2>3, MarkInactiveType DEF IntervalTick, TypeOK, counts
<1>6. ASSUME NEW n \in Routers, NEW m \in Routers, Elapse(n, m) PROVE TypeOK'
    <2> DEFINE older == IF Timely THEN age[n][m] + 1 ELSE MaxAge
    <2>0. older \in 0 .. MaxAge
        <3>1. age[n][m] \in 0 .. 3 /\ age[n][m] < 3
            BY <1>6 DEF Elapse, TypeOK, MaxAge
        <3>2. CASE Timely
            BY <3>1, <3>2 DEF MaxAge
        <3>3. CASE ~Timely
            BY <3>3 DEF MaxAge
        <3> QED BY <3>2, <3>3
    <2>1. age' \in [Routers -> [Routers -> 0 .. MaxAge]]
        <3>1. age' = [age EXCEPT ![n][m] = older]
            BY <1>6 DEF Elapse
        <3> HIDE DEF older
        <3> QED BY <2>0, <3>1 DEF TypeOK
    <2>2. sent' \in [Routers -> SUBSET Routers]
        BY <1>6 DEF Elapse, TypeOK
    <2> QED BY <1>6, <2>1, <2>2 DEF Elapse, TypeOK, counts
<1>7. ASSUME NEW msg \in net, ReceiveUpdate(msg) PROVE TypeOK'
    <2>1. ProcessUpdate(msg)
        BY <1>7 DEF ReceiveUpdate
    <2>2. net' \subseteq Datagram
        BY <1>7 DEF ReceiveUpdate, TypeOK
    <2> QED BY <1>7, <2>1, <2>2, ProcessUpdateType DEF ReceiveUpdate, TypeOK, counts
<1>8. ASSUME NEW msg \in net, Lose(msg) PROVE TypeOK'
    <2>1. losses' \in 0 .. MaxLosses
        BY <1>8, BoundsAssumption DEF Lose, TypeOK
    <2> QED BY <1>8, <2>1 DEF Lose, TypeOK, local
<1>9. CASE UNCHANGED vars
    BY <1>9 DEF vars, local, counts, TypeOK
<1> QED
    BY <1>1, <1>2, <1>3, <1>4, <1>5, <1>6, <1>7, <1>8, <1>9
    DEF Next, Controller, Timer, Network

\* Every reachable state has its types: in particular no cost leaves the word,
\* whatever is added up, and no table entry names an unknown router.
THEOREM TypeCorrect == Spec => []TypeOK
BY TypeInit, TypeStep, PTL DEF Spec

-------------------------------------------------------------------------------
(***************************************************************************)
(* Tables.                                                                 *)
(***************************************************************************)

\* Only a step of n itself touches the tables of n, and each one that touches
\* its vectors enters the recomputed table.
LEMMA TableCurrentStep ==
    TypeOK /\ TableCurrent /\ [Next]_vars => TableCurrent'
<1> SUFFICES ASSUME TypeOK, TableCurrent, [Next]_vars PROVE TableCurrent'
    OBVIOUS
<1>1. ASSUME UNCHANGED <<vectors, table>> PROVE TableCurrent'
    BY <1>1 DEF TableCurrent
<1>2. ASSUME NEW n \in Routers, NEW v,
             vectors' = [vectors EXCEPT ![n] = v],
             table' = [table EXCEPT ![n] = TableOf(v, n)]
      PROVE  TableCurrent'
    BY <1>2 DEF TableCurrent, TypeOK
<1>3. ASSUME NEW n \in Routers, MarkInactive(n) PROVE TableCurrent'
    <2>1. CASE Expired(n) = {}
        <3>1. Cut(n, {}) = vectors[n]
            BY DEF Cut, TypeOK
        <3>2. UNCHANGED <<vectors, table>>
            BY <1>3, <2>1, <3>1 DEF MarkInactive, TypeOK
        <3> QED BY <3>2, <1>1
    <2>2. CASE Expired(n) # {}
        <3>1. /\ vectors' = [vectors EXCEPT ![n] = Cut(n, Expired(n))]
              /\ table' = [table EXCEPT ![n] = TableOf(Cut(n, Expired(n)), n)]
            BY <1>3, <2>2 DEF MarkInactive
        <3> QED BY <3>1, <1>2
    <2> QED BY <2>1, <2>2
<1>4. ASSUME NEW n \in Routers, InitResponse(n) \/ CrashNow(n) PROVE TableCurrent'
    BY <1>1, <1>4 DEF InitResponse, CrashNow, Exit, local
<1>5. ASSUME NEW n \in Routers, NEW m \in Neighbours(n), NEW c \in UpdateCosts,
             UpdateCost(n, m, c)
      PROVE  TableCurrent'
    BY <1>2, <1>5 DEF UpdateCost
<1>6. ASSUME NEW n \in Routers, ClockTick(n) \/ IntervalTick(n) PROVE TableCurrent'
    BY <1>3, <1>6 DEF ClockTick, IntervalTick
<1>7. ASSUME NEW n \in Routers, NEW m \in Routers, Elapse(n, m) PROVE TableCurrent'
    BY <1>1, <1>7 DEF Elapse
<1>8. ASSUME NEW msg \in net, ReceiveUpdate(msg) PROVE TableCurrent'
    <2>1. msg.dst \in Routers
        BY DEF TypeOK, Datagram
    <2>2. CASE status[msg.dst][msg.src] = "INACTIVE"
        BY <1>1, <1>8, <2>2 DEF ReceiveUpdate, ProcessUpdate, local
    <2>3. CASE status[msg.dst][msg.src] # "INACTIVE"
        BY <1>2, <1>8, <2>1, <2>3 DEF ReceiveUpdate, ProcessUpdate
    <2> QED BY <2>2, <2>3
<1>9. ASSUME NEW msg \in net, Lose(msg) PROVE TableCurrent'
    BY <1>1, <1>9 DEF Lose, local
<1>10. CASE UNCHANGED vars
    BY <1>1, <1>10 DEF vars, local
<1> QED
    BY <1>4, <1>5, <1>6, <1>7, <1>8, <1>9, <1>10
    DEF Next, Controller, Timer, Network

\* No table is ever out of date with the vectors it is computed from.
THEOREM TablesCurrent == Spec => []TableCurrent
<1>1. Init => TableCurrent
    BY DEF Init, TableCurrent
<1> QED BY <1>1, TypeInit, TypeStep, TableCurrentStep, PTL DEF Spec

\* What the loop of recompute_routing_table computes for the vectors held is what
\* the tables say, in every reachable state.
THEOREM TablesAsComputed == Spec => []TableAsComputed
<1>1. ASSUME TypeOK, TableCurrent
      PROVE  TableAsComputed
    <2> SUFFICES ASSUME NEW n \in Routers, NEW d \in Routers \ {n}
                 PROVE  table[n][d] = LoopRoute(vectors[n], n, d)
        BY DEF TableAsComputed
    <2>1. vectors[n] \in Vectors
        BY <1>1 DEF TypeOK, Vectors
    <2>2. table[n][d] = RouteTo(vectors[n], n, d)
        BY <1>1 DEF TableCurrent, TableOf
    <2> QED BY <2>1, <2>2, LoopIsRoute
<1> QED BY <1>1, TypeCorrect, TablesCurrent, PTL


\* The entry of n for itself is the one parse_init wrote; the others are as
\* the lemma RouteFacts says.
LEMMA TableEntries ==
    ASSUME TypeOK, TableCurrent, NEW n \in Routers, NEW d \in Routers
    PROVE  /\ d = n => table[n][d] = [cost |-> 0, hop |-> n]
           /\ d # n => table[n][d] = RouteTo(vectors[n], n, d)
           /\ vectors[n] \in Vectors
BY DEF TypeOK, TableCurrent, TableOf, Vectors

\* What ROUTING-TABLE reports is always well formed.
THEOREM RoutesWellFormed == Spec => []RouteWellFormed
<1>1. TypeOK /\ TableCurrent => RouteWellFormed
    <2> SUFFICES ASSUME TypeOK, TableCurrent,
                        NEW n \in Routers, NEW d \in Routers \ {n}
                 PROVE  LET r == table[n][d]
                        IN  /\ (r.cost = INF) <=> (r.hop = INF)
                            /\ r.hop # INF =>
                                  r.hop \in Neighbours(n) /\ vectors[n][n][r.hop] # INF
        BY DEF RouteWellFormed
    <2>1. table[n][d] = RouteTo(vectors[n], n, d) /\ vectors[n] \in Vectors
        BY TableEntries
    <2>2. INF \notin Neighbours(n)
        BY InfAssumption DEF Neighbours
    <2> QED BY <2>1, <2>2, RouteFacts
<1> QED BY <1>1, TypeCorrect, TablesCurrent, PTL

-------------------------------------------------------------------------------
(***************************************************************************)
(* Timeouts.                                                               *)
(***************************************************************************)

\* What receiving a datagram does to each pair of routers: nothing if the sender
\* has timed out, else it concerns the receiver's entry for the sender alone.
LEMMA ReceiveEffect ==
    ASSUME TypeOK, NEW msg \in net, ReceiveUpdate(msg)
    PROVE  /\ msg.dst \in Running /\ msg.dst \in Routers /\ msg.src \in Routers
           /\ msg.vec \in [Routers -> Cost]
           /\ \/ UNCHANGED <<status, age, vectors, table>>
              \/ /\ status[msg.dst][msg.src] # "INACTIVE"
                 /\ \A k, l \in Routers :
                       IF k = msg.dst /\ l = msg.src
                       THEN /\ status'[k][l] = "ACTIVE"
                            /\ age'[k][l] = 0
                            /\ vectors'[k][l] = msg.vec
                       ELSE /\ status'[k][l] = status[k][l]
                            /\ age'[k][l] = age[k][l]
                            /\ vectors'[k][l] = vectors[k][l]
<1> DEFINE n == msg.dst
           m == msg.src
           v == [vectors[n] EXCEPT ![m] = msg.vec]
<1>1. n \in Running /\ n \in Routers /\ m \in Routers /\ msg.vec \in [Routers -> Cost]
    BY DEF TypeOK, Datagram, ReceiveUpdate
<1>2. CASE status[n][m] = "INACTIVE"
    BY <1>1, <1>2 DEF ReceiveUpdate, ProcessUpdate, local
<1>3. CASE status[n][m] # "INACTIVE"
    <2>1. /\ status' = [status EXCEPT ![n][m] = "ACTIVE"]
          /\ age' = [age EXCEPT ![n][m] = 0]
          /\ vectors' = [vectors EXCEPT ![n] = v]
        BY <1>3 DEF ReceiveUpdate, ProcessUpdate
    <2> HIDE DEF n, m
    <2> SUFFICES ASSUME NEW k \in Routers, NEW l \in Routers
                 PROVE  IF k = n /\ l = m
                        THEN /\ status'[k][l] = "ACTIVE"
                             /\ age'[k][l] = 0
                             /\ vectors'[k][l] = msg.vec
                        ELSE /\ status'[k][l] = status[k][l]
                             /\ age'[k][l] = age[k][l]
                             /\ vectors'[k][l] = vectors[k][l]
        BY <1>1, <1>3 DEF n, m
    <2>2. status'[k][l] = IF k = n /\ l = m THEN "ACTIVE" ELSE status[k][l]
        BY <1>1, <2>1 DEF TypeOK
    <2>3. age'[k][l] = IF k = n /\ l = m THEN 0 ELSE age[k][l]
        BY <1>1, <2>1 DEF TypeOK
    <2>4. vectors'[k][l] = IF k = n /\ l = m THEN msg.vec ELSE vectors[k][l]
        BY <1>1, <2>1 DEF TypeOK
    <2> QED BY <2>2, <2>3, <2>4
<1> QED BY <1>2, <1>3

\* Datagrams travel between neighbours, and only neighbours time out.
OnlyNeighbours ==
    /\ \A msg \in net : msg.src \in Neighbours(msg.dst)
    /\ \A n, m \in Routers : status[n][m] = "INACTIVE" => m \in Neighbours(n)

\* Links have two ends.
LEMMA NeighboursSymmetric ==
    ASSUME NEW n \in Routers, NEW m \in Neighbours(n)
    PROVE  m \in Routers /\ m # n /\ n \in Neighbours(m)
BY LinkAssumption DEF Neighbours

\* A router sends to its neighbours, and they are its neighbours too.
LEMMA SendNeighbours ==
    ASSUME OnlyNeighbours, NEW n \in Routers, NEW tab, SendRoutingUpdates(n, tab)
    PROVE  \A msg \in net' : msg.src \in Neighbours(msg.dst)
<1> SUFFICES ASSUME NEW msg \in net' PROVE msg.src \in Neighbours(msg.dst)
    OBVIOUS
<1>1. CASE msg \in net
    BY <1>1 DEF OnlyNeighbours
<1>2. CASE msg \in [src : {n}, dst : Listeners(n), vec : {Payload(tab)}]
    <2>1. msg.src = n /\ msg.dst \in Neighbours(n)
        BY <1>2 DEF Listeners
    <2> QED BY <2>1, NeighboursSymmetric
<1> QED BY <1>1, <1>2 DEF SendRoutingUpdates

LEMMA OnlyNeighboursStep ==
    TypeOK /\ OnlyNeighbours /\ [Next]_vars => OnlyNeighbours'
<1> SUFFICES ASSUME TypeOK, OnlyNeighbours, [Next]_vars PROVE OnlyNeighbours'
    OBVIOUS
<1>1. ASSUME net' \subseteq net, UNCHANGED status PROVE OnlyNeighbours'
    BY <1>1 DEF OnlyNeighbours
<1>2. ASSUME NEW n \in Routers, MarkInactive(n)
      PROVE  \A k, m \in Routers : status'[k][m] = "INACTIVE" => m \in Neighbours(k)
    BY <1>2 DEF MarkInactive, Expired, OnlyNeighbours, TypeOK
<1>3. ASSUME NEW n \in Routers, InitResponse(n) PROVE OnlyNeighbours'
    BY <1>3, SendNeighbours DEF InitResponse, OnlyNeighbours, local
<1>4. ASSUME NEW n \in Routers, CrashNow(n) PROVE OnlyNeighbours'
    BY <1>1, <1>4 DEF CrashNow, Exit, local
<1>5. ASSUME NEW n \in Routers, NEW m, NEW c, UpdateCost(n, m, c) PROVE OnlyNeighbours'
    BY <1>1, <1>5 DEF UpdateCost
<1>6. ASSUME NEW n \in Routers, ClockTick(n) PROVE OnlyNeighbours'
    BY <1>2, <1>6 DEF ClockTick, OnlyNeighbours
<1>7. ASSUME NEW n \in Routers, IntervalTick(n) PROVE OnlyNeighbours'
    BY <1>2, <1>7, SendNeighbours DEF IntervalTick, OnlyNeighbours
<1>8. ASSUME NEW n \in Routers, NEW m \in Routers, Elapse(n, m) PROVE OnlyNeighbours'
    BY <1>1, <1>8 DEF Elapse
<1>9. ASSUME NEW msg \in net, ReceiveUpdate(msg) PROVE OnlyNeighbours'
    <2>1. net' \subseteq net
        BY <1>9 DEF ReceiveUpdate
    <2>2. ASSUME NEW n \in Routers, NEW m \in Routers, status'[n][m] = "INACTIVE"
          PROVE  status[n][m] = "INACTIVE"
        BY <1>9, <2>2, ReceiveEffect
    <2> QED BY <2>1, <2>2 DEF OnlyNeighbours
<1>10. ASSUME NEW msg \in net, Lose(msg) PROVE OnlyNeighbours'
    BY <1>1, <1>10 DEF Lose, local
<1>11. CASE UNCHANGED vars
    BY <1>1, <1>11 DEF vars, local
<1> QED
    BY <1>3, <1>4, <1>5, <1>6, <1>7, <1>8, <1>9, <1>10, <1>11
    DEF Next, Controller, Timer, Network

LEMMA OnlyNeighboursAlways == Spec => []OnlyNeighbours
<1>1. Init => OnlyNeighbours
    BY DEF Init, OnlyNeighbours
<1> QED BY <1>1, TypeInit, TypeStep, OnlyNeighboursStep, PTL DEF Spec

\* One step never revives a neighbour, nor believes what it still says.
LEMMA FinalStep ==
    ASSUME TypeOK, OnlyNeighbours, [Next]_vars,
           NEW n \in Routers, NEW m \in Routers, status[n][m] = "INACTIVE"
    PROVE  status'[n][m] = "INACTIVE" /\ vectors'[n][m] = vectors[n][m]
<1>1. m # n
    BY DEF OnlyNeighbours, Neighbours
<1>2. ASSUME UNCHANGED <<status, vectors>>
      PROVE  status'[n][m] = "INACTIVE" /\ vectors'[n][m] = vectors[n][m]
    BY <1>2
<1>3. ASSUME NEW k \in Routers, MarkInactive(k)
      PROVE  status'[n][m] = "INACTIVE" /\ vectors'[n][m] = vectors[n][m]
    BY <1>1, <1>3 DEF MarkInactive, Cut, TypeOK
<1>4. ASSUME NEW k \in Routers, NEW l, NEW c, UpdateCost(k, l, c)
      PROVE  status'[n][m] = "INACTIVE" /\ vectors'[n][m] = vectors[n][m]
    BY <1>1, <1>4 DEF UpdateCost, TypeOK
<1>5. ASSUME NEW msg \in net, ReceiveUpdate(msg)
      PROVE  status'[n][m] = "INACTIVE" /\ vectors'[n][m] = vectors[n][m]
    BY <1>5, ReceiveEffect
<1>6. CASE UNCHANGED vars
    BY <1>2, <1>6 DEF vars, local
<1> QED
    BY <1>2, <1>3, <1>4, <1>5, <1>6
    DEF Next, Controller, Timer, Network, InitResponse, CrashNow, Exit, ClockTick,
        IntervalTick, Elapse, Lose, local

\* A timeout is final, whatever arrives late, twice or out of order.
THEOREM TimeoutsAreFinal == Spec => TimeoutIsFinal
<1>1. TypeOK /\ OnlyNeighbours /\ [Next]_vars =>
          [\A n, m \in Routers :
              status[n][m] = "INACTIVE" =>
                  status'[n][m] = "INACTIVE" /\ vectors'[n][m] = vectors[n][m]]_vars
    BY FinalStep
<1> QED BY <1>1, TypeCorrect, OnlyNeighboursAlways, PTL DEF Spec, TimeoutIsFinal

-------------------------------------------------------------------------------
(***************************************************************************)
(* Routes through dead neighbours, when no UPDATE is sent.                 *)
(***************************************************************************)

\* The link to a neighbour that timed out stays cut.
InactiveCut ==
    \A n, m \in Routers : status[n][m] = "INACTIVE" => vectors[n][n][m] = INF

LEMMA InactiveCutStep ==
    ASSUME UpdateCosts = {}, TypeOK, OnlyNeighbours, InactiveCut, [Next]_vars
    PROVE  InactiveCut'
<1>1. ASSUME UNCHANGED <<status, vectors>> PROVE InactiveCut'
    BY <1>1 DEF InactiveCut
<1>2. ASSUME NEW k \in Routers, MarkInactive(k) PROVE InactiveCut'
    BY <1>2 DEF MarkInactive, Cut, TypeOK, InactiveCut
<1>3. ASSUME NEW msg \in net, ReceiveUpdate(msg) PROVE InactiveCut'
    <2>1. msg.src # msg.dst
        BY DEF OnlyNeighbours, Neighbours
    <2> QED BY <1>3, <2>1, ReceiveEffect DEF InactiveCut
<1>4. CASE UNCHANGED vars
    BY <1>1, <1>4 DEF vars, local
<1> QED
    BY <1>1, <1>2, <1>3, <1>4
    DEF Next, Controller, Timer, Network, InitResponse, CrashNow, Exit, ClockTick,
        IntervalTick, Elapse, Lose, local

\* As long as no UPDATE changes a link, no route leads through a neighbour that
\* has timed out.
THEOREM DeadNeighboursUnused ==
    ASSUME UpdateCosts = {}
    PROVE  Spec => []NoRouteViaInactive
<1>1. Init => InactiveCut
    BY DEF Init, InactiveCut
<1>2. TypeOK /\ OnlyNeighbours /\ InactiveCut /\ [Next]_vars => InactiveCut'
    BY InactiveCutStep
<1>3. TypeOK /\ TableCurrent /\ InactiveCut => NoRouteViaInactive
    <2> SUFFICES ASSUME TypeOK, TableCurrent, InactiveCut,
                        NEW n \in Routers, NEW d \in Routers,
                        table[n][d].hop \in Neighbours(n)
                 PROVE  status[n][table[n][d].hop] # "INACTIVE"
        BY DEF NoRouteViaInactive
    <2>1. d # n
        <3> SUFFICES ASSUME d = n PROVE FALSE
            OBVIOUS
        <3>1. table[n][d] = [cost |-> 0, hop |-> n]
            BY TableEntries
        <3> QED BY <3>1 DEF Neighbours
    <2>2. table[n][d] = RouteTo(vectors[n], n, d) /\ vectors[n] \in Vectors
        BY <2>1, TableEntries
    <2>3. INF \notin Neighbours(n)
        BY InfAssumption DEF Neighbours
    <2>4. vectors[n][n][table[n][d].hop] # INF
        BY <2>2, <2>3, RouteFacts
    <2> QED BY <2>4 DEF InactiveCut, Neighbours
<1> QED BY <1>1, <1>2, <1>3, TypeCorrect, TablesCurrent, OnlyNeighboursAlways, PTL DEF Spec

-------------------------------------------------------------------------------
(***************************************************************************)
(* False timeouts.                                                         *)
(***************************************************************************)

\* What is known of the age of m at n: at most one interval more has passed
\* since the last update than updates were lost, and none more once the update
\* for the present interval is lost too.
AgeBound(n, m) ==
    /\ age[n][m] <= losses + 1
    /\ m \in sent[n] /\ InFlight(m, n) = {} => age[n][m] <= losses
    /\ status[n][m] # "INACTIVE"

AgesBounded ==
    \A n \in Routers : \A m \in Neighbours(n) :
        phase[n] # "gone" /\ phase[m] # "gone" => AgeBound(n, m)

\* After a send, whoever counts an update has it in flight.
LEMMA SendAges ==
    ASSUME TypeOK, NEW k \in Routers, NEW tab, SendRoutingUpdates(k, tab),
           NEW n \in Routers, NEW m \in Routers
    PROVE  \/ InFlight(m, n)' # {}
           \/ sent'[n] = sent[n] /\ InFlight(m, n)' = InFlight(m, n)
           \/ m # k /\ (m \in sent'[n] <=> m \in sent[n]) /\ InFlight(m, n)' = InFlight(m, n)
<1> DEFINE new == [src : {k}, dst : Listeners(k), vec : {Payload(tab)}]
<1>1. net' = net \cup new
    BY DEF SendRoutingUpdates
<1>2. CASE n \in Listeners(k) /\ m = k
    <2>1. [src |-> k, dst |-> n, vec |-> Payload(tab)] \in net'
        BY <1>1, <1>2
    <2> QED BY <2>1, <1>2 DEF InFlight
<1>3. CASE n \in Listeners(k) /\ m # k
    <2>1. InFlight(m, n)' = InFlight(m, n)
        BY <1>1, <1>3 DEF InFlight
    <2>2. m \in sent'[n] <=> m \in sent[n]
        BY <1>3 DEF SendRoutingUpdates
    <2> QED BY <2>1, <2>2, <1>3
<1>4. CASE n \notin Listeners(k)
    <2>1. InFlight(m, n)' = InFlight(m, n)
        BY <1>1, <1>4 DEF InFlight
    <2>2. sent'[n] = sent[n]
        BY <1>4 DEF SendRoutingUpdates
    <2> QED BY <2>1, <2>2
<1> QED BY <1>2, <1>3, <1>4

LEMMA AgesBoundedStep ==
    ASSUME Timely, MaxLosses <= 1, TypeOK, AgesBounded, [Next]_vars
    PROVE  AgesBounded'
<1> SUFFICES ASSUME NEW n \in Routers, NEW m \in Neighbours(n),
                    phase'[n] # "gone", phase'[m] # "gone"
             PROVE  AgeBound(n, m)'
    BY DEF AgesBounded, Neighbours
<1>1. m \in Routers /\ age[n][m] \in Nat /\ losses \in Nat /\ losses <= 1
    <2>1. m \in Routers
        BY DEF Neighbours
    <2>2. age[n][m] \in 0 .. 3
        BY <2>1 DEF TypeOK, MaxAge
    <2>3. losses \in 0 .. MaxLosses /\ MaxLosses \in Nat
        BY BoundsAssumption DEF TypeOK
    <2> QED BY <2>1, <2>2, <2>3
<1>2. ASSUME phase[n] # "gone", phase[m] # "gone" PROVE AgeBound(n, m)
    BY <1>2 DEF AgesBounded
<1>3. ASSUME phase[n] # "gone", phase[m] # "gone",
             UNCHANGED <<age, status, sent, losses>>, InFlight(m, n)' = InFlight(m, n)
      PROVE  AgeBound(n, m)'
    BY <1>2, <1>3 DEF AgeBound
<1>4. ASSUME NEW k \in Routers, NEW tab, SendRoutingUpdates(k, tab),
             AgeBound(n, m), UNCHANGED <<age, losses>>, status'[n][m] # "INACTIVE"
      PROVE  AgeBound(n, m)'
    <2>1. age'[n][m] <= losses' + 1 /\ status'[n][m] # "INACTIVE"
        BY <1>4 DEF AgeBound
    <2>2. m \in sent'[n] /\ InFlight(m, n)' = {} => m \in sent[n] /\ InFlight(m, n) = {}
        BY <1>1, <1>4, SendAges
    <2>3. m \in sent'[n] /\ InFlight(m, n)' = {} => age'[n][m] <= losses'
        BY <1>4, <2>2 DEF AgeBound
    <2> QED BY <2>1, <2>2, <2>3 DEF AgeBound
<1>5. ASSUME NEW k \in Routers, MarkInactive(k), AgeBound(n, m)
      PROVE  status'[n][m] # "INACTIVE" /\ age' = age
    <2>1. ~(age[n][m] >= MaxAge)
        BY <1>1, <1>5 DEF AgeBound, MaxAge
    <2> QED BY <1>1, <1>5, <2>1 DEF MarkInactive, Expired, AgeBound, TypeOK
<1>6. ASSUME NEW k \in Routers, InitResponse(k) PROVE AgeBound(n, m)'
    <2>1. phase[n] # "gone" /\ phase[m] # "gone"
        BY <1>1, <1>6 DEF InitResponse, TypeOK
    <2>2. SendRoutingUpdates(k, table[k]) /\ UNCHANGED <<age, losses, status>>
        BY <1>6 DEF InitResponse, local, counts
    <2>3. AgeBound(n, m) /\ status'[n][m] # "INACTIVE"
        BY <1>2, <2>1, <2>2 DEF AgeBound
    <2> QED BY <1>4, <2>2, <2>3
<1>7. ASSUME NEW k \in Routers, CrashNow(k) PROVE AgeBound(n, m)'
    <2>1. n # k /\ phase[n] # "gone" /\ phase[m] # "gone"
        BY <1>1, <1>7 DEF CrashNow, Exit, TypeOK
    <2>2. InFlight(m, n)' = InFlight(m, n)
        BY <1>7, <2>1 DEF CrashNow, Exit, InFlight
    <2> QED BY <1>3, <1>7, <2>1, <2>2 DEF CrashNow, Exit, local
<1>8. ASSUME NEW k \in Routers, NEW l, NEW c, UpdateCost(k, l, c) PROVE AgeBound(n, m)'
    BY <1>3, <1>8 DEF UpdateCost, InFlight
<1>9. ASSUME NEW k \in Routers, ClockTick(k) PROVE AgeBound(n, m)'
    <2>1. AgeBound(n, m)
        BY <1>2, <1>9 DEF ClockTick
    <2>2. status'[n][m] # "INACTIVE" /\ age' = age
        BY <1>5, <1>9, <2>1 DEF ClockTick
    <2> QED BY <1>9, <2>1, <2>2 DEF ClockTick, counts, AgeBound, InFlight
<1>10. ASSUME NEW k \in Routers, IntervalTick(k) PROVE AgeBound(n, m)'
    <2>1. AgeBound(n, m)
        BY <1>2, <1>10 DEF IntervalTick
    <2>2. status'[n][m] # "INACTIVE" /\ age' = age
        BY <1>5, <1>10, <2>1 DEF IntervalTick
    <2> QED BY <1>4, <1>10, <2>1, <2>2 DEF IntervalTick, counts
<1>11. ASSUME NEW k \in Routers, NEW l \in Routers, Elapse(k, l) PROVE AgeBound(n, m)'
    <2>1. AgeBound(n, m) /\ phase' = phase /\ losses' = losses /\ status' = status
          /\ InFlight(m, n)' = InFlight(m, n)
        BY <1>2, <1>11 DEF Elapse, counts, InFlight
    <2>2. CASE k = n /\ l = m
        <3>1. age'[n][m] = age[n][m] + 1
            BY <1>1, <1>11, <2>2 DEF Elapse, TypeOK
        <3>2. m \notin sent'[n]
            BY <1>11, <2>2 DEF Elapse, TypeOK
        <3>3. age[n][m] <= losses
            BY <1>11, <2>1, <2>2 DEF Elapse, AgeBound
        <3> QED BY <1>1, <2>1, <3>1, <3>2, <3>3 DEF AgeBound
    <2>3. CASE ~(k = n /\ l = m)
        <3>1. age'[n][m] = age[n][m]
            <4>1. \E x : age' = [age EXCEPT ![k][l] = x]
                BY <1>11 DEF Elapse
            <4> QED BY <4>1, <1>1, <2>3 DEF TypeOK
        <3>2. m \in sent'[n] => m \in sent[n]
            BY <1>11 DEF Elapse, TypeOK
        <3> QED BY <2>1, <3>1, <3>2 DEF AgeBound
    <2> QED BY <2>2, <2>3
<1>12. ASSUME NEW msg \in net, ReceiveUpdate(msg) PROVE AgeBound(n, m)'
    <2>1. AgeBound(n, m) /\ sent' = sent /\ losses' = losses
        BY <1>2, <1>12 DEF ReceiveUpdate, counts
    <2>2. CASE msg.dst = n /\ msg.src = m
        <3>1. \/ status'[n][m] = "ACTIVE" /\ age'[n][m] = 0
              \/ UNCHANGED <<status, age>>
            BY <1>12, <2>2, ReceiveEffect
        <3>2. CASE status'[n][m] = "ACTIVE" /\ age'[n][m] = 0
            BY <1>1, <2>1, <3>2 DEF AgeBound
        <3>3. CASE UNCHANGED <<status, age>>
            <4>1. status[n][m] # "INACTIVE"
                BY <2>1 DEF AgeBound
            <4>2. age'[n][m] = 0
                BY <1>12, <2>2, <4>1 DEF ReceiveUpdate, ProcessUpdate, TypeOK, Datagram
            <4> QED BY <1>1, <2>1, <3>3, <4>1, <4>2 DEF AgeBound
        <3> QED BY <3>1, <3>2, <3>3
    <2>3. CASE ~(msg.dst = n /\ msg.src = m)
        <3>1. InFlight(m, n)' = InFlight(m, n)
            BY <1>12, <2>3 DEF ReceiveUpdate, InFlight
        <3>2. status'[n][m] = status[n][m] /\ age'[n][m] = age[n][m]
            BY <1>1, <1>12, <2>3, ReceiveEffect
        <3> QED BY <2>1, <3>1, <3>2 DEF AgeBound
    <2> QED BY <2>2, <2>3
<1>13. ASSUME NEW msg \in net, Lose(msg) PROVE AgeBound(n, m)'
    <2>1. AgeBound(n, m) /\ UNCHANGED <<sent, status, age>> /\ losses' = losses + 1
        BY <1>2, <1>13 DEF Lose, local
    <2> QED BY <1>1, <2>1 DEF AgeBound
<1>14. CASE UNCHANGED vars
    BY <1>3, <1>14 DEF vars, local, counts, InFlight
<1> QED
    BY <1>6, <1>7, <1>8, <1>9, <1>10, <1>11, <1>12, <1>13, <1>14
    DEF Next, Controller, Timer, Network

\* With bounded delays and at most one lost datagram, no live neighbour is
\* given up: an update every interval is often enough for a timeout of three.
THEOREM NoFalseTimeouts ==
    ASSUME Timely, MaxLosses <= 1
    PROVE  Spec => []NoFalseTimeout
<1>1. Init => AgesBounded
    BY DEF Init, AgesBounded, AgeBound, Neighbours
<1>2. TypeOK /\ AgesBounded /\ [Next]_vars => AgesBounded'
    BY AgesBoundedStep
<1>3. AgesBounded => NoFalseTimeout
    BY DEF AgesBounded, AgeBound, NoFalseTimeout, Running
<1> QED BY <1>1, <1>2, <1>3, TypeCorrect, PTL DEF Spec

\* Whoever has a datagram under way has started.
SendersStarted == \A msg \in net : phase[msg.src] # "new"

LEMMA SendStarted ==
    ASSUME TypeOK, SendersStarted, NEW n \in Routers, NEW tab, SendRoutingUpdates(n, tab),
           phase'[n] = "running", \A m \in Routers \ {n} : phase'[m] = phase[m]
    PROVE  SendersStarted'
<1> SUFFICES ASSUME NEW msg \in net' PROVE phase'[msg.src] # "new"
    BY DEF SendersStarted
<1>1. CASE msg \in net
    BY <1>1 DEF SendersStarted, TypeOK, Datagram
<1>2. CASE msg \in [src : {n}, dst : Listeners(n), vec : {Payload(tab)}]
    BY <1>2
<1> QED BY <1>1, <1>2 DEF SendRoutingUpdates

LEMMA SendersStartedStep ==
    TypeOK /\ SendersStarted /\ [Next]_vars => SendersStarted'
<1> SUFFICES ASSUME TypeOK, SendersStarted, [Next]_vars PROVE SendersStarted'
    OBVIOUS
<1>1. ASSUME net' \subseteq net, UNCHANGED phase PROVE SendersStarted'
    BY <1>1 DEF SendersStarted
<1>2. ASSUME NEW n \in Routers, InitResponse(n) PROVE SendersStarted'
    <2>1. phase'[n] = "running" /\ \A m \in Routers \ {n} : phase'[m] = phase[m]
        BY <1>2 DEF InitResponse, TypeOK
    <2> QED BY <1>2, <2>1, SendStarted DEF InitResponse
<1>3. ASSUME NEW n \in Routers, IntervalTick(n) PROVE SendersStarted'
    BY <1>3, SendStarted DEF IntervalTick, Running
<1>4. ASSUME NEW n \in Routers, CrashNow(n) PROVE SendersStarted'
    BY <1>4 DEF CrashNow, Exit, SendersStarted, TypeOK, Datagram
<1>5. ASSUME NEW n \in Routers, NEW m, NEW c, UpdateCost(n, m, c) PROVE SendersStarted'
    BY <1>1, <1>5 DEF UpdateCost
<1>6. ASSUME NEW n \in Routers, ClockTick(n) PROVE SendersStarted'
    BY <1>1, <1>6 DEF ClockTick
<1>7. ASSUME NEW n \in Routers, NEW m \in Routers, Elapse(n, m) PROVE SendersStarted'
    BY <1>1, <1>7 DEF Elapse
<1>8. ASSUME NEW msg \in net, ReceiveUpdate(msg) PROVE SendersStarted'
    BY <1>1, <1>8 DEF ReceiveUpdate
<1>9. ASSUME NEW msg \in net, Lose(msg) PROVE SendersStarted'
    BY <1>1, <1>9 DEF Lose
<1>10. CASE UNCHANGED vars
    BY <1>1, <1>10 DEF vars
<1> QED
    BY <1>2, <1>3, <1>4, <1>5, <1>6, <1>7, <1>8, <1>9, <1>10
    DEF Next, Controller, Timer, Network

\* Receiving a datagram is hearing its sender, or hearing it again.
LEMMA HearStep ==
    ASSUME TypeOK, OnlyNeighbours, SendersStarted, NEW msg \in net, ReceiveUpdate(msg)
    PROVE  \/ UNCHANGED <<phase, status>>
           \/ \E n \in Routers : \E m \in Neighbours(n) : Detector!Hear(n, m)
<1> DEFINE n == msg.dst
           m == msg.src
<1>1. /\ n \in Routers /\ m \in Routers /\ m \in Neighbours(n)
      /\ phase[n] = "running" /\ phase[m] # "new" /\ phase' = phase
    BY ReceiveEffect DEF OnlyNeighbours, SendersStarted, ReceiveUpdate, Running
<1>2. \/ UNCHANGED status
      \/ status[n][m] # "INACTIVE" /\ status' = [status EXCEPT ![n][m] = "ACTIVE"]
    BY DEF ReceiveUpdate, ProcessUpdate, local
<1> HIDE DEF n, m
<1>3. CASE status[n][m] = "ACTIVE"
    <2>1. status' = status
        BY <1>1, <1>2, <1>3 DEF TypeOK
    <2> QED BY <1>1, <2>1
<1>4. CASE status[n][m] # "ACTIVE"
    <2>1. status[n][m] \in {"INITIALIZED", "INACTIVE"}
        BY <1>1, <1>4 DEF TypeOK
    <2> QED BY <1>1, <1>2, <2>1 DEF Detector!Hear
<1> QED BY <1>3, <1>4

\* A tick gives up routers that have crashed, or none.
LEMMA GiveUpStep ==
    ASSUME MaxLosses <= 1, TypeOK, AgesBounded,
           NEW n \in Running, MarkInactive(n), UNCHANGED phase
    PROVE  \E lost \in SUBSET Neighbours(n) : Detector!GiveUp(n, lost)
<1>1. n \in Routers /\ phase[n] = "running" /\ losses \in Nat /\ losses <= 1
    <2>1. losses \in 0 .. MaxLosses /\ MaxLosses \in Nat
        BY BoundsAssumption DEF TypeOK
    <2> QED BY <2>1 DEF Running
<1>2. ASSUME NEW m \in Expired(n) PROVE phase[m] = "gone" /\ status[n][m] # "INACTIVE"
    <2>1. m \in Neighbours(n) /\ age[n][m] >= MaxAge /\ status[n][m] # "INACTIVE"
        BY <1>2 DEF Expired
    <2>2. m \in Routers /\ age[n][m] \in 0 .. 3
        BY <1>1, <2>1 DEF Neighbours, TypeOK, MaxAge
    <2>3. ~AgeBound(n, m)
        BY <1>1, <2>1, <2>2 DEF AgeBound, MaxAge
    <2> QED BY <1>1, <2>1, <2>3 DEF AgesBounded
<1>3. Expired(n) \in SUBSET Neighbours(n)
    BY DEF Expired
<1>4. Detector!GiveUp(n, Expired(n))
    BY <1>1, <1>2 DEF Detector!GiveUp, MarkInactive
<1> QED BY <1>3, <1>4

LEMMA DetectorStep ==
    ASSUME MaxLosses <= 1, TypeOK, OnlyNeighbours, SendersStarted, AgesBounded, [Next]_vars
    PROVE  [Detector!Next]_<<phase, status>>
<1>1. ASSUME NEW n \in Routers, InitResponse(n) PROVE Detector!Start(n)
    BY <1>1 DEF InitResponse, local, Detector!Start
<1>2. ASSUME NEW n \in Routers, CrashNow(n) PROVE Detector!Crash(n)
    BY <1>2 DEF CrashNow, Exit, Running, local, Detector!Crash
<1>3. ASSUME NEW n \in Routers, ClockTick(n)
      PROVE  \E lost \in SUBSET Neighbours(n) : Detector!GiveUp(n, lost)
    BY <1>3, GiveUpStep DEF ClockTick
<1>4. ASSUME NEW n \in Routers, IntervalTick(n)
      PROVE  \E lost \in SUBSET Neighbours(n) : Detector!GiveUp(n, lost)
    BY <1>4, GiveUpStep DEF IntervalTick
<1>5. ASSUME NEW n \in Routers, NEW m, NEW c, UpdateCost(n, m, c)
      PROVE  UNCHANGED <<phase, status>>
    BY <1>5 DEF UpdateCost
<1>6. ASSUME NEW n \in Routers, NEW m \in Routers, Elapse(n, m)
      PROVE  UNCHANGED <<phase, status>>
    BY <1>6 DEF Elapse
<1>7. ASSUME NEW msg \in net, Lose(msg) PROVE UNCHANGED <<phase, status>>
    BY <1>7 DEF Lose, local
<1>8. ASSUME NEW msg \in net, ReceiveUpdate(msg)
      PROVE  \/ UNCHANGED <<phase, status>>
             \/ \E n \in Routers : \E m \in Neighbours(n) : Detector!Hear(n, m)
    BY <1>8, HearStep
<1>9. CASE UNCHANGED vars
    BY <1>9 DEF vars, local
<1> QED
    BY <1>1, <1>2, <1>3, <1>4, <1>5, <1>6, <1>7, <1>8, <1>9
    DEF Next, Controller, Timer, Network, Detector!Next

\* With bounded delays and at most one lost datagram the timers implement a
\* perfect failure detector, in every network and with any UPDATE messages.
THEOREM TimersDetectPerfectly ==
    ASSUME Timely, MaxLosses <= 1
    PROVE  Spec => DetectsPerfectly
<1>1. Init => AgesBounded /\ SendersStarted /\ Detector!Init
    BY DEF Init, AgesBounded, AgeBound, Neighbours, SendersStarted, Detector!Init
<1>2. TypeOK /\ AgesBounded /\ [Next]_vars => AgesBounded'
    BY AgesBoundedStep
<1>3. TypeOK /\ OnlyNeighbours /\ SendersStarted /\ AgesBounded /\ [Next]_vars =>
          [Detector!Next]_<<phase, status>>
    BY DetectorStep
<1>4. DetectsPerfectly <=> Detector!Init /\ [][Detector!Next]_<<phase, status>>
    BY DEF DetectsPerfectly, Detector!Spec, Detector!fdVars
<1> QED
    BY <1>1, <1>2, <1>3, <1>4, TypeCorrect, OnlyNeighboursAlways, SendersStartedStep, PTL
    DEF Spec

-------------------------------------------------------------------------------
(***************************************************************************)
(* Costs, when every link costs 1 and UPDATE only cuts and restores links. *)
(***************************************************************************)

UnitCosts ==
    /\ \A n \in Routers : \A m \in Neighbours(n) : Link[n][m] = 1
    /\ UpdateCosts \subseteq {1, INF}

\* Every link costs 1 or is cut, and no vector, held or in flight, is below the
\* shortest paths.
CostsBounded ==
    /\ \A n \in Routers : \A m \in Neighbours(n) : vectors[n][n][m] \in {1, INF}
    /\ \A n, m, d \in Routers : m # n => vectors[n][m][d] >= Shortest[Routers][m][d]
    /\ \A msg \in net : \A d \in Routers : msg.vec[d] >= Shortest[Routers][msg.src][d]

\* A table computed from such vectors is not below the shortest paths either:
\* one link and a finite cost never add up past INF.
LEMMA TableBounded ==
    ASSUME UnitCosts, NEW n \in Routers, NEW v \in Vectors,
           \A m \in Neighbours(n) : v[n][m] \in {1, INF},
           \A m, d \in Routers : m # n => v[m][d] >= Shortest[Routers][m][d]
    PROVE  \A d \in Routers : TableOf(v, n)[d].cost >= Shortest[Routers][n][d]
<1> SUFFICES ASSUME NEW d \in Routers
             PROVE  TableOf(v, n)[d].cost >= Shortest[Routers][n][d]
    OBVIOUS
<1>1. Shortest[Routers][n][d] \in Cost
    BY ShortestAssumption
<1>2. CASE d = n
    <2>1. TableOf(v, n)[d].cost = 0
        BY <1>2 DEF TableOf
    <2>2. Shortest[Routers][n][d] = 0
        BY <1>2, ShortestAssumption
    <2> QED BY <2>1, <2>2
<1>3. CASE d # n
    <2> DEFINE r == RouteTo(v, n, d)
               h == r.hop
    <2>1. TableOf(v, n)[d] = r
        BY <1>3 DEF TableOf
    <2>2. CASE r.cost = INF
        BY <1>1, <2>1, <2>2, InfAssumption DEF Cost
    <2>3. CASE r.cost # INF
        <3>1. /\ h \in Neighbours(n) /\ v[n][h] # INF /\ v[h][d] # INF
              /\ r.cost = WordSum(v[n][h], v[h][d])
            BY <2>3, RouteFacts
        <3>2. h \in Routers /\ h # n
            BY <3>1 DEF Neighbours
        <3>3. v[n][h] = 1 /\ Link[n][h] = 1
            BY <3>1 DEF UnitCosts
        <3>4. v[h][d] \in Cost
            BY <3>2 DEF Vectors
        <3>5. /\ Shortest[Routers][n][d] <= Link[n][h] + Shortest[Routers][h][d]
              /\ Shortest[Routers][h][d] \in Cost
              /\ v[h][d] >= Shortest[Routers][h][d]
            BY <3>2, ShortestAssumption
        <3> HIDE DEF h, r
        <3>6. 1 \in Cost /\ 1 + v[h][d] <= INF
            BY <3>1, <3>4, InfAssumption DEF Cost
        <3>7. r.cost = 1 + v[h][d]
            BY <3>1, <3>3, <3>4, <3>6, WordSumFacts
        <3> QED BY <1>1, <2>1, <3>3, <3>4, <3>5, <3>7, InfAssumption DEF Cost
    <2> QED BY <2>2, <2>3
<1> QED BY <1>2, <1>3

\* The tables of a state whose vectors are bounded.
LEMMA TablesBounded ==
    ASSUME UnitCosts, TypeOK, TableCurrent, CostsBounded,
           NEW n \in Routers, NEW d \in Routers
    PROVE  table[n][d].cost >= Shortest[Routers][n][d]
<1>1. vectors[n] \in Vectors
    BY DEF TypeOK, Vectors
<1>2. \A m \in Neighbours(n) : vectors[n][n][m] \in {1, INF}
    BY DEF CostsBounded
<1>3. \A m, e \in Routers : m # n => vectors[n][m][e] >= Shortest[Routers][m][e]
    BY DEF CostsBounded
<1>4. table[n] = TableOf(vectors[n], n)
    BY DEF TableCurrent
<1> QED BY <1>1, <1>2, <1>3, <1>4, TableBounded

LEMMA CostsBoundedInit ==
    ASSUME UnitCosts, Init
    PROVE  CostsBounded
<1>1. ASSUME NEW n \in Routers, NEW m \in Neighbours(n)
      PROVE  vectors[n][n][m] \in {1, INF}
    BY <1>1 DEF Init, InitialVectors, UnitCosts, Neighbours
<1>2. ASSUME NEW n \in Routers, NEW m \in Routers, NEW d \in Routers, m # n
      PROVE  vectors[n][m][d] >= Shortest[Routers][m][d]
    <2>1. vectors[n][m][d] = IF m = d THEN 0 ELSE INF
        BY <1>2 DEF Init, InitialVectors
    <2>2. Shortest[Routers][m][d] \in Cost /\ (m = d => Shortest[Routers][m][d] = 0)
        BY ShortestAssumption
    <2> QED BY <2>1, <2>2, InfAssumption DEF Cost
<1>3. net = {}
    BY DEF Init
<1> QED BY <1>1, <1>2, <1>3 DEF CostsBounded

\* What is sent is a table, and tables are bounded.
LEMMA SendBounded ==
    ASSUME NEW n \in Routers, NEW tab, SendRoutingUpdates(n, tab),
           \A d \in Routers : tab[d].cost >= Shortest[Routers][n][d],
           \A msg \in net : \A d \in Routers : msg.vec[d] >= Shortest[Routers][msg.src][d]
    PROVE  \A msg \in net' : \A d \in Routers : msg.vec[d] >= Shortest[Routers][msg.src][d]
<1>1. \A d \in Routers : Payload(tab)[d] >= Shortest[Routers][n][d]
    BY DEF Payload
<1> QED BY <1>1 DEF SendRoutingUpdates

\* mark_inactive only cuts links of its own.
LEMMA MarkInactiveBounded ==
    ASSUME TypeOK, CostsBounded, NEW n \in Routers, MarkInactive(n)
    PROVE  /\ \A k \in Routers : \A m \in Neighbours(k) : vectors'[k][k][m] \in {1, INF}
           /\ \A k, m, d \in Routers : m # k => vectors'[k][m][d] >= Shortest[Routers][m][d]
<1>1. ASSUME NEW k \in Routers, NEW m \in Neighbours(k)
      PROVE  vectors'[k][k][m] \in {vectors[k][k][m], INF}
    BY <1>1 DEF MarkInactive, Cut, TypeOK, Neighbours
<1>2. ASSUME NEW k \in Routers, NEW m \in Routers, m # k
      PROVE  vectors'[k][m] = vectors[k][m]
    BY <1>2 DEF MarkInactive, Cut, TypeOK
<1> QED BY <1>1, <1>2 DEF CostsBounded

LEMMA CostsBoundedStep ==
    ASSUME UnitCosts, TypeOK, TableCurrent, OnlyNeighbours, CostsBounded,
           TypeOK', TableCurrent', [Next]_vars
    PROVE  CostsBounded'
<1>1. ASSUME UNCHANGED vectors, net' \subseteq net PROVE CostsBounded'
    BY <1>1 DEF CostsBounded
<1>2. ASSUME NEW n \in Routers, InitResponse(n) PROVE CostsBounded'
    <2>1. \A d \in Routers : table[n][d].cost >= Shortest[Routers][n][d]
        BY TablesBounded
    <2> QED BY <1>2, <2>1, SendBounded DEF InitResponse, local, CostsBounded
<1>3. ASSUME NEW n \in Routers, CrashNow(n) PROVE CostsBounded'
    BY <1>1, <1>3 DEF CrashNow, Exit, local
<1>4. ASSUME NEW n \in Routers, NEW m \in Neighbours(n), NEW c \in UpdateCosts,
             UpdateCost(n, m, c)
      PROVE  CostsBounded'
    <2>1. c \in {1, INF} /\ m \in Routers
        BY DEF UnitCosts, Neighbours
    <2>2. ASSUME NEW k \in Routers, NEW l \in Neighbours(k)
          PROVE  vectors'[k][k][l] \in {vectors[k][k][l], c}
        BY <1>4, <2>1, <2>2 DEF UpdateCost, TypeOK, Neighbours
    <2>3. ASSUME NEW k \in Routers, NEW l \in Routers, l # k
          PROVE  vectors'[k][l] = vectors[k][l]
        BY <1>4, <2>3 DEF UpdateCost, TypeOK
    <2>4. net' = net
        BY <1>4 DEF UpdateCost
    <2> QED BY <2>1, <2>2, <2>3, <2>4 DEF CostsBounded
<1>5. ASSUME NEW n \in Routers, ClockTick(n) PROVE CostsBounded'
    BY <1>5, MarkInactiveBounded DEF ClockTick, CostsBounded
<1>6. ASSUME NEW n \in Routers, IntervalTick(n) PROVE CostsBounded'
    <2> DEFINE tab == table'[n]
               v == vectors'[n]
    <2>1. MarkInactive(n) /\ SendRoutingUpdates(n, tab)
        BY <1>6 DEF IntervalTick
    <2>2. /\ \A k \in Routers : \A m \in Neighbours(k) : vectors'[k][k][m] \in {1, INF}
          /\ \A k, m, d \in Routers : m # k => vectors'[k][m][d] >= Shortest[Routers][m][d]
        BY <2>1, MarkInactiveBounded
    <2>3. tab = TableOf(v, n) /\ v \in Vectors
        BY DEF TypeOK, TableCurrent, Vectors
    <2>4. \A d \in Routers : tab[d].cost >= Shortest[Routers][n][d]
        <3>1. /\ \A m \in Neighbours(n) : v[n][m] \in {1, INF}
              /\ \A m, d \in Routers : m # n => v[m][d] >= Shortest[Routers][m][d]
            BY <2>2
        <3> HIDE DEF tab, v
        <3> QED BY <2>3, <3>1, TableBounded
    <2>5. \A msg \in net' : \A d \in Routers : msg.vec[d] >= Shortest[Routers][msg.src][d]
        <3> HIDE DEF tab
        <3> QED BY <2>1, <2>4, SendBounded DEF CostsBounded
    <2> QED BY <2>2, <2>5 DEF CostsBounded
<1>7. ASSUME NEW n \in Routers, NEW m \in Routers, Elapse(n, m) PROVE CostsBounded'
    BY <1>1, <1>7 DEF Elapse
<1>8. ASSUME NEW msg \in net, ReceiveUpdate(msg) PROVE CostsBounded'
    <2>1. msg.src # msg.dst
        BY DEF OnlyNeighbours, Neighbours
    <2>2. net' \subseteq net
        BY <1>8 DEF ReceiveUpdate
    <2>3. \A d \in Routers : msg.vec[d] >= Shortest[Routers][msg.src][d]
        BY DEF CostsBounded
    <2>4. ASSUME NEW k \in Routers, NEW l \in Routers
          PROVE  \/ vectors'[k][l] = vectors[k][l]
                 \/ l # k /\ l = msg.src /\ vectors'[k][l] = msg.vec
        BY <1>8, <2>1, ReceiveEffect
    <2> QED BY <2>2, <2>3, <2>4 DEF CostsBounded
<1>9. ASSUME NEW msg \in net, Lose(msg) PROVE CostsBounded'
    BY <1>1, <1>9 DEF Lose, local
<1>10. CASE UNCHANGED vars
    BY <1>1, <1>10 DEF vars, local
<1> QED
    BY <1>2, <1>3, <1>4, <1>5, <1>6, <1>7, <1>8, <1>9, <1>10
    DEF Next, Controller, Timer, Network

\* With unit costs no table and no datagram is ever below the shortest paths,
\* whatever is lost, duplicated, reordered, cut or restored.
THEOREM NeverUnderestimates ==
    ASSUME UnitCosts
    PROVE  Spec => []NoUnderestimate
<1>1. Init => CostsBounded
    BY CostsBoundedInit
<1>2. TypeOK /\ TableCurrent /\ OnlyNeighbours /\ CostsBounded /\ TypeOK' /\ TableCurrent'
      /\ [Next]_vars => CostsBounded'
    BY CostsBoundedStep
<1>3. TypeOK /\ TableCurrent /\ CostsBounded => NoUnderestimate
    BY TablesBounded DEF NoUnderestimate, CostsBounded
<1> QED BY <1>1, <1>2, <1>3, TypeCorrect, TablesCurrent, OnlyNeighboursAlways, PTL DEF Spec

===============================================================================
