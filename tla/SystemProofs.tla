----------------------------- MODULE SystemProofs -----------------------------
(***************************************************************************)
(* Theorems about System: what the tables of the control plane mean for    *)
(* the transfers that follow them.                                         *)
(***************************************************************************)
EXTENDS System, DistanceVectorProofs, FiniteSetTheorems, SequenceTheorems

-------------------------------------------------------------------------------
(***************************************************************************)
(* The settled state.                                                      *)
(***************************************************************************)

\* Settled vectors hold costs, and a router's own row holds its links.
LEMMA SettledVectorsType ==
    ASSUME NEW n \in Routers
    PROVE  /\ SettledVectors[n] \in Vectors
           /\ SettledVectors[n][n] = Link[n]
           /\ \A m \in Neighbours(n) : SettledVectors[n][m] = Shortest[Routers][m]
<1>1. \A m \in Routers : /\ Link[m] \in [Routers -> Cost]
                         /\ Shortest[Routers][m] \in [Routers -> Cost]
                         /\ InitialVectors(n)[m] \in [Routers -> Cost]
    BY LinkAssumption, ShortestAssumption, InitialVectorsType DEF Vectors
<1>2. SettledVectors[n] = [m \in Routers |->
        IF m = n THEN Link[n]
        ELSE IF m \in Neighbours(n) THEN Shortest[Routers][m]
        ELSE InitialVectors(n)[m]]
    BY DEF SettledVectors
<1> QED BY <1>1, <1>2 DEF Vectors, Neighbours

\* The settled tables are the cheapest paths: a cheapest path begins with a link
\* and goes on along another, and no sum passes INF.
LEMMA SettledCosts ==
    ASSUME NEW n \in Routers, NEW d \in Routers
    PROVE  SettledTables[n][d].cost = Shortest[Routers][n][d]
<1> DEFINE v == SettledVectors[n]
           dist == Shortest[Routers]
<1>1. SettledTables[n][d] = IF d = n THEN [cost |-> 0, hop |-> n] ELSE RouteTo(v, n, d)
    BY DEF SettledTables, TableOf
<1>2. v \in Vectors /\ v[n] = Link[n] /\ \A m \in Neighbours(n) : v[m] = dist[m]
    BY SettledVectorsType
<1>3. /\ dist[n][n] = 0
      /\ \A m \in Routers : dist[m][d] \in Cost /\ Link[n][m] \in Cost
      /\ \A m \in Routers : dist[n][d] <= Link[n][m] + dist[m][d]
    BY ShortestAssumption, LinkAssumption
<1>4. /\ INF \in Nat \ {0}
      /\ d # n /\ dist[n][d] # INF =>
            \E m \in Neighbours(n) : dist[n][d] = Link[n][m] + dist[m][d]
      /\ d # n => \A m \in Neighbours(n) : dist[m][d] # INF => Link[n][m] + dist[m][d] <= INF
    BY InfAssumption, SettledAssumption
<1> HIDE DEF v, dist
<1>5. CASE d = n
    BY <1>1, <1>3, <1>5 DEF dist
<1>6. CASE d # n
    <2>1. ASSUME NEW m \in Neighbours(n), dist[m][d] # INF
          PROVE  PathCost(v, n, m, d) = Link[n][m] + dist[m][d]
        <3>1. m \in Routers
            BY DEF Neighbours
        <3>2. PathCost(v, n, m, d) = WordSum(Link[n][m], dist[m][d])
            BY <1>2 DEF PathCost
        <3> QED BY <1>3, <1>4, <1>6, <2>1, <3>1, <3>2, WordSumFacts
    <2>2. \A m \in Candidates(v, n, d) :
              /\ m \in Neighbours(n) /\ m \in Routers /\ dist[m][d] # INF
              /\ PathCost(v, n, m, d) = Link[n][m] + dist[m][d]
              /\ PathCost(v, n, m, d) # INF
        BY <1>2, <2>1 DEF Candidates, Neighbours
    <2>3. CASE Candidates(v, n, d) = {}
        <3>1. RouteTo(v, n, d).cost = INF
            BY <2>3 DEF RouteTo, NoRoute
        <3>2. ASSUME dist[n][d] # INF PROVE FALSE
            <4>1. PICK m \in Neighbours(n) : dist[n][d] = Link[n][m] + dist[m][d]
                BY <1>4, <1>6, <3>2
            <4>2. m \in Routers /\ Link[n][m] # INF
                BY InfAssumption DEF Neighbours
            <4>3. dist[m][d] # INF
                BY <1>3, <1>4, <3>2, <4>1, <4>2 DEF Cost
            <4>4. PathCost(v, n, m, d) # INF
                BY <2>1, <3>2, <4>1, <4>3
            <4>5. v[n][m] # INF /\ v[m][d] # INF
                BY <1>2, <4>2, <4>3
            <4> QED BY <2>3, <4>4, <4>5 DEF Candidates
        <3> QED BY <1>1, <1>6, <3>1, <3>2 DEF dist
    <2>4. CASE Candidates(v, n, d) # {}
        <3> DEFINE h == BestHop(v, n, d)
        <3>1. RouteTo(v, n, d).cost = PathCost(v, n, h, d)
            BY <2>4 DEF RouteTo
        <3>2. h \in Candidates(v, n, d) /\ \A m \in Candidates(v, n, d) \ {h} : Before(v, n, d, h, m)
            BY <1>2, <2>4, BestHopExists
        <3> HIDE DEF h
        <3>3. PathCost(v, n, h, d) = Link[n][h] + dist[h][d] /\ h \in Routers
              /\ PathCost(v, n, h, d) # INF /\ dist[h][d] # INF /\ h \in Neighbours(n)
            BY <2>2, <3>2
        <3>4. dist[n][d] <= PathCost(v, n, h, d)
            BY <1>3, <3>3
        <3>5. dist[n][d] # INF
            BY <1>3, <1>4, <1>6, <3>3, <3>4 DEF Cost
        <3>6. PICK m \in Neighbours(n) : dist[n][d] = Link[n][m] + dist[m][d]
            BY <1>4, <1>6, <3>5
        <3>7. m \in Routers /\ Link[n][m] # INF
            BY InfAssumption DEF Neighbours
        <3>8. dist[m][d] # INF
            BY <1>3, <1>4, <3>5, <3>6, <3>7 DEF Cost
        <3>9. PathCost(v, n, m, d) = dist[n][d]
            BY <2>1, <3>6, <3>8
        <3>10. m \in Candidates(v, n, d)
            BY <1>2, <3>5, <3>7, <3>8, <3>9 DEF Candidates
        <3>11. PathCost(v, n, h, d) <= PathCost(v, n, m, d)
            BY <1>3, <3>2, <3>3, <3>7, <3>9, <3>10 DEF Before, Cost
        <3> QED BY <1>1, <1>3, <1>6, <3>1, <3>3, <3>4, <3>7, <3>9, <3>11 DEF Cost, dist
    <2> QED BY <2>3, <2>4
<1> QED BY <1>5, <1>6

\* So what a settled router advertises is what its neighbours hold of it.
LEMMA SettledPayload ==
    ASSUME NEW n \in Routers
    PROVE  Payload(SettledTables[n]) = Shortest[Routers][n]
<1>1. Shortest[Routers][n] \in [Routers -> Cost]
    BY ShortestAssumption
<1> QED BY <1>1, SettledCosts DEF Payload

-------------------------------------------------------------------------------
(***************************************************************************)
(* The control plane inside the system.                                    *)
(***************************************************************************)

\* A step of the system is a step of the control plane, or leaves it alone, or
\* is the end of a process that no CRASH asked for.
LEMMA ControlStep ==
    ASSUME [SystemNext]_allVars
    PROVE  [Next]_vars \/ \E n \in Routers : Exit(n) /\ UNCHANGED crashes
<1>1. CASE Control
    BY <1>1 DEF Control, Next, Controller
<1>2. CASE \E t \in Transfers : SendFile(t)
    BY <1>2 DEF SendFile
<1>3. CASE \E n, m \in Routers : Receive(m, n)
    BY <1>3 DEF Receive
<1>4. CASE \E n, h \in Routers : WriteHandler(n, h)
    BY <1>4 DEF WriteHandler
<1>5. CASE \E n \in Crashing : Crash(n)
    BY <1>5, DataAssumption DEF Crash, Next, Controller
<1>6. CASE \E n, h \in Routers : Broken(n, h)
    BY <1>6 DEF Broken
<1>7. CASE UNCHANGED allVars
    BY <1>7 DEF allVars
<1> QED BY <1>1, <1>2, <1>3, <1>4, <1>5, <1>6, <1>7 DEF SystemNext

\* What DistanceVectorProofs shows of the control plane alone.
ControlInv ==
    /\ TypeOK
    /\ TableCurrent
    /\ OnlyNeighbours
    /\ InactiveCut

LEMMA ControlInit == SystemInit => ControlInv
<1> SUFFICES ASSUME SystemInit PROVE ControlInv
    OBVIOUS
<1>1. \A n \in Routers : SettledVectors[n] \in Vectors /\ SettledTables[n] \in [Routers -> Route]
    <2> SUFFICES ASSUME NEW n \in Routers
                 PROVE  SettledVectors[n] \in Vectors /\ SettledTables[n] \in [Routers -> Route]
        OBVIOUS
    <2>1. SettledVectors[n] \in Vectors
        BY SettledVectorsType
    <2> QED BY <2>1, TableType DEF SettledTables
<1>2. SettledVectors \in [Routers -> Vectors] /\ SettledTables \in [Routers -> [Routers -> Route]]
    BY <1>1 DEF SettledVectors, SettledTables
<1>3. TypeOK
    <2>1. /\ vectors \in [Routers -> [Routers -> [Routers -> Cost]]]
          /\ table \in [Routers -> [Routers -> Route]]
        BY <1>2 DEF SystemInit, Vectors
    <2>2. /\ phase \in [Routers -> {"new", "running", "gone"}]
          /\ status \in [Routers -> [Routers -> {"INITIALIZED", "ACTIVE", "INACTIVE"}]]
          /\ net \subseteq Datagram
        BY DEF SystemInit
    <2>3. linkCost \in [Routers -> [Routers -> Cost]]
        BY LinkAssumption DEF SystemInit
    <2>4. age \in [Routers -> [Routers -> 0 .. MaxAge]]
        BY DEF SystemInit, MaxAge
    <2>5. sent \in [Routers -> SUBSET Routers]
        BY DEF SystemInit, Neighbours
    <2>6. updates \in 0 .. MaxUpdates /\ crashes \in 0 .. MaxCrashes /\ losses \in 0 .. MaxLosses
        BY BoundsAssumption DEF SystemInit
    <2> QED BY <2>1, <2>2, <2>3, <2>4, <2>5, <2>6 DEF TypeOK
<1>4. TableCurrent
    BY DEF SystemInit, TableCurrent, SettledTables
<1>5. OnlyNeighbours /\ InactiveCut
    BY DEF SystemInit, OnlyNeighbours, InactiveCut
<1> QED BY <1>3, <1>4, <1>5 DEF ControlInv

LEMMA ControlKeeps ==
    ASSUME UpdateCosts = {}, ControlInv, [SystemNext]_allVars
    PROVE  ControlInv'
<1>1. CASE [Next]_vars
    <2>1. TypeOK' /\ TableCurrent' /\ OnlyNeighbours'
        BY <1>1, TypeStep, TableCurrentStep, OnlyNeighboursStep DEF ControlInv
    <2>2. InactiveCut'
        BY <1>1, InactiveCutStep DEF ControlInv
    <2> QED BY <2>1, <2>2 DEF ControlInv
<1>2. CASE \E n \in Routers : Exit(n) /\ UNCHANGED crashes
    <2>1. PICK n \in Routers : Exit(n) /\ UNCHANGED crashes
        BY <1>2
    <2>2. UNCHANGED <<status, linkCost, age, vectors, table, sent, updates, crashes, losses>>
          /\ net' \subseteq net /\ phase' = [phase EXCEPT ![n] = "gone"]
        BY <2>1 DEF Exit, local
    <2>3. TypeOK'
        BY <2>2 DEF ControlInv, TypeOK
    <2>4. TableCurrent' /\ InactiveCut'
        BY <2>2 DEF ControlInv, TableCurrent, InactiveCut
    <2>5. OnlyNeighbours'
        BY <2>2 DEF ControlInv, OnlyNeighbours
    <2> QED BY <2>3, <2>4, <2>5 DEF ControlInv
<1> QED BY <1>1, <1>2, ControlStep

\* A next hop of the table that is not INF is not a neighbour given up.
LEMMA HopAlive ==
    ASSUME ControlInv, NEW n \in Routers, NEW d \in Routers, table[n][d].hop # INF
    PROVE  status[n][table[n][d].hop] # "INACTIVE"
<1>1. CASE d = n
    <2>1. table[n][d] = [cost |-> 0, hop |-> n]
        BY <1>1, TableEntries DEF ControlInv
    <2>2. table[n][d].hop = n
        BY <2>1
    <2> QED BY <1>1, <2>2 DEF ControlInv, OnlyNeighbours, Neighbours
<1>2. CASE d # n
    <2>1. table[n][d] = RouteTo(vectors[n], n, d) /\ vectors[n] \in Vectors
        BY <1>2, TableEntries DEF ControlInv
    <2>2. table[n][d].hop \in Neighbours(n) /\ vectors[n][n][table[n][d].hop] # INF
        BY <2>1, RouteFacts
    <2> QED BY <2>2 DEF ControlInv, InactiveCut, Neighbours
<1> QED BY <1>1, <1>2

-------------------------------------------------------------------------------
(***************************************************************************)
(* Keys of transfers.                                                      *)
(***************************************************************************)

PinType == pin \in [Routers -> [Transfers -> Routers \cup {INF}]]

\* The key of a transfer changes once, to the next hop of the table of now.
PinTaken(n, t) ==
    /\ table[n][Dest[t]].hop # INF
    /\ pin' = [pin EXCEPT ![n][t] = table[n][Dest[t]].hop]

LEMMA RoutePin ==
    ASSUME PinType, NEW n \in Routers, NEW t, NEW chunks, Data!Route(n, t, chunks)
    PROVE  pin' = pin \/ (t \in Transfers /\ PinTaken(n, t))
<1>1. CASE UNCHANGED pin
    BY <1>1
<1>2. CASE NextHops[n][Dest[t]] # INF /\ Data!Push(n, t, chunks, NextHops[n][Dest[t]])
    <2>1. pin' = [pin EXCEPT ![n][t] =
                     IF pin[n][t] = INF THEN NextHops[n][Dest[t]] ELSE pin[n][t]]
        BY <1>2 DEF Data!Push
    <2>2. CASE t \notin Transfers \/ pin[n][t] # INF
        BY <2>1, <2>2 DEF PinType
    <2>3. CASE t \in Transfers /\ pin[n][t] = INF
        <3>1. NextHops[n][Dest[t]] = table[n][Dest[t]].hop
            BY <2>3, DataAssumption DEF NextHops
        <3> QED BY <1>2, <2>1, <2>3, <3>1 DEF PinTaken
    <2> QED BY <2>2, <2>3
<1> QED BY <1>1, <1>2 DEF Data!Route, Data!NoPush

LEMMA PinStep ==
    ASSUME PinType, [SystemNext]_allVars
    PROVE  pin' = pin \/ \E n \in Routers, t \in Transfers : PinTaken(n, t)
<1>1. CASE Control
    BY <1>1 DEF Control, dataVars
<1>2. ASSUME NEW t \in Transfers, SendFile(t)
      PROVE  pin' = pin \/ \E n \in Routers, u \in Transfers : PinTaken(n, u)
    <2>1. Origin[t] \in Routers
        BY DataAssumption
    <2>2. \/ Data!Route(Origin[t], t, Data!Packetised(t))
          \/ Data!NoChunks(Origin[t], NextHops[Origin[t]][Dest[t]])
        BY <1>2 DEF SendFile, Data!SendFile
    <2> QED BY <2>1, <2>2, RoutePin DEF Data!NoChunks
<1>3. ASSUME NEW n \in Routers, NEW m \in Routers, Receive(m, n)
      PROVE  pin' = pin \/ \E k \in Routers, u \in Transfers : PinTaken(k, u)
    <2>1. \/ UNCHANGED pin
          \/ \E pkt : Data!Forward(n, pkt)
        BY <1>3 DEF Receive, Data!Receive, Data!Drop, Data!Deliver, Data!NoPush
    <2> QED BY <2>1, RoutePin DEF Data!Forward
<1>4. CASE \E n, h \in Routers : WriteHandler(n, h)
    BY <1>4 DEF WriteHandler, Data!WriteHandler
<1>5. CASE \E n \in Crashing : Crash(n)
    BY <1>5 DEF Crash, Data!CrashNow
<1>6. CASE \E n, h \in Routers : Broken(n, h)
    BY <1>6 DEF Broken, Data!Broken
<1>7. CASE UNCHANGED allVars
    BY <1>7 DEF allVars, dataVars
<1> QED BY <1>1, <1>2, <1>3, <1>4, <1>5, <1>6, <1>7 DEF SystemNext

LEMMA PinTypeStep ==
    ASSUME TypeOK, PinType, [SystemNext]_allVars
    PROVE  PinType'
<1>1. \A n, d \in Routers : table[n][d].hop \in Routers \cup {INF}
    BY DEF TypeOK, Route
<1>2. ASSUME NEW n \in Routers, NEW t \in Transfers, PinTaken(n, t)
      PROVE  PinType'
    <2>1. table[n][Dest[t]].hop \in Routers \cup {INF}
        BY <1>1, DataAssumption
    <2> QED BY <1>2, <2>1 DEF PinTaken, PinType
<1> QED BY <1>2, PinStep DEF PinType

\* A transfer never takes its next hop from a table that still leads over a
\* neighbour given up, as long as no UPDATE changes a link.
THEOREM PinsAreLiveHolds ==
    ASSUME UpdateCosts = {}
    PROVE  SystemSpec => PinsAreLive
<1>1. SystemInit => ControlInv /\ PinType
    BY ControlInit DEF SystemInit, PinType
<1>2. ControlInv /\ PinType /\ [SystemNext]_allVars => ControlInv' /\ PinType'
    BY ControlKeeps, PinTypeStep DEF ControlInv
<1>3. ControlInv /\ PinType /\ [SystemNext]_allVars =>
          [\A n \in Routers, t \in Transfers :
              pin'[n][t] # pin[n][t] => status[n][pin'[n][t]] # "INACTIVE"]_allVars
    <2> SUFFICES ASSUME ControlInv, PinType, [SystemNext]_allVars,
                        NEW n \in Routers, NEW t \in Transfers, pin'[n][t] # pin[n][t]
                 PROVE  status[n][pin'[n][t]] # "INACTIVE"
        OBVIOUS
    <2>1. PICK k \in Routers, u \in Transfers : PinTaken(k, u)
        BY PinStep
    <2>2. k = n /\ u = t /\ pin'[n][t] = table[n][Dest[t]].hop /\ table[n][Dest[t]].hop # INF
        BY <2>1 DEF PinTaken, PinType
    <2> QED BY <2>2, HopAlive, DataAssumption
<1> QED BY <1>1, <1>2, <1>3, PTL DEF SystemSpec, PinsAreLive

-------------------------------------------------------------------------------
(***************************************************************************)
(* Tables while every router is there.                                     *)
(***************************************************************************)

\* A router that is gone stays gone; so while none is, every step is one of the
\* control plane or leaves it alone.
LEMMA PeacefulStep ==
    ASSUME TypeOK, [SystemNext]_allVars, Gone' = {}
    PROVE  Gone = {} /\ [Next]_vars /\ \A n \in Routers : ~Exit(n)
<1>1. \A n \in Routers : ~Exit(n)
    BY DEF Exit, Gone, TypeOK
<1>2. [Next]_vars
    BY <1>1, ControlStep
<1>3. ASSUME NEW n \in Routers, phase[n] = "gone" PROVE FALSE
    <2>1. phase'[n] # "gone"
        BY DEF Gone
    <2>2. \A k \in Routers : ~CrashNow(k)
        BY <1>1 DEF CrashNow
    <2>3. ASSUME NEW k \in Routers, InitResponse(k) PROVE phase'[n] = "gone"
        BY <1>3, <2>3 DEF InitResponse, TypeOK
    <2>4. UNCHANGED phase \/ \E k \in Routers : InitResponse(k)
        BY <1>2, <2>2
        DEF Next, Controller, Timer, Network, UpdateCost, ClockTick, IntervalTick, Elapse,
            ReceiveUpdate, Lose, vars
    <2> QED BY <1>3, <2>1, <2>3, <2>4
<1> QED BY <1>1, <1>2, <1>3 DEF Gone

\* Nothing moves: vectors, tables and datagrams are the settled ones.
Calm ==
    /\ vectors = SettledVectors
    /\ table = SettledTables
    /\ \A msg \in net : msg.vec = Shortest[Routers][msg.src]

\* A tick finds no neighbour to give up.
LEMMA CalmTick ==
    ASSUME MaxLosses <= 1, TypeOK, AgesBounded, Gone = {}, NEW n \in Routers, MarkInactive(n)
    PROVE  UNCHANGED <<vectors, table>>
<1>1. Expired(n) = {}
    <2> SUFFICES ASSUME NEW m \in Expired(n) PROVE FALSE
        OBVIOUS
    <2>1. m \in Neighbours(n) /\ m \in Routers /\ age[n][m] >= MaxAge
        BY DEF Expired, Neighbours
    <2>2. phase[n] # "gone" /\ phase[m] # "gone"
        BY <2>1 DEF Gone
    <2>3. age[n][m] <= losses + 1
        BY <2>1, <2>2 DEF AgesBounded, AgeBound
    <2>4. losses \in 0 .. MaxLosses /\ MaxLosses \in Nat /\ age[n][m] \in 0 .. MaxAge
        BY <2>1, BoundsAssumption DEF TypeOK
    <2> QED BY <2>1, <2>3, <2>4 DEF MaxAge
<1>2. Cut(n, {}) = vectors[n]
    <2>1. vectors[n] \in [Routers -> [Routers -> Cost]] /\ vectors[n][n] \in [Routers -> Cost]
        BY DEF TypeOK
    <2>2. [m \in Routers |-> IF m \in {} THEN INF ELSE vectors[n][n][m]] = vectors[n][n]
        BY <2>1
    <2> QED BY <2>1, <2>2 DEF Cut
<1>3. vectors' = [vectors EXCEPT ![n] = vectors[n]] /\ table' = [table EXCEPT ![n] = table[n]]
    BY <1>1, <1>2 DEF MarkInactive
<1> QED BY <1>3 DEF TypeOK

\* What a settled router sends is settled.
LEMMA CalmSend ==
    ASSUME Calm, NEW n \in Routers, NEW tab, tab = SettledTables[n], SendRoutingUpdates(n, tab)
    PROVE  \A msg \in net' : msg.vec = Shortest[Routers][msg.src]
<1>1. Payload(tab) = Shortest[Routers][n]
    BY SettledPayload
<1>2. net' = net \cup [src : {n}, dst : Listeners(n), vec : {Payload(tab)}]
    BY DEF SendRoutingUpdates
<1> QED BY <1>1, <1>2 DEF Calm

\* What is received is known already.
LEMMA CalmReceive ==
    ASSUME TypeOK, OnlyNeighbours, Calm, NEW msg \in net, ReceiveUpdate(msg)
    PROVE  UNCHANGED <<vectors, table>>
<1> DEFINE n == msg.dst
           m == msg.src
           v == [vectors[n] EXCEPT ![m] = msg.vec]
<1>1. n \in Routers /\ m \in Routers /\ m \in Neighbours(n) /\ m # n
    BY DEF TypeOK, Datagram, OnlyNeighbours, Neighbours
<1>2. vectors[n][m] = msg.vec
    BY <1>1, SettledVectorsType DEF Calm
<1>3. v = vectors[n]
    BY <1>1, <1>2 DEF TypeOK
<1>4. table[n] = TableOf(vectors[n], n)
    BY <1>1 DEF Calm, SettledTables
<1>5. CASE UNCHANGED local
    BY <1>5 DEF local
<1>6. CASE vectors' = [vectors EXCEPT ![n] = v] /\ table' = [table EXCEPT ![n] = TableOf(v, n)]
    <2>1. table' = [table EXCEPT ![n] = table[n]] /\ vectors' = [vectors EXCEPT ![n] = vectors[n]]
        BY <1>3, <1>4, <1>6
    <2> QED BY <2>1 DEF TypeOK
<1> QED BY <1>5, <1>6 DEF ReceiveUpdate, ProcessUpdate

LEMMA CalmStep ==
    ASSUME UpdateCosts = {}, MaxLosses <= 1, TypeOK, OnlyNeighbours, AgesBounded, Calm,
           [SystemNext]_allVars, Gone' = {}
    PROVE  Calm'
<1>1. Gone = {} /\ [Next]_vars /\ \A n \in Routers : ~CrashNow(n)
    BY PeacefulStep DEF CrashNow
<1>2. ASSUME UNCHANGED <<vectors, table>>, net' \subseteq net PROVE Calm'
    BY <1>2 DEF Calm
<1>3. ASSUME NEW n \in Routers, NEW tab, tab = SettledTables[n], SendRoutingUpdates(n, tab),
             UNCHANGED <<vectors, table>>
      PROVE  Calm'
    BY <1>3, CalmSend DEF Calm
<1>4. ASSUME NEW n \in Routers, InitResponse(n) PROVE Calm'
    BY <1>3, <1>4 DEF InitResponse, local, Calm
<1>5. ASSUME NEW n \in Routers, ClockTick(n) PROVE Calm'
    BY <1>1, <1>2, <1>5, CalmTick DEF ClockTick
<1>6. ASSUME NEW n \in Routers, IntervalTick(n) PROVE Calm'
    <2>1. UNCHANGED <<vectors, table>>
        BY <1>1, <1>6, CalmTick DEF IntervalTick
    <2>2. table'[n] = SettledTables[n] /\ SendRoutingUpdates(n, table'[n])
        BY <1>6, <2>1 DEF IntervalTick, Calm
    <2>3. SendRoutingUpdates(n, SettledTables[n])
        BY <2>2 DEF SendRoutingUpdates
    <2> QED BY <1>3, <2>1, <2>3
<1>7. ASSUME NEW n \in Routers, NEW m \in Routers, Elapse(n, m) PROVE Calm'
    BY <1>2, <1>7 DEF Elapse
<1>8. ASSUME NEW msg \in net, ReceiveUpdate(msg) PROVE Calm'
    <2>1. net' \subseteq net
        BY <1>8 DEF ReceiveUpdate
    <2> QED BY <1>2, <1>8, <2>1, CalmReceive
<1>9. ASSUME NEW msg \in net, Lose(msg) PROVE Calm'
    BY <1>2, <1>9 DEF Lose, local
<1>10. CASE UNCHANGED vars
    BY <1>2, <1>10 DEF vars, local
<1> QED
    BY <1>1, <1>4, <1>5, <1>6, <1>7, <1>8, <1>9, <1>10 DEF Next, Controller, Timer, Network

-------------------------------------------------------------------------------
(***************************************************************************)
(* TTLs on the way along settled tables.                                   *)
(***************************************************************************)

Elements(s) == {s[i] : i \in DOMAIN s}

LEMMA TailElements ==
    ASSUME NEW S, NEW s \in Seq(S), s # <<>>
    PROVE  /\ Head(s) \in S /\ Head(s) \in Elements(s)
           /\ Tail(s) \in Seq(S) /\ Elements(Tail(s)) \subseteq Elements(s)
<1>1. /\ Head(s) \in S /\ Tail(s) \in Seq(S) /\ Len(Tail(s)) = Len(s) - 1
      /\ \A i \in 1 .. Len(Tail(s)) : Tail(s)[i] = s[i + 1]
    BY HeadTailProperties
<1>2. Len(s) \in Nat /\ DOMAIN s = 1 .. Len(s) /\ Len(s) # 0
    BY LenProperties, EmptySeq
<1>3. DOMAIN Tail(s) = 1 .. Len(s) - 1
    BY <1>1, LenProperties
<1>4. Head(s) = s[1] /\ 1 \in DOMAIN s
    BY <1>2
<1>5. \A i \in DOMAIN Tail(s) : i + 1 \in DOMAIN s /\ Tail(s)[i] = s[i + 1]
    BY <1>1, <1>2, <1>3
<1> QED BY <1>1, <1>4, <1>5 DEF Elements

LEMMA ConcatElements ==
    ASSUME NEW S, NEW s \in Seq(S), NEW u \in Seq(S)
    PROVE  /\ s \o u \in Seq(S)
           /\ Elements(s \o u) \subseteq Elements(s) \cup Elements(u)
<1> DEFINE v == s \o u
<1>1. /\ v \in Seq(S) /\ Len(v) = Len(s) + Len(u)
      /\ \A i \in 1 .. Len(v) : v[i] = IF i <= Len(s) THEN s[i] ELSE u[i - Len(s)]
    BY ConcatProperties
<1>2. /\ Len(s) \in Nat /\ DOMAIN s = 1 .. Len(s)
      /\ Len(u) \in Nat /\ DOMAIN u = 1 .. Len(u)
      /\ DOMAIN v = 1 .. Len(v)
    BY <1>1, LenProperties
<1> HIDE DEF v
<1>3. ASSUME NEW i \in DOMAIN v PROVE v[i] \in Elements(s) \cup Elements(u)
    <2>1. CASE i <= Len(s)
        BY <1>1, <1>2, <2>1 DEF Elements
    <2>2. CASE ~(i <= Len(s))
        <3>1. i - Len(s) \in DOMAIN u /\ v[i] = u[i - Len(s)]
            BY <1>1, <1>2, <2>2
        <3> QED BY <3>1 DEF Elements
    <2> QED BY <2>1, <2>2
<1>4. Elements(v) \subseteq Elements(s) \cup Elements(u)
    BY <1>3 DEF Elements
<1> QED BY <1>1, <1>4 DEF v

\* hops bounds the hops a packet has before it along the settled tables; even to
\* its own router it takes one.
Left(hops, n, d) == IF n = d THEN 0 ELSE hops[n][d]

TTLsSuffice(hops) ==
    /\ hops \in [Routers -> [Routers -> Nat]]
    /\ \A n, d \in Routers :
          LET h == SettledTables[n][d].hop
          IN  h # INF => hops[n][d] > Left(hops, h, d)
    /\ \A t \in Transfers : InitTTL[t] > hops[Origin[t]][Dest[t]]

DataType ==
    /\ PinType
    /\ queue \in [Routers -> [Transfers -> Seq(Data!Chunk)]]
    /\ tcp \in [Routers -> [Routers -> Seq(Data!Packet)]]

\* Transfers follow the settled tables, and no packet has less than the hops
\* before it left.
Queued(hops) ==
    \A n \in Routers, t \in Transfers :
        /\ pin[n][t] \in {INF, SettledTables[n][Dest[t]].hop}
        /\ \A c \in Elements(queue[n][t]) :
              pin[n][t] # INF /\ c.pkt.id = t /\ c.pkt.ttl > hops[n][Dest[t]]

Sent(hops) ==
    \A n, h \in Routers : \A p \in Elements(tcp[n][h]) :
        p.ttl > Left(hops, h, Dest[p.id]) + 1

Lasting(hops) ==
    /\ DataType
    /\ Queued(hops)
    /\ Sent(hops)
    /\ \A t \in Transfers : expired[t] = {}

\* Chunks with enough left find their way into the queue, if there is a route.
LEMMA RouteLasts ==
    ASSUME NEW hops, DataType, Queued(hops), table = SettledTables,
           NEW n \in Routers, NEW t \in Transfers, NEW chunks \in Seq(Data!Chunk),
           \A c \in Elements(chunks) : c.pkt.id = t /\ c.pkt.ttl > hops[n][Dest[t]],
           Data!Route(n, t, chunks)
    PROVE  /\ queue' \in [Routers -> [Transfers -> Seq(Data!Chunk)]]
           /\ Queued(hops)'
<1>1. CASE UNCHANGED <<pin, queue>>
    BY <1>1 DEF DataType, Queued
<1>2. CASE NextHops[n][Dest[t]] # INF /\ Data!Push(n, t, chunks, NextHops[n][Dest[t]])
    <2> DEFINE h == SettledTables[n][Dest[t]].hop
               s == queue[n][t] \o chunks
    <2>1. NextHops[n][Dest[t]] = h
        BY DataAssumption DEF NextHops
    <2>2. /\ h # INF
          /\ pin' = [pin EXCEPT ![n][t] = IF pin[n][t] = INF THEN h ELSE pin[n][t]]
          /\ queue' = [queue EXCEPT ![n][t] = s]
        BY <1>2, <2>1 DEF Data!Push
    <2>3. s \in Seq(Data!Chunk) /\ Elements(s) \subseteq Elements(queue[n][t]) \cup Elements(chunks)
        BY ConcatElements DEF DataType
    <2> HIDE DEF s
    <2>4. pin[n][t] \in {INF, h}
        BY DEF Queued
    <2>5. \A k \in Routers, u \in Transfers :
              /\ pin'[k][u] = IF k = n /\ u = t THEN h ELSE pin[k][u]
              /\ queue'[k][u] = IF k = n /\ u = t THEN s ELSE queue[k][u]
        BY <2>2, <2>4 DEF DataType, PinType
    <2>6. \A c \in Elements(s) : c.pkt.id = t /\ c.pkt.ttl > hops[n][Dest[t]]
        BY <2>3 DEF Queued
    <2>7. Queued(hops)'
        BY <2>2, <2>5, <2>6 DEF Queued
    <2>8. queue' \in [Routers -> [Transfers -> Seq(Data!Chunk)]]
        BY <2>2, <2>3 DEF DataType
    <2> QED BY <2>7, <2>8
<1> QED BY <1>1, <1>2 DEF Data!Route, Data!NoPush

LEMMA SendFileLasts ==
    ASSUME NEW hops, TTLsSuffice(hops), Lasting(hops), table = SettledTables,
           NEW t \in Transfers, SendFile(t), PinType'
    PROVE  Lasting(hops)'
<1> DEFINE n == Origin[t]
           chunks == Data!Packetised(t)
<1>1. /\ n \in Routers /\ Size[t] \in Nat /\ InitTTL[t] \in 0 .. MaxTTL
      /\ InitTTL[t] > hops[n][Dest[t]]
    BY DataAssumption DEF TTLsSuffice
<1>2. /\ UNCHANGED <<tcp, expired>>
      /\ \/ Data!Route(n, t, chunks)
         \/ Data!NoChunks(n, NextHops[n][Dest[t]])
    BY DEF SendFile, Data!SendFile
<1>3. /\ chunks \in Seq(Data!Chunk)
      /\ \A c \in Elements(chunks) : c.pkt.id = t /\ c.pkt.ttl > hops[n][Dest[t]]
    <2>1. chunks = [k \in 1 .. Size[t] |->
                      [pkt |-> [id |-> t, seq |-> k, ttl |-> InitTTL[t]], own |-> TRUE]]
        BY DEF Data!Packetised
    <2>2. \A k \in 1 .. Size[t] :
              [pkt |-> [id |-> t, seq |-> k, ttl |-> InitTTL[t]], own |-> TRUE] \in Data!Chunk
        BY <1>1 DEF Data!Chunk, Data!Packet
    <2> HIDE DEF chunks
    <2>3. chunks \in Seq(Data!Chunk)
        BY <1>1, <2>1, <2>2
    <2> QED BY <1>1, <2>1, <2>3 DEF Elements
<1>4. queue' \in [Routers -> [Transfers -> Seq(Data!Chunk)]] /\ Queued(hops)'
    <2>1. CASE Data!Route(n, t, chunks)
        <3> HIDE DEF chunks, n
        <3> QED BY <1>1, <1>3, <2>1, RouteLasts DEF Lasting
    <2>2. CASE Data!NoChunks(n, NextHops[n][Dest[t]])
        BY <2>2 DEF Data!NoChunks, Lasting, DataType, Queued
    <2> QED BY <1>2, <2>1, <2>2
<1> QED BY <1>2, <1>4 DEF Lasting, DataType, Sent

\* A packet that arrives has at least one hop left, so none is dropped.
LEMMA ReceiveLasts ==
    ASSUME NEW hops, TTLsSuffice(hops), Lasting(hops), table = SettledTables,
           NEW m \in Routers, NEW n \in Routers, Receive(m, n), PinType'
    PROVE  Lasting(hops)'
<1> DEFINE s == tcp[m][n]
<1>1. s \in Seq(Data!Packet) /\ s # <<>> /\ tcp' = [tcp EXCEPT ![m][n] = Tail(s)]
    BY DEF Lasting, DataType, Receive, Data!Receive
<1>2. PICK read : read = Head(s)
    OBVIOUS
<1>3. /\ read \in Data!Packet /\ read \in Elements(s)
      /\ Tail(s) \in Seq(Data!Packet) /\ Elements(Tail(s)) \subseteq Elements(s)
    BY <1>1, <1>2, TailElements
<1>4. PICK t : t = read.id
    OBVIOUS
<1>5. /\ t \in Transfers /\ read.ttl \in 0 .. MaxTTL /\ read.seq \in Nat
      /\ read.ttl > Left(hops, n, Dest[t]) + 1
      /\ Left(hops, n, Dest[t]) \in Nat
    <2>1. /\ t \in Transfers /\ read.ttl \in 0 .. MaxTTL /\ read.seq \in Nat
        BY <1>3, <1>4 DEF Data!Packet
    <2>2. Left(hops, n, Dest[t]) \in Nat
        BY <2>1, DataAssumption DEF Left, TTLsSuffice
    <2>3. read.ttl > Left(hops, n, Dest[t]) + 1
        BY <1>3, <1>4 DEF Lasting, Sent
    <2> QED BY <2>1, <2>2, <2>3
<1>6. PICK pkt : pkt = [read EXCEPT !.ttl = Data!Decremented(read.ttl)]
    OBVIOUS
<1>7. /\ pkt \in Data!Packet /\ pkt.id = t /\ pkt.ttl # 0
      /\ pkt.ttl > Left(hops, n, Dest[t])
    <2>1. Data!Decremented(read.ttl) = read.ttl - 1
        BY <1>5 DEF Data!Decremented
    <2>2. MaxTTL \in Nat
        BY DataAssumption
    <2> QED BY <1>3, <1>4, <1>5, <1>6, <2>1, <2>2 DEF Data!Packet
<1>8. \/ n = Dest[t] /\ Data!Deliver(n, pkt)
      \/ n # Dest[t] /\ Data!Forward(n, pkt)
    BY <1>2, <1>6, <1>7 DEF Receive, Data!Receive
<1>9. UNCHANGED expired
    BY <1>8 DEF Data!Deliver, Data!Forward
<1>10. queue' \in [Routers -> [Transfers -> Seq(Data!Chunk)]] /\ Queued(hops)'
    <2>1. CASE Data!Deliver(n, pkt)
        <3>1. UNCHANGED <<pin, queue>>
            BY <2>1 DEF Data!Deliver, Data!NoPush
        <3> QED BY <3>1 DEF Lasting, DataType, Queued
    <2>2. CASE n # Dest[t] /\ Data!Forward(n, pkt)
        <3>1. PICK c : c = [pkt |-> pkt, own |-> FALSE]
            OBVIOUS
        <3>2. Data!Route(n, t, <<c>>)
            BY <1>7, <2>2, <3>1 DEF Data!Forward
        <3>3. <<c>> \in Seq(Data!Chunk) /\ Elements(<<c>>) = {c}
            <4>1. c \in Data!Chunk
                BY <1>7, <3>1 DEF Data!Chunk
            <4>2. DOMAIN <<c>> = {1} /\ <<c>>[1] = c
                OBVIOUS
            <4>3. Elements(<<c>>) = {c}
                BY <4>2 DEF Elements
            <4> QED BY <4>1, <4>3
        <3>4. c.pkt.id = t /\ c.pkt.ttl > hops[n][Dest[t]]
            BY <1>7, <2>2, <3>1 DEF Left
        <3> QED BY <1>5, <3>2, <3>3, <3>4, RouteLasts DEF Lasting
    <2> QED BY <1>8, <2>1, <2>2
<1>11. tcp' \in [Routers -> [Routers -> Seq(Data!Packet)]] /\ Sent(hops)'
    <2>1. \A k, l \in Routers : tcp'[k][l] = IF k = m /\ l = n THEN Tail(s) ELSE tcp[k][l]
        BY <1>1 DEF Lasting, DataType
    <2> HIDE DEF s
    <2>2. tcp' \in [Routers -> [Routers -> Seq(Data!Packet)]]
        BY <1>1, <1>3 DEF Lasting, DataType
    <2>3. \A k, l \in Routers : Elements(tcp'[k][l]) \subseteq Elements(tcp[k][l])
        BY <1>3, <2>1 DEF s
    <2>4. Sent(hops)'
        BY <2>3 DEF Lasting, Sent
    <2> QED BY <2>2, <2>4
<1> QED BY <1>9, <1>10, <1>11 DEF Lasting, DataType

\* The instance of DataPlane counts as FiniteSets does.
LEMMA SameCardinality == \A S : Data!Cardinality(S) = Cardinality(S)
BY DEF Data!Cardinality, Cardinality

\* What is written had one hop more left where it was queued.
LEMMA WriteHandlerLasts ==
    ASSUME NEW hops, TTLsSuffice(hops), Lasting(hops), Gone = {},
           NEW n \in Routers, NEW h \in Routers, WriteHandler(n, h)
    PROVE  Lasting(hops)'
<1> DEFINE ts == Data!Sendable(n, h)
           s == tcp[n][h]
<1>1. PICK ids \in Data!InOrder(ts) : tcp' = [tcp EXCEPT ![n][h] = Data!Written(n, h, ids)]
    BY DEF WriteHandler, Data!WriteHandler
<1>2. /\ UNCHANGED <<pin, expired>>
      /\ queue' = [queue EXCEPT ![n] = [t \in Transfers |->
                       IF t \in ts THEN Tail(queue[n][t]) ELSE queue[n][t]]]
    BY DEF WriteHandler, Data!WriteHandler, Data!TakeChunks
<1>3. ts \subseteq Transfers /\ s \in Seq(Data!Packet)
    BY DEF Data!Sendable, Lasting, DataType
<1>4. Cardinality(ts) \in Nat
    BY <1>3, DataAssumption, FS_Subset, FS_CardinalityType
<1>5. DOMAIN ids = 1 .. Cardinality(ts) /\ \A i \in DOMAIN ids : ids[i] \in ts
    <2>1. ids \in [1 .. Cardinality(ts) -> ts]
        BY SameCardinality DEF Data!InOrder
    <2> HIDE DEF ts
    <2> QED BY <2>1
<1>6. ASSUME NEW t \in ts
      PROVE  /\ Head(queue[n][t]).pkt \in Data!Packet
             /\ Head(queue[n][t]).pkt.ttl > Left(hops, h, Dest[Head(queue[n][t]).pkt.id]) + 1
             /\ Tail(queue[n][t]) \in Seq(Data!Chunk)
             /\ Elements(Tail(queue[n][t])) \subseteq Elements(queue[n][t])
    <2>1. t \in Transfers /\ queue[n][t] \in Seq(Data!Chunk) /\ queue[n][t] # <<>> /\ pin[n][t] = h
        BY <1>3 DEF Lasting, DataType, Data!Sendable
    <2>2. PICK c : c = Head(queue[n][t])
        OBVIOUS
    <2>3. /\ c \in Data!Chunk /\ c \in Elements(queue[n][t])
          /\ Tail(queue[n][t]) \in Seq(Data!Chunk)
          /\ Elements(Tail(queue[n][t])) \subseteq Elements(queue[n][t])
        BY <2>1, <2>2, TailElements
    <2>4. c.pkt.id = t /\ c.pkt.ttl > hops[n][Dest[t]] /\ pin[n][t] = SettledTables[n][Dest[t]].hop
        BY <2>1, <2>3 DEF Lasting, Queued
    <2>5. Dest[t] \in Routers /\ h # INF
        <3>1. h # INF
            BY InfAssumption
        <3>2. Dest[t] \in Routers
            BY <2>1, DataAssumption
        <3> QED BY <3>1, <3>2
    <2>6. hops[n][Dest[t]] > Left(hops, h, Dest[t])
        BY <2>1, <2>4, <2>5 DEF TTLsSuffice
    <2>7. hops[n][Dest[t]] \in Nat /\ Left(hops, h, Dest[t]) \in Nat
        BY <2>5 DEF TTLsSuffice, Left
    <2>8. c.pkt \in Data!Packet /\ c.pkt.ttl \in Nat
        <3>1. c.pkt \in Data!Packet
            BY <2>3 DEF Data!Chunk
        <3>2. c.pkt.ttl \in 0 .. MaxTTL
            BY <3>1 DEF Data!Packet
        <3> QED BY <3>1, <3>2
    <2>9. c.pkt.ttl > Left(hops, h, Dest[t]) + 1
        BY <2>4, <2>6, <2>7, <2>8
    <2> QED BY <2>2, <2>3, <2>4, <2>8, <2>9
<1> HIDE DEF ts, s
<1>7. queue' \in [Routers -> [Transfers -> Seq(Data!Chunk)]] /\ Queued(hops)'
    <2>1. \A k \in Routers, t \in Transfers :
              queue'[k][t] = IF k = n /\ t \in ts THEN Tail(queue[n][t]) ELSE queue[k][t]
        <3>1. queue \in [Routers -> [Transfers -> Seq(Data!Chunk)]]
            BY DEF Lasting, DataType
        <3> QED BY <1>2, <3>1
    <2>2. \A t \in Transfers :
              (IF t \in ts THEN Tail(queue[n][t]) ELSE queue[n][t]) \in Seq(Data!Chunk)
        BY <1>6 DEF Lasting, DataType
    <2>3. queue' \in [Routers -> [Transfers -> Seq(Data!Chunk)]]
        BY <1>2, <2>2 DEF Lasting, DataType
    <2>4. \A k \in Routers, t \in Transfers : Elements(queue'[k][t]) \subseteq Elements(queue[k][t])
        BY <1>6, <2>1
    <2>5. ASSUME NEW k \in Routers, NEW t \in Transfers
          PROVE  /\ pin'[k][t] \in {INF, SettledTables[k][Dest[t]].hop}
                 /\ \A c \in Elements(queue'[k][t]) :
                       pin'[k][t] # INF /\ c.pkt.id = t /\ c.pkt.ttl > hops[k][Dest[t]]
        <3>1. /\ pin[k][t] \in {INF, SettledTables[k][Dest[t]].hop}
              /\ \A c \in Elements(queue[k][t]) :
                    pin[k][t] # INF /\ c.pkt.id = t /\ c.pkt.ttl > hops[k][Dest[t]]
            BY DEF Lasting, Queued
        <3>2. pin' = pin /\ Elements(queue'[k][t]) \subseteq Elements(queue[k][t])
            BY <1>2, <2>4
        <3> QED BY <3>1, <3>2, Zenon
    <2>6. Queued(hops)'
        BY <2>5 DEF Queued
    <2> QED BY <2>3, <2>6
<1>8. tcp' \in [Routers -> [Routers -> Seq(Data!Packet)]] /\ Sent(hops)'
    <2> DEFINE u == [i \in DOMAIN ids |-> Head(queue[n][ids[i]]).pkt]
    <2>1. Data!Written(n, h, ids) = s \o u
        BY DEF Data!Written, s
    <2>2. u \in Seq(Data!Packet)
        BY <1>4, <1>5, <1>6
    <2>3. \A p \in Elements(u) : p.ttl > Left(hops, h, Dest[p.id]) + 1
        BY <1>5, <1>6 DEF Elements
    <2> HIDE DEF u
    <2>4. s \o u \in Seq(Data!Packet) /\ Elements(s \o u) \subseteq Elements(s) \cup Elements(u)
        BY <1>3, <2>2, ConcatElements
    <2>5. tcp' = [tcp EXCEPT ![n][h] = s \o u]
        BY <1>1, <2>1
    <2>6. tcp' \in [Routers -> [Routers -> Seq(Data!Packet)]]
        BY <2>4, <2>5 DEF Lasting, DataType
    <2>7. \A k, l \in Routers : tcp'[k][l] = IF k = n /\ l = h THEN s \o u ELSE tcp[k][l]
        BY <2>5 DEF Lasting, DataType
    <2>8. \A p \in Elements(s \o u) : p.ttl > Left(hops, h, Dest[p.id]) + 1
        BY <2>3, <2>4 DEF Lasting, Sent, s
    <2>9. Sent(hops)'
        BY <2>7, <2>8 DEF Lasting, Sent
    <2> QED BY <2>6, <2>9
<1> QED BY <1>2, <1>7, <1>8 DEF Lasting, DataType, PinType

\* While all routers are there: the timers find nobody late, so no table moves,
\* so packets follow the settled tables.
Peaceful(hops) ==
    Gone = {} => AgesBounded /\ Calm /\ Lasting(hops)

LEMMA PeacefulInit ==
    ASSUME NEW hops, SystemInit
    PROVE  PinType /\ Peaceful(hops)
<1>1. AgesBounded
    BY DEF SystemInit, AgesBounded, AgeBound, Neighbours
<1>2. Calm
    BY DEF SystemInit, Calm
<1>3. PinType
    BY DEF SystemInit, PinType
<1>4. <<>> \in Seq(Data!Chunk) /\ <<>> \in Seq(Data!Packet) /\ Elements(<<>>) = {}
    BY DEF Elements
<1>5. DataType
    BY <1>3, <1>4 DEF SystemInit, DataType
<1>6. Queued(hops) /\ Sent(hops)
    BY <1>4 DEF SystemInit, Queued, Sent
<1>7. \A t \in Transfers : expired[t] = {}
    BY DEF SystemInit
<1> QED BY <1>1, <1>2, <1>3, <1>5, <1>6, <1>7 DEF Peaceful, Lasting

LEMMA PeacefulKeeps ==
    ASSUME UpdateCosts = {}, Timely, MaxLosses <= 1, NEW hops, TTLsSuffice(hops),
           ControlInv, PinType, Peaceful(hops), [SystemNext]_allVars
    PROVE  Peaceful(hops)'
<1> SUFFICES ASSUME Gone' = {}
             PROVE  (AgesBounded /\ Calm /\ Lasting(hops))'
    BY DEF Peaceful
<1>1. Gone = {} /\ [Next]_vars /\ \A n \in Routers : ~Exit(n)
    BY PeacefulStep DEF ControlInv
<1>2. AgesBounded /\ Calm /\ Lasting(hops) /\ PinType'
    BY <1>1, PinTypeStep DEF Peaceful, ControlInv
<1>3. AgesBounded'
    BY <1>1, <1>2, AgesBoundedStep DEF ControlInv
<1>4. Calm'
    BY <1>2, CalmStep DEF ControlInv
<1>5. Lasting(hops)'
    <2>1. ASSUME UNCHANGED dataVars PROVE Lasting(hops)'
        <3>1. UNCHANGED <<pin, queue, tcp, expired>>
            BY <2>1 DEF dataVars
        <3> QED BY <1>2, <3>1 DEF Lasting, DataType, PinType, Queued, Sent
    <2>2. table = SettledTables
        BY <1>2 DEF Calm
    <2>3. ASSUME NEW t \in Transfers, SendFile(t) PROVE Lasting(hops)'
        BY <1>2, <2>2, <2>3, SendFileLasts
    <2>4. ASSUME NEW n \in Routers, NEW m \in Routers, Receive(m, n) PROVE Lasting(hops)'
        BY <1>2, <2>2, <2>4, ReceiveLasts
    <2>5. ASSUME NEW n \in Routers, NEW h \in Routers, WriteHandler(n, h) PROVE Lasting(hops)'
        BY <1>1, <1>2, <2>5, WriteHandlerLasts
    <2>6. \A n \in Crashing : ~Crash(n)
        BY <1>1, DataAssumption DEF Crash, CrashNow
    <2>7. \A n, h \in Routers : ~Broken(n, h)
        BY <1>1 DEF Broken
    <2>8. CASE Control \/ UNCHANGED allVars
        BY <2>1, <2>8 DEF Control, allVars
    <2> QED BY <2>3, <2>4, <2>5, <2>6, <2>7, <2>8 DEF SystemNext
<1> QED BY <1>3, <1>4, <1>5

\* While every router is there, no TTL runs out that suffices for the cheapest
\* paths: no stream of updates, no timer and no other transfer sends a packet
\* another way, as long as no UPDATE changes a link, updates are in time and at
\* most one is lost.
THEOREM NoLoopsInPeaceHolds ==
    ASSUME UpdateCosts = {}, Timely, MaxLosses <= 1, NEW hops, TTLsSuffice(hops)
    PROVE  SystemSpec => []NoLoopsInPeace
<1>1. SystemInit => ControlInv /\ PinType /\ Peaceful(hops)
    BY ControlInit, PeacefulInit
<1>2. ControlInv /\ PinType /\ Peaceful(hops) /\ [SystemNext]_allVars
          => ControlInv' /\ PinType' /\ Peaceful(hops)'
    BY ControlKeeps, PinTypeStep, PeacefulKeeps DEF ControlInv
<1>3. Peaceful(hops) => NoLoopsInPeace
    BY DEF Peaceful, Lasting, NoLoopsInPeace
<1> QED BY <1>1, <1>2, <1>3, PTL DEF SystemSpec

\* The cost of the cheapest path bounds its hops when no link is free.
CheapestHops ==
    [n \in Routers |-> [d \in Routers |->
        LET dist == Shortest[Routers][n][d]
        IN  IF n = d THEN 1 ELSE IF dist = INF THEN 0 ELSE dist]]

LEMMA CheapestSuffices ==
    ASSUME \A n \in Routers : \A m \in Routers \ {n} : Link[n][m] # 0,
           \A t \in Transfers : InitTTL[t] > CheapestHops[Origin[t]][Dest[t]]
    PROVE  TTLsSuffice(CheapestHops)
<1>1. CheapestHops \in [Routers -> [Routers -> Nat]]
    <2>1. \A n, d \in Routers : Shortest[Routers][n][d] \in Cost
        BY ShortestAssumption
    <2> QED BY <2>1, InfAssumption DEF CheapestHops, Cost
<1>2. ASSUME NEW n \in Routers, NEW d \in Routers, NEW h, h = SettledTables[n][d].hop, h # INF
      PROVE  CheapestHops[n][d] > Left(CheapestHops, h, d)
    <2>1. SettledTables[n][d] = IF d = n THEN [cost |-> 0, hop |-> n]
                                ELSE RouteTo(SettledVectors[n], n, d)
        BY DEF SettledTables, TableOf
    <2>2. CASE d = n
        BY <1>2, <2>1, <2>2 DEF CheapestHops, Left
    <2>3. CASE d # n
        <3> DEFINE r == RouteTo(SettledVectors[n], n, d)
        <3>1. /\ SettledVectors[n] \in Vectors /\ SettledVectors[n][n] = Link[n]
              /\ \A m \in Neighbours(n) : SettledVectors[n][m] = Shortest[Routers][m]
            BY SettledVectorsType
        <3>2. /\ r.hop = h /\ h \in Neighbours(n) /\ r.cost # INF
              /\ SettledVectors[n][n][h] # INF /\ SettledVectors[n][h][d] # INF
              /\ r.cost = WordSum(SettledVectors[n][n][h], SettledVectors[n][h][d])
            BY <1>2, <2>1, <2>3, <3>1, RouteFacts
        <3>3. r.cost = Shortest[Routers][n][d]
            BY <2>1, <2>3, SettledCosts
        <3> HIDE DEF r
        <3>4. /\ h \in Routers /\ h # n
              /\ Link[n][h] \in Cost /\ Link[n][h] # 0
              /\ Shortest[Routers][h][d] \in Cost /\ Shortest[Routers][h][d] # INF
              /\ Shortest[Routers][n][d] \in Cost /\ Shortest[Routers][n][d] # INF
              /\ r.cost = WordSum(Link[n][h], Shortest[Routers][h][d])
            <4>1. h \in Routers /\ h # n
                BY <3>2 DEF Neighbours
            <4>2. /\ Link[n][h] \in Cost /\ Link[n][h] # 0
                  /\ Shortest[Routers][h][d] \in Cost /\ Shortest[Routers][n][d] \in Cost
                BY <4>1, LinkAssumption, ShortestAssumption
            <4>3. SettledVectors[n][h] = Shortest[Routers][h]
                BY <3>1, <3>2
            <4> QED BY <3>1, <3>2, <3>3, <4>1, <4>2, <4>3
        <3>5. Link[n][h] + Shortest[Routers][h][d] <= INF
            BY <2>3, <3>2, <3>4, SettledAssumption
        <3>6. Shortest[Routers][n][d] = Link[n][h] + Shortest[Routers][h][d]
            BY <3>3, <3>4, <3>5, WordSumFacts
        <3>7. Shortest[Routers][n][d] > Shortest[Routers][h][d] /\ Shortest[Routers][h][d] \in Nat
            BY <3>4, <3>6, InfAssumption DEF Cost
        <3>8. /\ CheapestHops[n][d] = Shortest[Routers][n][d]
              /\ Left(CheapestHops, h, d) = IF h = d THEN 0 ELSE Shortest[Routers][h][d]
            BY <2>3, <3>4 DEF CheapestHops, Left
        <3>9. CASE h = d
            BY <3>4, <3>7, <3>8, <3>9, InfAssumption DEF Cost
        <3>10. CASE h # d
            BY <3>7, <3>8, <3>10
        <3> QED BY <3>9, <3>10
    <2> QED BY <2>2, <2>3
<1> QED BY <1>1, <1>2 DEF TTLsSuffice

\* So a TTL above the cost of the cheapest path never runs out in peace, when no
\* link is free.
THEOREM NoLoopsOnCheapestPaths ==
    ASSUME UpdateCosts = {}, Timely, MaxLosses <= 1,
           \A n \in Routers : \A m \in Routers \ {n} : Link[n][m] # 0,
           \A t \in Transfers : InitTTL[t] > CheapestHops[Origin[t]][Dest[t]]
    PROVE  SystemSpec => []NoLoopsInPeace
BY CheapestSuffices, NoLoopsInPeaceHolds

===============================================================================
