--------------------------- MODULE SystemFlowProofs ---------------------------
(***************************************************************************)
(* What DataPlaneProofs shows for any routes holds in the router as a      *)
(* whole: every handler of the data plane is a step of DataPlane over the  *)
(* tables of the moment, and whatever a handler of the control plane does  *)
(* to the tables leaves what is known of each transfer true.               *)
(***************************************************************************)
EXTENDS SystemProofs

\* As Data in System, with the theorems about it.
Flows == INSTANCE DataPlaneProofs WITH
    NoHop <- INF,
    FirstRoute <- [n \in Routers |-> [d \in Routers |-> SettledTables[n][d].hop]],
    RouteChoices <- [n \in Routers |-> [d \in Routers |-> {}]],
    MayFail <- FALSE,
    MaxReroutes <- 0,
    route <- NextHops,
    down <- Gone,
    reroutes <- 0

-------------------------------------------------------------------------------
(***************************************************************************)
(* The assumptions of DataPlane hold for the instance, so its lemmas do.   *)
(***************************************************************************)

LEMMA FiniteTransfers == Flows!IsFiniteSet(Transfers)
BY DataAssumption DEF IsFiniteSet, Flows!IsFiniteSet

LEMMA FirstHopsType ==
    /\ [n \in Routers |-> [d \in Routers |-> SettledTables[n][d].hop]]
           \in [Routers -> [Routers -> Routers \cup {INF}]]
    /\ [n \in Routers |-> [d \in Routers |-> {}]]
           \in [Routers -> [Routers -> SUBSET (Routers \cup {INF})]]
<1>1. \A n, d \in Routers : SettledTables[n][d] \in Route
    <2> SUFFICES ASSUME NEW n \in Routers, NEW d \in Routers
                 PROVE  SettledTables[n][d] \in Route
        OBVIOUS
    <2>1. SettledTables[n] \in [Routers -> Route]
        BY SettledVectorsType, TableType DEF SettledTables
    <2> QED BY <2>1
<1> QED BY <1>1 DEF Route

LEMMA FlowsStart ==
    ASSUME Flows!Types,
           queue = [n \in Routers |-> [t \in Transfers |-> <<>>]],
           tcp = [n \in Routers |-> [h \in Routers |-> <<>>]],
           stats = [n \in Routers |-> [t \in Transfers |-> {}]],
           fileData = [t \in Transfers |-> <<>>],
           file = [t \in Transfers |-> <<>>],
           answers = [t \in Transfers |-> 0],
           expired = [t \in Transfers |-> {}]
    PROVE  Flows!FlowInv
BY Flows!FlowStart, FiniteTransfers, FirstHopsType, DataAssumption, BoundsAssumption, InfAssumption

LEMMA FlowsNext ==
    ASSUME Flows!FlowInv, Flows!Next
    PROVE  Flows!FlowInv'
BY Flows!FlowNext, FiniteTransfers, FirstHopsType, DataAssumption, BoundsAssumption, InfAssumption

LEMMA FlowsStill ==
    ASSUME Flows!FlowInv, Flows!Types',
           UNCHANGED <<requested, pin, queue, tcp, stats, fileData, file, answers, expired>>
    PROVE  Flows!FlowInv'
BY Flows!StillKeeps, FiniteTransfers, FirstHopsType, DataAssumption, BoundsAssumption, InfAssumption

LEMMA FlowsMean ==
    ASSUME Flows!FlowInv
    PROVE  Flows!TTLSparesNone /\ Flows!AnsweredOnceSent /\ Flows!StatisticsAgree
<1>1. Flows!TTLSparesNone
    BY Flows!FlowImpliesTTLSparesNone, FiniteTransfers, FirstHopsType, DataAssumption,
       BoundsAssumption, InfAssumption
<1>2. Flows!AnsweredOnceSent
    BY Flows!FlowImpliesAnsweredOnceSent, FiniteTransfers, FirstHopsType, DataAssumption,
       BoundsAssumption, InfAssumption
<1>3. Flows!StatisticsAgree
    BY Flows!FlowImpliesStatisticsAgree, FiniteTransfers, FirstHopsType, DataAssumption,
       BoundsAssumption, InfAssumption
<1> QED BY <1>1, <1>2, <1>3

LEMMA FlowsMap ==
    ASSUME Flows!FlowInv, Flows!FlowInv', Flows!Next
    PROVE  [Flows!Promised!Next]_(Flows!Promised!ftVars)
BY Flows!StepMaps, FiniteTransfers, FirstHopsType, DataAssumption, BoundsAssumption, InfAssumption

-------------------------------------------------------------------------------
(***************************************************************************)
(* The steps of the system.                                                *)
(***************************************************************************)

\* SENDFILE, a read and a write are those of DataPlane; so are CRASH and the
\* end by SIGPIPE.
LEMMA DataSteps ==
    /\ \A t : Data!SendFile(t) => Flows!SendFile(t)
    /\ \A m, n : Data!Receive(m, n) => Flows!Receive(m, n)
    /\ \A n, h : Data!WriteHandler(n, h) => Flows!WriteHandler(n, h)
    /\ \A n, h : Data!Broken(n, h) => Flows!Broken(n, h)
    /\ \A n : Data!CrashNow(n) => Flows!CrashNow(n)
<1>1. ASSUME NEW t, Data!SendFile(t) PROVE Flows!SendFile(t)
    BY <1>1 DEF Data!SendFile, Data!Route, Data!Push, Data!NoPush, Data!NoChunks,
        Data!Packetised, Data!Reaches, Data!Up,
        Flows!SendFile, Flows!Route, Flows!Push, Flows!NoPush, Flows!NoChunks,
        Flows!Packetised, Flows!Reaches, Flows!Up
<1>2. ASSUME NEW m, NEW n, Data!Receive(m, n) PROVE Flows!Receive(m, n)
    BY <1>2 DEF Data!Receive, Data!Drop, Data!Deliver, Data!Forward, Data!Route, Data!Push,
        Data!NoPush, Data!Reaches, Data!Up, Data!Fin, Data!Decremented,
        Flows!Receive, Flows!Drop, Flows!Deliver, Flows!Forward, Flows!Route, Flows!Push,
        Flows!NoPush, Flows!Reaches, Flows!Up, Flows!Fin, Flows!Decremented
<1>3. ASSUME NEW n, NEW h, Data!WriteHandler(n, h) PROVE Flows!WriteHandler(n, h)
    BY <1>3 DEF Data!WriteHandler, Data!TakeChunks, Data!Sendable, Data!InOrder, Data!Written,
        Data!DisableWrite, Data!Answers, Data!Fin, Data!Up, Data!Cardinality,
        Flows!WriteHandler, Flows!TakeChunks, Flows!Sendable, Flows!InOrder, Flows!Written,
        Flows!DisableWrite, Flows!Answers, Flows!Fin, Flows!Up, Flows!Cardinality
<1>4. ASSUME NEW n, NEW h, Data!Broken(n, h) PROVE Flows!Broken(n, h)
    BY <1>4 DEF Data!Broken, Data!TakeChunks, Data!Sendable, Data!Answers, Data!Fin, Data!Up,
        Data!GoesDown,
        Flows!Broken, Flows!TakeChunks, Flows!Sendable, Flows!Answers, Flows!Fin, Flows!Up,
        Flows!GoesDown
<1>5. ASSUME NEW n, Data!CrashNow(n) PROVE Flows!CrashNow(n)
    BY <1>5 DEF Data!CrashNow, Data!Up, Data!GoesDown, Data!Cardinality,
        Flows!CrashNow, Flows!Up, Flows!GoesDown, Flows!Cardinality
<1> QED BY <1>1, <1>2, <1>3, <1>4, <1>5

LEMMA SystemStepMaps ==
    ASSUME [SystemNext]_allVars
    PROVE  Flows!Next \/ UNCHANGED dataVars
<1>1. CASE Control \/ UNCHANGED allVars
    BY <1>1 DEF Control, allVars
<1>2. CASE \E t \in Transfers : SendFile(t)
    BY <1>2, DataSteps DEF SendFile, Flows!Next
<1>3. CASE \E n, m \in Routers : Receive(m, n)
    BY <1>3, DataSteps DEF Receive, Flows!Next
<1>4. CASE \E n, h \in Routers : WriteHandler(n, h)
    BY <1>4, DataSteps DEF WriteHandler, Flows!Next
<1>5. CASE \E n \in Crashing : Crash(n)
    BY <1>5, DataSteps, DataAssumption DEF Crash, Flows!Next
<1>6. CASE \E n, h \in Routers : Broken(n, h)
    BY <1>6, DataSteps DEF Broken, Flows!Next
<1> QED BY <1>1, <1>2, <1>3, <1>4, <1>5, <1>6 DEF SystemNext

LEMMA SystemTypeStep ==
    ASSUME TypeOK, [SystemNext]_allVars
    PROVE  TypeOK'
<1>1. CASE [Next]_vars
    BY <1>1, TypeStep
<1>2. ASSUME NEW n \in Routers, Exit(n), UNCHANGED crashes
      PROVE  TypeOK'
    <2>1. /\ UNCHANGED <<status, linkCost, age, vectors, table, sent, updates, crashes, losses>>
          /\ net' \subseteq net /\ phase' = [phase EXCEPT ![n] = "gone"]
        BY <1>2 DEF Exit, local
    <2> QED BY <2>1 DEF TypeOK
<1> QED BY <1>1, <1>2, ControlStep

\* However the tables change, the next hops in them are routers or INF.
LEMMA FlowsStep ==
    ASSUME Flows!FlowInv, TypeOK', [SystemNext]_allVars
    PROVE  Flows!FlowInv'
<1>1. CASE Flows!Next
    BY <1>1, FlowsNext
<1>2. CASE UNCHANGED dataVars
    <2>1. UNCHANGED <<requested, connected, pin, queue, writable, tcp, stats,
                      fileData, file, answers, expired>>
        BY <1>2 DEF dataVars
    <2>2. NextHops' \in [Routers -> [Routers -> Routers \cup {INF}]]
        <3>1. \A n, d \in Routers : table'[n][d].hop \in Routers \cup {INF}
            BY DEF TypeOK, Route
        <3> QED BY <3>1 DEF NextHops
    <2>3. Gone' \subseteq Routers
        BY DEF Gone
    <2>4. Flows!Types
        BY DEF Flows!FlowInv
    <2>5. Flows!Types'
        BY <2>1, <2>2, <2>3, <2>4 DEF Flows!Types
    <2> QED BY <2>1, <2>5, FlowsStill
<1> QED BY <1>1, <1>2, SystemStepMaps

\* The system starts with its neighbours connected, otherwise as DataPlane does.
LEMMA SystemStarts ==
    ASSUME SystemInit
    PROVE  TypeOK /\ Flows!FlowInv
<1>1. Gone = {}
    BY DEF SystemInit, Gone
<1>2. NextHops \in [Routers -> [Routers -> Routers \cup {INF}]]
    <2>1. NextHops = [n \in Routers |-> [d \in Routers |-> SettledTables[n][d].hop]]
        BY DEF SystemInit, NextHops
    <2> QED BY <2>1, FirstHopsType
<1>3. Flows!Types
    <2>1. connected \in [Routers -> SUBSET Routers]
        BY DEF SystemInit, Neighbours
    <2> QED BY <1>1, <1>2, <2>1 DEF SystemInit, Flows!Types
<1>4. Flows!FlowInv
    BY <1>3, FlowsStart DEF SystemInit
<1> QED BY <1>4, ControlInit DEF ControlInv

LEMMA SystemFlows == SystemSpec => [](TypeOK /\ Flows!FlowInv)
<1>1. SystemInit => TypeOK /\ Flows!FlowInv
    BY SystemStarts
<1>2. TypeOK /\ Flows!FlowInv /\ [SystemNext]_allVars => TypeOK' /\ Flows!FlowInv'
    BY SystemTypeStep, FlowsStep
<1> QED BY <1>1, <1>2, PTL DEF SystemSpec

\* In the whole router, with the tables the distance vectors make, the packets
\* of a file share the fate of their TTL, a SENDFILE is answered once and only
\* when the whole file has left, and the routers' statistics agree, whatever
\* UPDATE, timeout, CRASH or SIGPIPE comes in between.
THEOREM TransfersSafe ==
    SystemSpec => [](Data!TTLSparesNone /\ Data!AnsweredOnceSent /\ Data!StatisticsAgree)
<1>1. Flows!FlowInv => Data!TTLSparesNone /\ Data!AnsweredOnceSent /\ Data!StatisticsAgree
    BY FlowsMean DEF Data!TTLSparesNone, Data!AnsweredOnceSent, Data!StatisticsAgree,
        Flows!TTLSparesNone, Flows!AnsweredOnceSent, Flows!StatisticsAgree
<1> QED BY <1>1, SystemFlows, PTL

LEMMA SamePromises ==
    [Flows!Promised!Next]_(Flows!Promised!ftVars) => [Data!Promised!Next]_(Data!Promised!ftVars)
BY DEF Data!Last, Data!Promised!Next, Data!Promised!Request, Data!Promised!Arrive,
        Data!Promised!Answer, Data!Promised!ftVars,
        Flows!Last, Flows!Promised!Next, Flows!Promised!Request, Flows!Promised!Arrive,
        Flows!Promised!Answer, Flows!Promised!ftVars

\* The whole router implements FileTransfer: each file's packets reach its
\* destination in order and at most once, and each SENDFILE is answered once,
\* while the control plane moves the routes and routers crash.
THEOREM SystemKeepsPromises == SystemSpec => Data!KeepsPromises
<1>1. SystemInit => Data!Promised!Init
    BY DEF SystemInit, Data!Promised!Init
<1>2. Flows!FlowInv /\ Flows!FlowInv' /\ [SystemNext]_allVars
          => [Data!Promised!Next]_(Data!Promised!ftVars)
    <2> SUFFICES ASSUME Flows!FlowInv, Flows!FlowInv', [SystemNext]_allVars
                 PROVE  [Data!Promised!Next]_(Data!Promised!ftVars)
        OBVIOUS
    <2>1. CASE Flows!Next
        BY <2>1, FlowsMap, SamePromises
    <2>2. CASE UNCHANGED dataVars
        <3>1. UNCHANGED <<requested, fileData, file, answers>>
            BY <2>2 DEF dataVars
        <3> QED BY <3>1 DEF Data!Promised!ftVars
    <2> QED BY <2>1, <2>2, SystemStepMaps
<1> QED BY <1>1, <1>2, SystemFlows, PTL DEF SystemSpec, Data!KeepsPromises, Data!Promised!Spec
===============================================================================
