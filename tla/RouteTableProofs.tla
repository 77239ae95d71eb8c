--------------------------- MODULE RouteTableProofs ---------------------------
(***************************************************************************)
(* Facts about the operators of RouteTable, for every network.             *)
(***************************************************************************)
EXTENDS RouteTable, TLAPS, WellFoundedInduction, FiniteSetTheorems

\* What a router holds: a vector for each router.
Vectors == [Routers -> [Routers -> Cost]]

\* A non-empty set of naturals has a least element.
LEMMA NatMinimum ==
    ASSUME NEW S, S \subseteq Nat, S # {}
    PROVE  \E x \in S : \A y \in S : x <= y
<1>1. IsWellFoundedOn(OpToRel(<, Nat), Nat)
    BY NatLessThanWellFounded
<1>2. PICK x \in S : \A y \in S : ~(<<y, x>> \in OpToRel(<, Nat))
    BY <1>1, WFMin
<1>3. \A y \in S : ~(y < x)
    <2> SUFFICES ASSUME NEW y \in S, y < x
                 PROVE  FALSE
        OBVIOUS
    <2>1. y \in Nat /\ x \in Nat
        OBVIOUS
    <2>2. <<y, x>> \in OpToRel(<, Nat)
        BY <2>1, Zenon DEF OpToRel
    <2> QED BY <2>2, <1>2
<1>4. \A y \in S : y \in Nat /\ x \in Nat
    OBVIOUS
<1>5. \A y \in S : x <= y
    BY <1>3, <1>4
<1> QED BY <1>5

\* Of a non-empty set of elements with a rank and distinct tie-breakers, one
\* comes before all others.
LEMMA RankedMinimum ==
    ASSUME NEW C, C # {}, NEW rank \in [C -> Nat], NEW place \in [C -> Nat],
           \A l, m \in C : place[l] = place[m] => l = m
    PROVE  \E l \in C : \A m \in C \ {l} :
               rank[l] < rank[m] \/ (rank[l] = rank[m] /\ place[l] < place[m])
<1> DEFINE Ranks == {rank[l] : l \in C}
<1>1. PICK r \in Ranks : \A s \in Ranks : r <= s
    <2>1. Ranks \subseteq Nat /\ Ranks # {}
        OBVIOUS
    <2> QED BY <2>1, NatMinimum
<1> DEFINE Places == {place[l] : l \in {m \in C : rank[m] = r}}
<1>2. PICK p \in Places : \A q \in Places : p <= q
    <2>1. Places \subseteq Nat /\ Places # {}
        OBVIOUS
    <2> QED BY <2>1, NatMinimum
<1>3. PICK l \in C : rank[l] = r /\ place[l] = p
    OBVIOUS
<1>4. ASSUME NEW m \in C \ {l}
      PROVE  rank[l] < rank[m] \/ (rank[l] = rank[m] /\ place[l] < place[m])
    <2>1. rank[l] <= rank[m] /\ rank[l] \in Nat /\ rank[m] \in Nat
        BY <1>1, <1>3
    <2>2. place[l] # place[m] /\ place[l] \in Nat /\ place[m] \in Nat
        BY <1>3
    <2>3. rank[m] = rank[l] => place[l] <= place[m]
        BY <1>2, <1>3
    <2> QED BY <2>1, <2>2, <2>3
<1> QED BY <1>4

\* A sum stays within the word, and is the sum of the integers when it fits.
LEMMA WordSumFacts ==
    ASSUME NEW a \in Cost, NEW b \in Cost
    PROVE  /\ WordSum(a, b) \in Cost
           /\ a + b <= INF => WordSum(a, b) = a + b
BY InfAssumption DEF Cost, WordSum

\* A destination that some neighbour offers has a best neighbour.
LEMMA BestHopExists ==
    ASSUME NEW v \in Vectors, NEW n \in Routers, NEW d \in Routers,
           Candidates(v, n, d) # {}
    PROVE  /\ BestHop(v, n, d) \in Candidates(v, n, d)
           /\ \A m \in Candidates(v, n, d) \ {BestHop(v, n, d)} :
                 Before(v, n, d, BestHop(v, n, d), m)
<1> DEFINE C == Candidates(v, n, d)
           rank == [m \in C |-> PathCost(v, n, m, d)]
           place == [m \in C |-> Index[n][m]]
<1>1. C \subseteq Routers
    BY DEF Candidates, Neighbours
<1>2. \A m \in C : PathCost(v, n, m, d) \in Nat
    <2> SUFFICES ASSUME NEW m \in C PROVE PathCost(v, n, m, d) \in Nat
        OBVIOUS
    <2>1. v[n][m] \in Cost /\ v[m][d] \in Cost
        BY <1>1 DEF Vectors
    <2>2. PathCost(v, n, m, d) \in Cost
        BY <2>1, WordSumFacts DEF PathCost
    <2> QED BY <2>2, InfAssumption DEF Cost
<1>3. \A m \in C : Index[n][m] \in Nat
    BY <1>1, IndexAssumption
<1>4. \A l, m \in C : place[l] = place[m] => l = m
    BY <1>1, IndexAssumption
<1>5. \E l \in C : \A m \in C \ {l} :
          rank[l] < rank[m] \/ (rank[l] = rank[m] /\ place[l] < place[m])
    <2>1. rank \in [C -> Nat] /\ place \in [C -> Nat]
        BY <1>2, <1>3
    <2> HIDE DEF C, rank, place
    <2>2. C # {}
        BY DEF C
    <2> QED BY <2>1, <2>2, <1>4, RankedMinimum
<1>6. \E l \in C : \A m \in C \ {l} : Before(v, n, d, l, m)
    BY <1>5 DEF Before
<1> QED BY <1>6 DEF BestHop

\* What a recomputation enters for a destination: no route, or the sum of two
\* finite costs over a neighbour.
LEMMA RouteFacts ==
    ASSUME NEW v \in Vectors, NEW n \in Routers, NEW d \in Routers
    PROVE  LET r == RouteTo(v, n, d)
           IN  /\ r \in Route
               /\ \/ r.cost = INF /\ r.hop = INF
                  \/ /\ r.hop \in Neighbours(n)
                     /\ r.cost # INF
                     /\ v[n][r.hop] # INF
                     /\ v[r.hop][d] # INF
                     /\ r.cost = WordSum(v[n][r.hop], v[r.hop][d])
<1>1. CASE Candidates(v, n, d) = {}
    <2>1. RouteTo(v, n, d) = [cost |-> INF, hop |-> INF]
        BY <1>1 DEF RouteTo, NoRoute
    <2> QED BY <2>1, InfAssumption DEF Route, Cost
<1>2. CASE Candidates(v, n, d) # {}
    <2> DEFINE h == BestHop(v, n, d)
    <2>1. RouteTo(v, n, d) = [cost |-> PathCost(v, n, h, d), hop |-> h]
        BY <1>2 DEF RouteTo
    <2>2. h \in Candidates(v, n, d)
        BY <1>2, BestHopExists
    <2>3. h \in Routers /\ h \in Neighbours(n) /\ v[n][h] # INF /\ v[h][d] # INF
          /\ PathCost(v, n, h, d) # INF
        BY <2>2 DEF Candidates, Neighbours
    <2>4. PathCost(v, n, h, d) \in Cost
        <3>1. v[n][h] \in Cost /\ v[h][d] \in Cost
            BY <2>3 DEF Vectors
        <3> QED BY <3>1, WordSumFacts DEF PathCost
    <2> HIDE DEF h
    <2> QED BY <2>1, <2>3, <2>4 DEF Route, PathCost
<1> QED BY <1>1, <1>2

\* Every entry of a recomputed table is a route.
LEMMA TableType ==
    ASSUME NEW v \in Vectors, NEW n \in Routers
    PROVE  TableOf(v, n) \in [Routers -> Route]
<1>1. [cost |-> 0, hop |-> n] \in Route
    BY InfAssumption DEF Route, Cost
<1>2. \A d \in Routers : RouteTo(v, n, d) \in Route
    BY RouteFacts
<1> QED BY <1>1, <1>2 DEF TableOf

\* parse_init fills every row.
LEMMA InitialVectorsType ==
    ASSUME NEW n \in Routers
    PROVE  InitialVectors(n) \in Vectors
<1>1. \A m \in Routers : Link[n][m] \in Cost
    BY LinkAssumption
<1>2. 0 \in Cost /\ INF \in Cost
    BY InfAssumption DEF Cost
<1> QED BY <1>1, <1>2 DEF InitialVectors, Vectors

-------------------------------------------------------------------------------
(***************************************************************************)
(* The loop of the code against the declarative table. The loop is a       *)
(* recursive function; that it exists and what it finds is shown by the    *)
(* least position at which it would not.                                   *)
(***************************************************************************)

\* Where one step gives the next, there is a run of n steps.
LEMMA LoopExists ==
    ASSUME NEW v, NEW n, NEW d, NEW N \in Nat
    PROVE  \E best : best = [i \in 0 .. N |->
               IF i = 0 THEN NoRoute ELSE Scan(v, n, d, best[i - 1], Entry(n, i - 1))]
<1> DEFINE IsRun(k, b) == b = [i \in 0 .. k |->
               IF i = 0 THEN NoRoute ELSE Scan(v, n, d, b[i - 1], Entry(n, i - 1))]
           Short == {k \in Nat : ~\E b : IsRun(k, b)}
<1>1. SUFFICES ASSUME Short # {}
               PROVE  FALSE
    OBVIOUS
<1>2. PICK k \in Short : \A j \in Short : k <= j
    <2>1. Short \subseteq Nat
        OBVIOUS
    <2> HIDE DEF Short
    <2> QED BY <1>1, <2>1, NatMinimum
<1>3. k \in Nat /\ ~\E b : IsRun(k, b)
    OBVIOUS
<1>4. CASE k = 0
    <2> DEFINE b == [i \in 0 .. 0 |-> NoRoute]
    <2>1. b = [i \in 0 .. 0 |->
               IF i = 0 THEN NoRoute ELSE Scan(v, n, d, b[i - 1], Entry(n, i - 1))]
        OBVIOUS
    <2> QED BY <1>3, <1>4, <2>1
<1>5. CASE k # 0
    <2>1. k - 1 \in Nat /\ k - 1 \notin Short
        <3>1. k - 1 \in Nat /\ ~(k <= k - 1)
            BY <1>3, <1>5
        <3> HIDE DEF Short
        <3> QED BY <1>2, <3>1
    <2>2. PICK b : IsRun(k - 1, b)
        BY <2>1
    <2> DEFINE c == [i \in 0 .. k |->
                        IF i = k THEN Scan(v, n, d, b[k - 1], Entry(n, k - 1)) ELSE b[i]]
    <2>3. \A i \in 0 .. k - 1 : b[i] =
              IF i = 0 THEN NoRoute ELSE Scan(v, n, d, b[i - 1], Entry(n, i - 1))
        BY <2>2
    <2>4. \A i \in 0 .. k : c[i] =
              IF i = 0 THEN NoRoute ELSE Scan(v, n, d, c[i - 1], Entry(n, i - 1))
        <3> SUFFICES ASSUME NEW i \in 0 .. k
                     PROVE  c[i] = IF i = 0 THEN NoRoute
                                   ELSE Scan(v, n, d, c[i - 1], Entry(n, i - 1))
            OBVIOUS
        <3>1. CASE i = k
            <4>1. c[i - 1] = b[k - 1] /\ i # 0
                BY <1>3, <1>5, <3>1
            <4> QED BY <3>1, <4>1
        <3>2. CASE i # k /\ i = 0
            BY <2>3, <3>2, <1>3
        <3>3. CASE i # k /\ i # 0
            <4>1. i \in 0 .. k - 1 /\ i - 1 \in 0 .. k /\ i - 1 # k
                BY <1>3, <3>3
            <4>2. c[i] = b[i] /\ c[i - 1] = b[i - 1]
                BY <3>3, <4>1
            <4> QED BY <2>3, <3>3, <4>1, <4>2
        <3> QED BY <3>1, <3>2, <3>3
    <2>5. c = [i \in 0 .. k |-> c[i]]
        OBVIOUS
    <2> HIDE DEF c
    <2>6. IsRun(k, c)
        BY <2>4, <2>5
    <2> QED BY <1>3, <2>6
<1> QED BY <1>4, <1>5

\* What the loop has found among the entries before position i.
Found(v, n, d, i, best) ==
    LET C == {m \in Candidates(v, n, d) : Index[n][m] < i}
    IN  \/ C = {} /\ best = NoRoute
        \/ \E h \in C :
              /\ best = [cost |-> PathCost(v, n, h, d), hop |-> h]
              /\ \A m \in C \ {h} : Before(v, n, d, h, m)

\* One more entry is compared with the best before it: a strictly smaller cost
\* replaces it, an equal one does not.
LEMMA ScanFinds ==
    ASSUME NEW v \in Vectors, NEW n \in Routers, NEW d \in Routers, NEW i \in Nat, NEW best,
           NEW e \in Routers, Index[n][e] = i, Found(v, n, d, i, best)
    PROVE  Found(v, n, d, i + 1, Scan(v, n, d, best, e))
<1> DEFINE C == {m \in Candidates(v, n, d) : Index[n][m] < i}
           D == {m \in Candidates(v, n, d) : Index[n][m] < i + 1}
           cost == PathCost(v, n, e, d)
<1>1. /\ \A m \in Routers : Index[n][m] \in Nat
      /\ \A m \in Routers : Index[n][m] = i => m = e
    BY IndexAssumption
<1>2. Candidates(v, n, d) \subseteq Routers
    BY DEF Candidates, Neighbours
<1>3. D = IF e \in Candidates(v, n, d) THEN C \cup {e} ELSE C
    BY <1>1, <1>2
<1>4. \A m \in Routers : PathCost(v, n, m, d) \in Cost
    <2> SUFFICES ASSUME NEW m \in Routers PROVE PathCost(v, n, m, d) \in Cost
        OBVIOUS
    <2>1. v[n][m] \in Cost /\ v[m][d] \in Cost
        BY DEF Vectors
    <2> QED BY <2>1, WordSumFacts DEF PathCost
<1>5. e \in Candidates(v, n, d) <=>
          e \in Neighbours(n) /\ v[n][e] # INF /\ v[e][d] # INF /\ cost # INF
    BY DEF Candidates
<1>6. cost \in Nat /\ INF \in Nat /\ cost <= INF
    BY <1>4, InfAssumption DEF Cost
<1>7. CASE e \notin Candidates(v, n, d)
    <2>1. best.cost <= INF /\ best.cost \in Nat
        BY <1>2, <1>4, InfAssumption DEF Found, NoRoute, Cost
    <2>2. Scan(v, n, d, best, e) = best
        BY <1>5, <1>6, <1>7, <2>1 DEF Scan
    <2>3. D = C
        BY <1>3, <1>7
    <2> HIDE DEF cost
    <2> QED BY <2>2, <2>3 DEF Found
<1>8. CASE e \in Candidates(v, n, d)
    <2>0. D = C \cup {e} /\ e \notin C
        BY <1>3, <1>8
    <2>1. Scan(v, n, d, best, e) = IF cost < best.cost THEN [cost |-> cost, hop |-> e] ELSE best
        BY <1>5, <1>8 DEF Scan
    <2>2. CASE C = {} /\ best = NoRoute
        <3>1. Scan(v, n, d, best, e) = [cost |-> cost, hop |-> e]
            BY <1>5, <1>6, <1>8, <2>1, <2>2 DEF NoRoute
        <3>2. D = {e}
            BY <2>0, <2>2
        <3> QED BY <3>1, <3>2 DEF Found
    <2>3. ASSUME NEW h \in C, best = [cost |-> PathCost(v, n, h, d), hop |-> h],
                 \A m \in C \ {h} : Before(v, n, d, h, m)
          PROVE  Found(v, n, d, i + 1, Scan(v, n, d, best, e))
        <3>1. h \in Routers /\ PathCost(v, n, h, d) \in Nat /\ Index[n][h] \in Nat /\ Index[n][h] < i
            BY <1>1, <1>2, <1>4, InfAssumption DEF Cost
        <3>2. CASE cost < PathCost(v, n, h, d)
            <4>1. Scan(v, n, d, best, e) = [cost |-> cost, hop |-> e]
                BY <2>1, <2>3, <3>2
            <4>2. \A m \in C : Before(v, n, d, e, m)
                <5> SUFFICES ASSUME NEW m \in C PROVE cost < PathCost(v, n, m, d)
                    BY DEF Before
                <5>1. m \in Routers /\ PathCost(v, n, m, d) \in Nat
                    BY <1>2, <1>4, InfAssumption DEF Cost
                <5>2. PathCost(v, n, h, d) <= PathCost(v, n, m, d)
                    BY <2>3, <3>1, <5>1 DEF Before
                <5> HIDE DEF cost
                <5> QED BY <1>6, <3>1, <3>2, <5>1, <5>2
            <4>3. e \in D /\ \A m \in D \ {e} : Before(v, n, d, e, m)
                BY <2>0, <4>2
            <4> QED BY <4>1, <4>3 DEF Found
        <3>3. CASE ~(cost < PathCost(v, n, h, d))
            <4>1. Scan(v, n, d, best, e) = best
                BY <2>1, <2>3, <3>3
            <4>2. Before(v, n, d, h, e)
                BY <1>6, <3>1, <3>3 DEF Before
            <4>3. h \in D /\ \A m \in D \ {h} : Before(v, n, d, h, m)
                BY <2>0, <2>3, <4>2
            <4> QED BY <2>3, <4>1, <4>3 DEF Found
        <3> QED BY <3>2, <3>3
    <2> QED BY <2>2, <2>3 DEF Found
<1> QED BY <1>7, <1>8

\* Over all entries the loop finds the declarative route.
LEMMA FoundIsRoute ==
    ASSUME NEW v \in Vectors, NEW n \in Routers, NEW d \in Routers, NEW best,
           Found(v, n, d, Cardinality(Routers), best)
    PROVE  best = RouteTo(v, n, d)
<1>1. \A m \in Candidates(v, n, d) : m \in Routers /\ Index[n][m] < Cardinality(Routers)
    <2>1. Candidates(v, n, d) \subseteq Routers
        BY DEF Candidates, Neighbours
    <2>2. Cardinality(Routers) \in Nat
        BY RoutersAssumption, FS_CardinalityType
    <2>3. \A m \in Routers : Index[n][m] \in 0 .. Cardinality(Routers) - 1
        BY IndexAssumption
    <2> QED BY <2>1, <2>2, <2>3
<1>2. {m \in Candidates(v, n, d) : Index[n][m] < Cardinality(Routers)} = Candidates(v, n, d)
    BY <1>1
<1>3. CASE Candidates(v, n, d) = {}
    BY <1>2, <1>3 DEF Found, RouteTo
<1>4. ASSUME NEW h \in Candidates(v, n, d),
             best = [cost |-> PathCost(v, n, h, d), hop |-> h],
             \A m \in Candidates(v, n, d) \ {h} : Before(v, n, d, h, m)
      PROVE  best = RouteTo(v, n, d)
    <2>1. /\ BestHop(v, n, d) \in Candidates(v, n, d)
          /\ \A m \in Candidates(v, n, d) \ {BestHop(v, n, d)} : Before(v, n, d, BestHop(v, n, d), m)
        BY <1>4, BestHopExists
    <2>2. BestHop(v, n, d) = h
        <3> SUFFICES ASSUME BestHop(v, n, d) # h PROVE FALSE
            OBVIOUS
        <3>1. PICK b : b = BestHop(v, n, d)
            OBVIOUS
        <3>2. Before(v, n, d, h, b) /\ Before(v, n, d, b, h)
            BY <1>4, <2>1, <3>1
        <3>3. /\ PathCost(v, n, h, d) \in Nat /\ PathCost(v, n, b, d) \in Nat
              /\ Index[n][h] \in Nat /\ Index[n][b] \in Nat
            <4> SUFFICES ASSUME NEW m \in Candidates(v, n, d)
                         PROVE  PathCost(v, n, m, d) \in Nat /\ Index[n][m] \in Nat
                BY <1>4, <2>1, <3>1
            <4>1. m \in Routers
                BY <1>1
            <4>2. v[n][m] \in Cost /\ v[m][d] \in Cost
                BY <4>1 DEF Vectors
            <4>3. PathCost(v, n, m, d) \in Cost
                BY <4>2, WordSumFacts DEF PathCost
            <4> QED BY <4>1, <4>3, InfAssumption, IndexAssumption DEF Cost
        <3> QED BY <3>2, <3>3 DEF Before
    <2> QED BY <1>4, <2>2 DEF RouteTo
<1> QED BY <1>2, <1>3, <1>4 DEF Found

\* The loop of recompute_routing_table computes the declarative route, ties and
\* wrapped sums included.
LEMMA LoopIsRoute ==
    ASSUME NEW v \in Vectors, NEW n \in Routers, NEW d \in Routers
    PROVE  LoopRoute(v, n, d) = RouteTo(v, n, d)
<1>1. PICK N \in Nat : N = Cardinality(Routers)
    BY RoutersAssumption, FS_CardinalityType
<1> DEFINE run == CHOOSE best : best = [i \in 0 .. N |->
               IF i = 0 THEN NoRoute ELSE Scan(v, n, d, best[i - 1], Entry(n, i - 1))]
<1>2. run = [i \in 0 .. N |->
          IF i = 0 THEN NoRoute ELSE Scan(v, n, d, run[i - 1], Entry(n, i - 1))]
    BY LoopExists
<1>3. LoopRoute(v, n, d) = run[N]
    BY <1>1 DEF LoopRoute
<1> HIDE DEF run
<1>4. \A i \in 0 .. N : run[i] =
          IF i = 0 THEN NoRoute ELSE Scan(v, n, d, run[i - 1], Entry(n, i - 1))
    BY <1>2
<1> DEFINE Missed == {i \in 0 .. N : ~Found(v, n, d, i, run[i])}
<1>5. Missed = {}
    <2> SUFFICES ASSUME Missed # {} PROVE FALSE
        OBVIOUS
    <2>1. PICK k \in Missed : \A j \in Missed : k <= j
        <3>1. Missed \subseteq Nat
            OBVIOUS
        <3> HIDE DEF Missed
        <3> QED BY <3>1, NatMinimum
    <2>2. k \in 0 .. N /\ ~Found(v, n, d, k, run[k])
        OBVIOUS
    <2>3. CASE k = 0
        <3>1. run[k] = NoRoute
            BY <1>4, <2>2, <2>3
        <3>2. \A m \in Candidates(v, n, d) : ~(Index[n][m] < 0)
            BY IndexAssumption DEF Candidates, Neighbours
        <3>3. Found(v, n, d, 0, NoRoute)
            BY <3>2 DEF Found
        <3> QED BY <2>2, <2>3, <3>1, <3>3
    <2>4. CASE k # 0
        <3>1. k - 1 \in 0 .. N /\ k - 1 \in Nat /\ ~(k <= k - 1) /\ k - 1 + 1 = k
            BY <2>2, <2>4
        <3>2. k - 1 \notin Missed
            <4> HIDE DEF Missed
            <4> QED BY <2>1, <3>1
        <3>3. Found(v, n, d, k - 1, run[k - 1])
            BY <3>1, <3>2
        <3>4. PICK e \in Routers : Index[n][e] = k - 1 /\ e = Entry(n, k - 1)
            <4>1. k - 1 \in 0 .. Cardinality(Routers) - 1
                BY <1>1, <2>2, <3>1
            <4>2. k - 1 \in {Index[n][m] : m \in Routers}
                BY <4>1, IndexAssumption
            <4> QED BY <4>2 DEF Entry
        <3>5. Found(v, n, d, k - 1 + 1, Scan(v, n, d, run[k - 1], e))
            BY <3>1, <3>3, <3>4, ScanFinds
        <3>6. run[k] = Scan(v, n, d, run[k - 1], e)
            BY <1>4, <2>2, <2>4, <3>4
        <3> QED BY <2>2, <3>1, <3>5, <3>6
    <2> QED BY <2>3, <2>4
<1>6. Found(v, n, d, N, run[N])
    BY <1>5
<1> QED BY <1>1, <1>3, <1>6, FoundIsRoute

===============================================================================
