------------------------------ MODULE RouteTable ------------------------------
(***************************************************************************)
(* The routing-table computation of one router (src/src/routing.cpp,       *)
(* recompute_routing_table): a Bellman-Ford step over the distance vectors *)
(* the router holds, in sixteen-bit unsigned arithmetic.                   *)
(*                                                                         *)
(* Costs are 0..INF where INF is the all-ones word (65535 in the code, a   *)
(* small 2^w - 1 in the model instances), so sums wrap modulo INF + 1.     *)
(***************************************************************************)
EXTENDS Naturals, FiniteSets

CONSTANTS
    Routers,   \* the router ids every INIT message lists
    INF,       \* the cost that stands for "no link" and "no route"
    Link,      \* Link[n][m]: the cost of m's entry in the INIT message of n
    Index      \* Index[n][m]: the position of m in n's vector rs.routers

Cost == 0 .. INF

ASSUME RoutersAssumption ==
    /\ Routers \subseteq Nat /\ IsFiniteSet(Routers)
    /\ Routers # {}

\* INF doubles as the "no next hop" id, so no router may carry it as its id.
ASSUME InfAssumption == INF \in Nat \ {0} /\ INF \notin Routers

\* The entry of a router for itself has cost 0, every link has two ends.
ASSUME LinkAssumption ==
    /\ Link \in [Routers -> [Routers -> Cost]]
    /\ \A n, m \in Routers : Link[n][m] = Link[m][n]
    /\ \A n \in Routers : Link[n][n] = 0

\* rs.routers has one entry for each router.
ASSUME IndexAssumption ==
    /\ Index \in [Routers -> [Routers -> Nat]]
    /\ \A n, l, m \in Routers : Index[n][l] = Index[n][m] => l = m
    /\ \A n \in Routers : {Index[n][m] : m \in Routers} = 0 .. Cardinality(Routers) - 1

\* The routers of type NEIGHBOUR in n's table: parse_init types an entry by
\* its cost, and nothing changes the type afterwards.
Neighbours(n) == {m \in Routers \ {n} : Link[n][m] < INF}

\* uint16_t addition.
WordSum(a, b) == (a + b) % (INF + 1)

\* Mutant of PathCost: a hop count is added, past the width of the word.
PathCostWithHop(v, n, m, d) == v[n][m] + v[m][d] + 1

\* v is what the router holds: v[m] is the last vector received from m, and
\* v[n], n's own vector, holds the costs of n's links.
PathCost(v, n, m, d) == WordSum(v[n][m], v[m][d])

\* Mutant of Candidates: the comparisons with INF are missing.
CandidatesUnguarded(v, n, d) == {m \in Neighbours(n) : PathCost(v, n, m, d) # INF}

\* The neighbours the inner loop can select: both terms finite, and the
\* sum strictly below the initial minimum INF.
Candidates(v, n, d) ==
    {m \in Neighbours(n) : /\ v[n][m] # INF
                           /\ v[m][d] # INF
                           /\ PathCost(v, n, m, d) # INF}

\* Mutant of Before: the comparison is not strict, so the latest is kept.
BeforeLatest(v, n, d, l, m) ==
    \/ PathCost(v, n, l, d) < PathCost(v, n, m, d)
    \/ /\ PathCost(v, n, l, d) = PathCost(v, n, m, d)
       /\ Index[n][l] > Index[n][m]

\* The strict comparison keeps the earliest of several equal minima.
Before(v, n, d, l, m) ==
    \/ PathCost(v, n, l, d) < PathCost(v, n, m, d)
    \/ /\ PathCost(v, n, l, d) = PathCost(v, n, m, d)
       /\ Index[n][l] < Index[n][m]

BestHop(v, n, d) ==
    CHOOSE l \in Candidates(v, n, d) :
        \A m \in Candidates(v, n, d) \ {l} : Before(v, n, d, l, m)

\* Mutant of NoRoute: the next hop is left at zero.
NoRouteZero == [cost |-> INF, hop |-> 0]

NoRoute == [cost |-> INF, hop |-> INF]

RouteTo(v, n, d) ==
    IF Candidates(v, n, d) = {}
    THEN NoRoute
    ELSE LET hop == BestHop(v, n, d) IN [cost |-> PathCost(v, n, hop, d), hop |-> hop]

\* The whole table of n. The entry of n itself is written once, by
\* parse_init, and skipped by every recomputation.
TableOf(v, n) ==
    [d \in Routers |-> IF d = n THEN [cost |-> 0, hop |-> n] ELSE RouteTo(v, n, d)]

\* The inner loop of recompute_routing_table, entry by entry: each neighbour
\* replaces the best one so far when std::min prefers its cost.
Scan(v, n, d, best, m) ==
    LET usable == m \in Neighbours(n) /\ v[n][m] # INF /\ v[m][d] # INF
        cost   == PathCost(v, n, m, d)
    IN  IF usable /\ cost < best.cost THEN [cost |-> cost, hop |-> m] ELSE best

Entry(n, i) == CHOOSE m \in Routers : Index[n][m] = i

\* best[i] is what the first i entries of rs.routers leave.
LoopRoute(v, n, d) ==
    LET best[i \in 0 .. Cardinality(Routers)] ==
            IF i = 0 THEN NoRoute ELSE Scan(v, n, d, best[i - 1], Entry(n, i - 1))
    IN  best[Cardinality(Routers)]

Route == [cost : Cost, hop : Routers \cup {INF}]

\* What parse_init leaves in n: zero on the diagonal, n's link costs in its
\* own row, INF elsewhere.
InitialVectors(n) ==
    [m \in Routers |-> [d \in Routers |->
        CASE m = n -> Link[n][d]
          [] m # n /\ m = d -> 0
          [] OTHER -> INF]]
===============================================================================
