-------------------------- MODULE MCDistanceVector --------------------------
(***************************************************************************)
(* Small networks for DistanceVector: the links of the instances, the true *)
(* shortest paths to compare tables with, and the properties that need     *)
(* them.                                                                   *)
(***************************************************************************)
EXTENDS DistanceVector, Sequences, SequencesExt, FiniteSetsExt, Functions

Position(n) == Cardinality({m \in Routers : m < n})

\* INIT lists the routers in the order of their ids.
IndexById == [n \in Routers |-> [m \in Routers |-> Position(m)]]

\* Links of cost c between the positions in E, as the INIT messages of the
\* routers give them.
LinksOf(E, c) ==
    [n \in Routers |-> [m \in Routers |->
        CASE n = m -> 0
          [] {Position(n), Position(m)} \in E -> c
          [] OTHER -> INF]]

LineLink == LinksOf({{0, 1}, {1, 2}}, 1)

\* A line whose first link costs 2, so that UPDATE can make it cheaper.
MixedLineLink ==
    [n \in Routers |-> [m \in Routers |->
        IF n # m /\ {Position(n), Position(m)} = {0, 1} THEN 2 ELSE LineLink[n][m]]]

\* The same line with links of cost 2: an even cost reaches 8 = INF + 1.
HeavyLineLink == LinksOf({{0, 1}, {1, 2}}, 2)

OneInFlight == [n \in Routers |-> 1]

\* Datagrams of the first router can overtake each other.
TwoFromFirst == [n \in Routers |-> IF Position(n) = 0 THEN 2 ELSE 1]

Paths(alive, n, d) ==
    {p \in UNION {[1 .. k -> alive] : k \in 1 .. Cardinality(alive)} :
        p[1] = n /\ p[Len(p)] = d}

PathLength(p) == FoldFunction(+, 0, [i \in 1 .. Len(p) - 1 |-> Link[p[i]][p[i + 1]]])

\* By enumeration of the paths, nothing of the router's own algorithm.
CheapestPaths ==
    [alive \in SUBSET Routers |-> [n \in Routers |-> [d \in Routers |->
        IF n = d THEN 0
        ELSE Min({INF} \cup {PathLength(p) : p \in Paths(alive, n, d)})]]]

\* A destination that has crashed is at distance INF.
Converged ==
    LET dist == Shortest[Running]
    IN  \A n \in Running, d \in Routers :
            /\ table[n][d].cost = dist[n][d]
            /\ n # d /\ dist[n][d] # INF =>
                   /\ table[n][d].hop \in Running
                   /\ dist[table[n][d].hop][d] < dist[n][d]

\* Once crashes stop, every table settles on the shortest paths among the
\* survivors, following next hops leads closer at every step, and the routes to
\* the crashed are gone: counting towards INF ends, and ends at INF.
Converges == <>[]Converged

\* Every table is what its own links and the tables of the others make it.
Settled ==
    \A n, d \in Running :
        n # d => table[n][d].cost =
                     Min({INF} \cup {vectors[n][n][m] + table[m][d].cost :
                                        m \in Neighbours(n) \cap Running})

\* Once the controller has told one end of a link of a cost, lower, higher or INF,
\* the routers settle on tables that agree with what each holds of its own links
\* and with each other, although the other end knows nothing of it.
SettlesAfterUpdate == <>[]Settled

=============================================================================
