---------------------------- MODULE EventLoopProofs ----------------------------
(***************************************************************************)
(* Safety of the event loop for any number of controllers, connections and *)
(* neighbours. The induction carries what the table of descriptors names:  *)
(* no two numbers name the same thing, so that by counting a number is     *)
(* always left, and the one given out next is not in use.                  *)
(***************************************************************************)
EXTENDS EventLoop, TLAPS, FiniteSetTheorems, SequenceTheorems, WellFoundedInduction

\* A listening or UDP socket, which each exist once.
Single(kind) == [kind |-> kind, who |-> 0]

OfController(c) == [kind |-> "controller", who |-> c]

OfRouter(c) == [kind |-> "inbound", who |-> c]

Listeners == {Single("control"), Single("router"), Single("data")}

Accepted == {OfController(c) : c \in ControlConns} \cup {OfRouter(c) : c \in DataConns}

Outgoing == {Outbound(m) : m \in Neighbours}

\* Whatever an open number can stand for.
Names == Listeners \cup Accepted \cup Outgoing

Named(tab) == tab \in [Fd -> Names \cup {Free}]

\* No two numbers stand for the same thing.
Distinct(tab) == \A f, g \in Fd : tab[f] = tab[g] /\ tab[f] # Free => f = g

\* An accepted connection is open for the one who opened it.
LiveConns == \A f \in Fd : table[f].kind \in {"controller", "inbound"} => life[table[f].who] = "open"

\* INIT opens both sockets or none.
InitOpensBoth == (\E f \in Fd : table[f] = Single("router")) => Initialised

\* A connection to a neighbour is the one its entry names.
HopKnown == \A f \in Fd, m \in Neighbours : table[f] = Outbound(m) => hop[m] = f

\* What the numbers in the table stand for.
Numbers ==
    /\ TypeOK
    /\ Named(table)
    /\ Distinct(table)
    /\ LiveConns
    /\ InitOpensBoth
    /\ HopKnown
    /\ Triage

-------------------------------------------------------------------------------
(***************************************************************************)
(* Counting.                                                               *)
(***************************************************************************)

\* A non-empty set of numbers has a lowest one.
LEMMA MinFact ==
    ASSUME NEW S, S \subseteq Nat, S # {}
    PROVE  Min(S) \in S /\ \A y \in S : Min(S) <= y
<1>1. IsWellFoundedOn(OpToRel(<, Nat), Nat)
    BY NatLessThanWellFounded
<1>2. PICK x \in S : \A y \in S : ~(<<y, x>> \in OpToRel(<, Nat))
    BY <1>1, WFMin
<1>3. \A y \in S : ~(y < x)
    <2> SUFFICES ASSUME NEW y \in S, y < x
                 PROVE  FALSE
        OBVIOUS
    <2>1. <<y, x>> \in OpToRel(<, Nat)
        BY Zenon DEF OpToRel
    <2> QED BY <2>1, <1>2
<1>4. \A y \in S : x <= y
    BY <1>3
<1> QED BY <1>4, Zenon DEF Min

\* There are not more things to name than numbers.
LEMMA NamesCount == IsFiniteSet(Names) /\ Cardinality(Names) <= LastFd
<1> DEFINE who == [x \in Accepted |-> x.who]
           nbr == [x \in Outgoing |-> x.who]
<1>1. IsFiniteSet(Listeners) /\ Cardinality(Listeners) <= 3 /\ Cardinality(Listeners) \in Nat
    <2>1. IsFiniteSet({Single("control")}) /\ Cardinality({Single("control")}) = 1
        BY FS_Singleton
    <2>2. /\ IsFiniteSet({Single("control")} \cup {Single("router")})
          /\ Cardinality({Single("control")} \cup {Single("router")}) \in 1 .. 2
        BY <2>1, FS_AddElement
    <2>3. /\ IsFiniteSet(({Single("control")} \cup {Single("router")}) \cup {Single("data")})
          /\ Cardinality(({Single("control")} \cup {Single("router")}) \cup {Single("data")}) \in 1 .. 3
        BY <2>2, FS_AddElement
    <2>4. Listeners = ({Single("control")} \cup {Single("router")}) \cup {Single("data")}
        BY DEF Listeners
    <2> QED BY <2>3, <2>4
<1>2. /\ IsFiniteSet(Accepted)
      /\ Cardinality(Accepted) \in Nat
      /\ Cardinality(Accepted) <= Cardinality(Conns)
    <2>1. who \in Injection(Accepted, Conns)
        <3>1. who \in [Accepted -> Conns]
            BY DEF Accepted, OfController, OfRouter, Conns
        <3>2. \A x, y \in Accepted : who[x] = who[y] => x = y
            BY NamesAssumption DEF Accepted, OfController, OfRouter
        <3> HIDE DEF who
        <3> QED BY <3>1, <3>2 DEF Injection, IsInjective
    <2> HIDE DEF who
    <2> QED BY <2>1, NamesAssumption, FS_Injection, FS_CardinalityType
<1>3. /\ IsFiniteSet(Outgoing)
      /\ Cardinality(Outgoing) \in Nat
      /\ Cardinality(Outgoing) <= Cardinality(Neighbours)
    <2>1. nbr \in Injection(Outgoing, Neighbours)
        <3>1. nbr \in [Outgoing -> Neighbours]
            BY DEF Outgoing, Outbound
        <3>2. \A x, y \in Outgoing : nbr[x] = nbr[y] => x = y
            BY DEF Outgoing, Outbound
        <3> HIDE DEF nbr
        <3> QED BY <3>1, <3>2 DEF Injection, IsInjective
    <2> HIDE DEF nbr
    <2> QED BY <2>1, NamesAssumption, FS_Injection, FS_CardinalityType
<1>4. /\ IsFiniteSet(Listeners \cup Accepted)
      /\ Cardinality(Listeners \cup Accepted) <= 3 + Cardinality(Conns)
      /\ Cardinality(Listeners \cup Accepted) \in Nat
    <2>1. Cardinality(Listeners \cap Accepted) \in Nat
        BY <1>1, FS_Intersection, FS_CardinalityType
    <2>2. /\ IsFiniteSet(Listeners \cup Accepted)
          /\ Cardinality(Listeners \cup Accepted) =
                Cardinality(Listeners) + Cardinality(Accepted) - Cardinality(Listeners \cap Accepted)
        BY <1>1, <1>2, FS_Union
    <2>3. Cardinality(Conns) \in Nat /\ Cardinality(Listeners \cup Accepted) \in Nat
        BY <2>2, NamesAssumption, FS_CardinalityType
    <2> QED BY <1>1, <1>2, <2>1, <2>2, <2>3
<1>5. /\ IsFiniteSet(Names)
      /\ Cardinality(Names) <= 3 + Cardinality(Conns) + Cardinality(Neighbours)
    <2> DEFINE A == Listeners \cup Accepted
    <2>1. Names = A \cup Outgoing
        BY DEF Names
    <2> HIDE DEF A
    <2>2. Cardinality(A \cap Outgoing) \in Nat
        BY <1>3, FS_Intersection, FS_CardinalityType
    <2>3. /\ IsFiniteSet(A \cup Outgoing)
          /\ Cardinality(A \cup Outgoing) =
                Cardinality(A) + Cardinality(Outgoing) - Cardinality(A \cap Outgoing)
        BY <1>3, <1>4, FS_Union DEF A
    <2>4. Cardinality(Conns) \in Nat /\ Cardinality(Neighbours) \in Nat
        BY NamesAssumption, FS_CardinalityType
    <2>5. Cardinality(A) \in Nat /\ Cardinality(A) <= 3 + Cardinality(Conns)
        BY <1>4 DEF A
    <2> QED BY <1>3, <2>1, <2>2, <2>3, <2>4, <2>5
<1>6. Cardinality(Conns) \in Nat /\ Cardinality(Neighbours) \in Nat /\ Cardinality(Names) \in Nat
    BY <1>5, NamesAssumption, FS_CardinalityType
<1> QED BY <1>5, <1>6, FdsAssumption DEF Conns

\* If every number stood for something else, every name would be taken.
LEMMA AllTaken ==
    ASSUME NEW g \in [Fd -> Names], \A f, h \in Fd : g[f] = g[h] => f = h,
           NEW e \in Names
    PROVE  \E f \in Fd : g[f] = e
<1> SUFFICES ASSUME \A f \in Fd : g[f] # e
             PROVE  FALSE
    OBVIOUS
<1>1. IsFiniteSet(Fd) /\ Cardinality(Fd) = LastFd
    <2>1. 1 \in Int /\ LastFd \in Int /\ LastFd >= 0
        BY FdsAssumption
    <2> QED BY <2>1, FS_Interval DEF Fd
<1>2. IsFiniteSet(Names \ {e}) /\ Cardinality(Names \ {e}) = Cardinality(Names) - 1
    BY NamesCount, FS_RemoveElement
<1>3. Cardinality(Names) \in Nat
    BY NamesCount, FS_CardinalityType
<1>4. g \in [Fd -> Names \ {e}]
    OBVIOUS
<1>5. Cardinality(Names \ {e}) < Cardinality(Fd)
    BY <1>1, <1>2, <1>3, NamesCount, FdsAssumption
<1> QED BY <1>1, <1>2, <1>4, <1>5, FS_PigeonHole

\* While something has no number, a number is left to give it.
LEMMA NumberLeft ==
    ASSUME NEW tab, Named(tab), Distinct(tab),
           NEW e \in Names, \A f \in Fd : tab[f] # e
    PROVE  Lowest(tab) \in Fd /\ tab[Lowest(tab)] = Free
<1>1. PICK f \in Fd : tab[f] = Free
    <2> SUFFICES ASSUME \A f \in Fd : tab[f] # Free
                 PROVE  FALSE
        OBVIOUS
    <2>1. tab \in [Fd -> Names] /\ \A f, h \in Fd : tab[f] = tab[h] => f = h
        BY DEF Named, Distinct
    <2> QED BY <2>1, AllTaken
<1>2. Unused(tab) \subseteq Nat /\ Unused(tab) # {}
    BY <1>1, FdsAssumption DEF Unused, Fd, Free
<1>3. Lowest(tab) \in Unused(tab)
    BY <1>2, MinFact DEF Lowest
<1>4. \A x \in Names : x.kind # "free"
    BY DEF Names, Listeners, Accepted, Outgoing, Single, OfController, OfRouter, Outbound
<1> QED BY <1>3, <1>4 DEF Unused, Named

-------------------------------------------------------------------------------
(***************************************************************************)
(* The table of descriptors.                                               *)
(***************************************************************************)

\* What the kind of an entry says of the rest of it.
LEMMA Shapes ==
    ASSUME NEW x \in Names \cup {Free}
    PROVE  /\ x \in [kind : Kinds, who : Neighbours \cup Conns \cup {0}]
           /\ x.kind = "free" <=> x = Free
           /\ x.kind \in {"control", "router", "data"} => x = Single(x.kind)
           /\ x.kind = "controller" => x.who \in ControlConns /\ x = OfController(x.who)
           /\ x.kind = "inbound" => x.who \in DataConns /\ x = OfRouter(x.who)
           /\ x.kind = "outbound" => x.who \in Neighbours /\ x = Outbound(x.who)
BY DEF Names, Listeners, Accepted, Outgoing, Single, OfController, OfRouter, Outbound, Free,
       Kinds, Conns

\* A name that had no number gets one that was not in use.
LEMMA Opened ==
    ASSUME NEW tab, Named(tab), Distinct(tab),
           NEW e \in Names, \A f \in Fd : tab[f] # e
    PROVE  LET new == [tab EXCEPT ![Lowest(tab)] = e]
           IN  /\ Lowest(tab) \in Fd
               /\ tab[Lowest(tab)] = Free
               /\ Named(new) /\ Distinct(new)
               /\ \A f \in Fd : new[f] = IF f = Lowest(tab) THEN e ELSE tab[f]
<1>1. Lowest(tab) \in Fd /\ tab[Lowest(tab)] = Free
    BY NumberLeft
<1> QED BY <1>1 DEF Named, Distinct

LEMMA Closed ==
    ASSUME NEW tab, Named(tab), Distinct(tab), NEW f \in Fd
    PROVE  Named([tab EXCEPT ![f] = Free]) /\ Distinct([tab EXCEPT ![f] = Free])
BY DEF Named, Distinct

\* A readable connection is one of those the sets name, and open.
LEMMA Receiving ==
    ASSUME Numbers, NEW f \in Fd, f \in controllerFds \cup dataFds
    PROVE  /\ table[f] \in Names
           /\ table[f].who \in Conns
           /\ life[table[f].who] = "open"
           /\ f \in controllerFds => /\ table[f] = OfController(table[f].who)
                                     /\ table[f].who \in ControlConns
           /\ f \in dataFds => /\ table[f] = OfRouter(table[f].who)
                               /\ table[f].who \in DataConns
<1>1. table[f] \in Names \cup {Free}
    BY DEF Numbers, Named
<1>2. table[f].kind \in {"controller", "inbound"}
    BY DEF Numbers, Triage
<1> QED BY <1>1, <1>2, Shapes DEF Numbers, Triage, LiveConns, Conns, Free

\* max_fd covers what is watched or written to from now on, and what was before.
LEMMA MaxFact ==
    ASSUME NEW a \in Fd, NEW b \in Fd, NEW c \in Fd
    PROVE  /\ Max({a, b, c}) \in Fd
           /\ Max({a, b, c}) >= a /\ Max({a, b, c}) >= b /\ Max({a, b, c}) >= c
<1> DEFINE S == {a, b, c}
<1>1. S \subseteq Fd /\ Fd \subseteq Nat
    BY FdsAssumption DEF Fd
<1>2. \E x \in S : \A y \in S : x >= y
    BY <1>1
<1>3. Max(S) \in S /\ \A y \in S : Max(S) >= y
    BY <1>2, Zenon DEF Max
<1> QED BY <1>1, <1>3

LEMMA WatchFacts ==
    ASSUME NEW a \in Fd, NEW b \in Fd, maxFd \in Fd, watched \subseteq Fd, Watch({a, b})
    PROVE  /\ watched' = watched \cup {a, b} /\ watched' \subseteq Fd
           /\ maxFd' \in Fd
           /\ maxFd' >= maxFd /\ maxFd' >= a /\ maxFd' >= b
<1>1. maxFd' = Max({a, b, maxFd})
    <2>1. {a, b} \cup {maxFd} = {a, b, maxFd}
        OBVIOUS
    <2> QED BY <2>1 DEF Watch
<1> QED BY <1>1, MaxFact DEF Watch

-------------------------------------------------------------------------------
(***************************************************************************)
(* What a step makes of the table. closed are the connections whose number *)
(* it closes; that number may be given out again in the same step.         *)
(***************************************************************************)

Rewrites(closed) ==
    /\ closed \subseteq controllerFds \cup dataFds
    /\ \A g \in Fd :
          \/ table'[g] = table[g] /\ g \notin closed
          \/ (table[g] = Free \/ g \in closed) /\ table'[g].kind \in {"free", "outbound"}
          \/ table[g] = Free /\ g \in watched' /\ g <= maxFd'
    /\ \A g \in Fd : table'[g].kind \in {"control", "router", "data"} =>
          table'[g] = table[g] \/ refused' = {}
    /\ watched \ closed \subseteq watched'
    /\ \A g \in watched' \ watched : table'[g].kind \notin {"free", "outbound"}
    /\ maxFd' >= maxFd
    /\ writing' \subseteq writing \cup {hop'[m] : m \in Neighbours}
    /\ refused \subseteq refused'
    /\ refused' = refused \/ Initialised
    /\ \A m \in Neighbours :
          /\ hop[m] # 0 => hop'[m] = hop[m]
          /\ hop[m] = 0 /\ hop'[m] # 0 =>
                \/ table'[hop'[m]] = Outbound(m)
                \/ m \in refused' /\ table[hop'[m]] = Free

\* A step that opens no connection to this router keeps what the table names, if
\* it keeps the connections that stay open.
LEMMA NumbersRewritten ==
    ASSUME Numbers, TypeOK', Named(table'), Distinct(table'), HopKnown',
           NEW closed, Rewrites(closed),
           \A g \in Fd : table[g] = Free => table'[g].kind \in {"free", "outbound"},
           controllerFds' = controllerFds \ closed, dataFds' = dataFds \ closed,
           \A g \in (controllerFds \cup dataFds) \ closed : life'[table[g].who] = "open"
    PROVE  Numbers'
<1>1. \A g \in Fd : g \in closed => table[g].kind \in {"controller", "inbound"}
    BY DEF Rewrites, Numbers, Triage
<1>2. \A g \in Fd : table'[g].kind \in {"controller", "inbound"} =>
          table'[g] = table[g] /\ g \notin closed
    BY DEF Rewrites
<1>3. \A g \in Fd : table[g].kind \in {"controller", "inbound"} /\ g \notin closed =>
          table'[g] = table[g]
    BY DEF Rewrites, Free
<1>4. LiveConns'
    BY <1>2 DEF LiveConns, Numbers, Triage
<1>5. Triage'
    BY <1>1, <1>2, <1>3 DEF Numbers, Triage
<1>6. InitOpensBoth'
    <2>1. \A g \in Fd : table'[g] = Single("router") => table[g] = Single("router")
        BY DEF Rewrites, Single
    <2>2. \A g \in Fd : table[g].kind = "data" => table'[g].kind = "data"
        BY <1>1 DEF Rewrites, Free
    <2> QED BY <2>1, <2>2 DEF Numbers, InitOpensBoth, Initialised
<1> QED BY <1>4, <1>5, <1>6 DEF Numbers

\* A step that opens and closes nothing, and moves no entry.
LEMMA NumbersKept ==
    ASSUME Numbers, TypeOK', UNCHANGED <<table, watched, maxFd, controllerFds, dataFds, hop, refused>>,
           writing' \subseteq writing,
           \A c \in Conns : life[c] = "open" => life'[c] = "open"
    PROVE  Numbers' /\ Rewrites({})
<1>1. Rewrites({})
    BY FdsAssumption DEF Rewrites, Numbers, TypeOK, Fd
<1>2. HopKnown' /\ Named(table') /\ Distinct(table')
    BY DEF Numbers, HopKnown
<1>3. \A g \in (controllerFds \cup dataFds) \ {} : life'[table[g].who] = "open"
    BY Receiving DEF Numbers, TypeOK
<1>4. \A g \in Fd : table[g] = Free => table'[g].kind \in {"free", "outbound"}
    BY DEF Free
<1> QED BY <1>1, <1>2, <1>3, <1>4, NumbersRewritten

-------------------------------------------------------------------------------
(***************************************************************************)
(* The handlers that open a connection to a neighbour.                     *)
(***************************************************************************)

\* SENDFILE and forwarding keep the table, or enter a new connection in it. A
\* connection closed by the same step counts as gone already.
LEMMA ConnectedFacts ==
    ASSUME Numbers, NEW m \in Neighbours,
           NEW tab, Named(tab), Distinct(tab), \A g \in Fd : tab[g] = table[g] \/ tab[g] = Free
    PROVE  \/ Connected(tab, m) = [table |-> tab, hop |-> hop]
           \/ /\ hop[m] = 0
              /\ \E k \in Fd :
                    /\ Connected(tab, m) = [table |-> [tab EXCEPT ![k] = Outbound(m)],
                                            hop |-> [hop EXCEPT ![m] = k]]
                    /\ tab[k] = Free
                    /\ Named([tab EXCEPT ![k] = Outbound(m)])
                    /\ Distinct([tab EXCEPT ![k] = Outbound(m)])
<1>1. CASE hop[m] # 0 \/ ~Accepts(m)
    BY <1>1 DEF Connected
<1>2. CASE hop[m] = 0 /\ Accepts(m)
    <2>1. Outbound(m) \in Names
        BY DEF Names, Outgoing
    <2>2. \A f \in Fd : tab[f] # Outbound(m)
        BY <1>2, FdsAssumption DEF Numbers, HopKnown, Fd, Outbound, Free
    <2>3. Connected(tab, m) = [table |-> [tab EXCEPT ![Lowest(tab)] = Outbound(m)],
                               hop |-> [hop EXCEPT ![m] = Lowest(tab)]]
        BY <1>2 DEF Connected
    <2> QED BY <1>2, <2>1, <2>2, <2>3, Opened
<1> QED BY <1>1, <1>2

\* What queueing chunks makes of the table, the entries and the queues, if it
\* finds the table tab.
ConnectsFrom(tab) ==
    /\ Named(table') /\ Distinct(table')
    /\ \A g \in Fd : table'[g] = tab[g] \/ (tab[g] = Free /\ table'[g].kind = "outbound")
    /\ hop' \in [Neighbours -> Fd \cup {0}]
    /\ \A l \in Neighbours :
          /\ hop[l] # 0 => hop'[l] = hop[l]
          /\ hop[l] = 0 /\ hop'[l] # 0 => table'[hop'[l]] = Outbound(l)
    /\ HopKnown'
    /\ queue' \in [Neighbours -> Seq(Waiters)]
    /\ \A l \in Neighbours : Len(queue'[l]) <= MaxQueued
    /\ writing' \subseteq Fd
    /\ writing' \subseteq writing \cup {hop'[l] : l \in Neighbours}
    /\ maxFd' \in Fd /\ maxFd' >= maxFd

LEMMA EnqueueFacts ==
    ASSUME Numbers, NEW m \in Neighbours, NEW chunks,
           chunks = <<>> \/ \E w \in Waiters : chunks = <<w>>,
           NEW tab, Named(tab), Distinct(tab), \A g \in Fd : tab[g] = table[g] \/ tab[g] = Free,
           Enqueue(tab, m, chunks)
    PROVE  ConnectsFrom(tab)
<1>1. /\ table' = Connected(tab, m).table /\ hop' = Connected(tab, m).hop
      /\ \/ UNCHANGED <<queue, writing, maxFd>>
         \/ /\ Connected(tab, m).hop[m] # 0
            /\ \A l \in Neighbours : Len(queue[l]) < MaxQueued
            /\ queue' = [queue EXCEPT ![m] = @ \o chunks]
            /\ writing' = writing \cup {Connected(tab, m).hop[m]}
            /\ maxFd' = Max({Connected(tab, m).hop[m], maxFd})
    BY DEF Enqueue
<1>2. /\ Named(table') /\ Distinct(table')
      /\ \A g \in Fd : table'[g] = tab[g] \/ (tab[g] = Free /\ table'[g] = Outbound(m))
      /\ hop' \in [Neighbours -> Fd \cup {0}]
      /\ \A l \in Neighbours :
            /\ hop[l] # 0 => hop'[l] = hop[l]
            /\ hop[l] = 0 /\ hop'[l] # 0 => table'[hop'[l]] = Outbound(l)
      /\ HopKnown'
    <2>a. \A l \in Neighbours : hop[l] = 0 => \A g \in Fd : tab[g] # Outbound(l)
        BY FdsAssumption DEF Numbers, HopKnown, Fd, Outbound, Free
    <2>b. \A g \in Fd, l \in Neighbours : tab[g] = Outbound(l) => hop[l] = g
        BY DEF Numbers, HopKnown, Outbound, Free
    <2>1. CASE Connected(tab, m) = [table |-> tab, hop |-> hop]
        BY <1>1, <2>1, <2>b DEF Numbers, TypeOK, HopKnown
    <2>2. CASE /\ hop[m] = 0
               /\ \E k \in Fd :
                     /\ Connected(tab, m) = [table |-> [tab EXCEPT ![k] = Outbound(m)],
                                             hop |-> [hop EXCEPT ![m] = k]]
                     /\ tab[k] = Free
                     /\ Named([tab EXCEPT ![k] = Outbound(m)])
                     /\ Distinct([tab EXCEPT ![k] = Outbound(m)])
        <3>a. PICK k \in Fd :
                  /\ Connected(tab, m) = [table |-> [tab EXCEPT ![k] = Outbound(m)],
                                          hop |-> [hop EXCEPT ![m] = k]]
                  /\ tab[k] = Free
                  /\ Named([tab EXCEPT ![k] = Outbound(m)])
                  /\ Distinct([tab EXCEPT ![k] = Outbound(m)])
            BY <2>2
        <3>1. /\ table' = [tab EXCEPT ![k] = Outbound(m)]
              /\ hop' = [hop EXCEPT ![m] = k]
            BY <1>1, <3>a
        <3>b. tab[k] = Free /\ Named(table') /\ Distinct(table')
            BY <3>1, <3>a
        <3>2. \A g \in Fd : table'[g] = IF g = k THEN Outbound(m) ELSE tab[g]
            BY <3>1, <3>b DEF Named
        <3>3. \A l \in Neighbours : hop'[l] = IF l = m THEN k ELSE hop[l]
            BY <3>1 DEF Numbers, TypeOK
        <3>4. hop' \in [Neighbours -> Fd \cup {0}]
            BY <3>1 DEF Numbers, TypeOK
        <3>5. HopKnown'
            BY <2>2, <2>a, <2>b, <3>2, <3>3, <3>b DEF HopKnown, Outbound
        <3> QED BY <2>2, <3>b, <3>2, <3>3, <3>4, <3>5
    <2> QED BY <2>1, <2>2, ConnectedFacts
<1>3. maxFd \in Fd /\ writing \subseteq Fd /\ Fd \subseteq Nat
    BY FdsAssumption DEF Numbers, TypeOK, Fd
<1>4. /\ writing' \subseteq Fd
      /\ writing' \subseteq writing \cup {hop'[l] : l \in Neighbours}
      /\ maxFd' \in Fd /\ maxFd' >= maxFd
    <2>1. CASE UNCHANGED <<writing, maxFd>>
        BY <1>3, <2>1
    <2>2. CASE /\ hop'[m] # 0
               /\ writing' = writing \cup {hop'[m]}
               /\ maxFd' = Max({hop'[m], maxFd})
        <3>1. hop'[m] \in Fd
            BY <1>2, <2>2
        <3>2. {hop'[m], maxFd} = {hop'[m], hop'[m], maxFd}
            OBVIOUS
        <3> QED BY <1>3, <2>2, <3>1, <3>2, MaxFact
    <2> QED BY <1>1, <2>1, <2>2
<1>5. queue' \in [Neighbours -> Seq(Waiters)] /\ \A l \in Neighbours : Len(queue'[l]) <= MaxQueued
    <2>1. queue \in [Neighbours -> Seq(Waiters)] /\ \A l \in Neighbours : Len(queue[l]) <= MaxQueued
        BY DEF Numbers, TypeOK
    <2>2. CASE queue' = queue
        BY <2>1, <2>2
    <2>3. CASE /\ \A l \in Neighbours : Len(queue[l]) < MaxQueued
               /\ queue' = [queue EXCEPT ![m] = @ \o chunks]
        <3>1. chunks \in Seq(Waiters) /\ Len(chunks) <= 1 /\ Len(chunks) \in Nat
            <4>1. CASE chunks = <<>>
                BY <4>1, EmptySeq
            <4>2. ASSUME NEW w \in Waiters, chunks = <<w>>
                  PROVE  chunks \in Seq(Waiters) /\ Len(chunks) <= 1 /\ Len(chunks) \in Nat
                BY <4>2
            <4> QED BY <4>1, <4>2
        <3>2. queue[m] \in Seq(Waiters) /\ Len(queue[m]) \in Nat
            BY <2>1, LenProperties
        <3>3. queue[m] \o chunks \in Seq(Waiters) /\ Len(queue[m] \o chunks) <= Len(queue[m]) + 1
            BY <3>1, <3>2, ConcatProperties
        <3>4. Len(queue[m] \o chunks) <= MaxQueued
            <4>1. Len(queue[m] \o chunks) \in Nat
                BY <3>3, LenProperties
            <4> QED BY <2>3, <3>2, <3>3, <4>1, FdsAssumption
        <3> QED BY <2>1, <2>3, <3>3, <3>4
    <2> QED BY <1>1, <2>2, <2>3
<1>6. Outbound(m).kind = "outbound"
    BY DEF Outbound
<1> QED BY <1>2, <1>4, <1>5, <1>6 DEF ConnectsFrom

\* SENDFILE and forwarding: nothing is closed.
LEMMA NumbersEnqueue ==
    ASSUME Numbers, NEW f \in Fd, NEW m \in Neighbours, NEW chunks,
           chunks = <<>> \/ \E w \in Waiters : chunks = <<w>>,
           Receives(f, controllerFds \cup dataFds), Enqueue(table, m, chunks),
           UNCHANGED <<thread, watched, controllerFds, dataFds, inactive, refused>>
    PROVE  Numbers' /\ Rewrites({})
<1>1. /\ readFd' \subseteq readFd /\ UNCHANGED <<writeFd, life, port>>
      /\ inbox' = [inbox EXCEPT ![table[f].who] = "empty"]
    BY DEF Receives, ReadTurn
<1>2. Named(table) /\ Distinct(table) /\ \A g \in Fd : table[g] = table[g] \/ table[g] = Free
    BY DEF Numbers
<1>3. ConnectsFrom(table)
    BY <1>2, EnqueueFacts
<1>4. TypeOK'
    <2>1. table' \in [Fd -> [kind : Kinds, who : Neighbours \cup Conns \cup {0}]]
        BY <1>3, Shapes DEF ConnectsFrom, Named
    <2> QED BY <1>1, <1>3, <2>1 DEF ConnectsFrom, Numbers, TypeOK
<1>5. Rewrites({})
    BY <1>3 DEF ConnectsFrom, Rewrites
<1>6. \A g \in (controllerFds \cup dataFds) \ {} : life'[table[g].who] = "open"
    BY <1>1, Receiving DEF Numbers, TypeOK
<1>7. \A g \in Fd : table[g] = Free => table'[g].kind \in {"free", "outbound"}
    BY <1>3 DEF ConnectsFrom, Free
<1> QED BY <1>3, <1>4, <1>5, <1>6, <1>7, NumbersRewritten DEF ConnectsFrom

-------------------------------------------------------------------------------
(***************************************************************************)
(* The handlers that close a connection.                                   *)
(***************************************************************************)

\* The table without the connection under f.
LEMMA ClosedFacts ==
    ASSUME Numbers, NEW f \in Fd, f \in controllerFds \cup dataFds
    PROVE  LET closed == [table EXCEPT ![f] = Free]
           IN  /\ Named(closed) /\ Distinct(closed)
               /\ \A g \in Fd : closed[g] = IF g = f THEN Free ELSE table[g]
               /\ \A g \in (controllerFds \cup dataFds) \ {f} : table[g].who # table[f].who
<1>1. Named([table EXCEPT ![f] = Free]) /\ Distinct([table EXCEPT ![f] = Free])
    BY Closed DEF Numbers
<1>2. \A g \in Fd : [table EXCEPT ![f] = Free][g] = IF g = f THEN Free ELSE table[g]
    BY DEF Numbers, TypeOK
<1>3. ASSUME NEW g \in (controllerFds \cup dataFds) \ {f}, table[g].who = table[f].who
      PROVE  FALSE
    <2>1. g \in Fd
        BY DEF Numbers, TypeOK
    <2>2. table[g] = table[f]
        BY <1>3, <2>1, Receiving, NamesAssumption
    <2>3. table[f] # Free /\ g # f
        BY DEF Numbers, Triage, Free
    <2> QED BY <2>1, <2>2, <2>3 DEF Numbers, Distinct
<1> QED BY <1>1, <1>2, <1>3

\* The end of a connection: its number is free, and is in neither set.
LEMMA NumbersEnd ==
    ASSUME Numbers, NEW f \in Fd, ReceiveEnd(f)
    PROVE  Numbers' /\ Rewrites({f})
<1>1. /\ f \in controllerFds \cup dataFds
      /\ readFd' \subseteq readFd
      /\ table' = [table EXCEPT ![f] = Free]
      /\ watched' = watched \ {f}
      /\ controllerFds' = controllerFds \ {f} /\ dataFds' = dataFds \ {f}
      /\ life' = [life EXCEPT ![table[f].who] = "done"]
      /\ inbox' = [inbox EXCEPT ![table[f].who] = "empty"]
      /\ UNCHANGED <<thread, writeFd, writing, maxFd, hop, queue, inactive, refused, port>>
    BY DEF ReceiveEnd, ReadTurn, Close, hops
<1>2. /\ Named(table') /\ Distinct(table')
      /\ \A g \in Fd : table'[g] = IF g = f THEN Free ELSE table[g]
      /\ \A g \in (controllerFds \cup dataFds) \ {f} : table[g].who # table[f].who
    BY <1>1, ClosedFacts
<1>3. TypeOK'
    <2>1. table' \in [Fd -> [kind : Kinds, who : Neighbours \cup Conns \cup {0}]]
        BY <1>2, Shapes DEF Named
    <2> QED BY <1>1, <2>1 DEF Numbers, TypeOK
<1>4. Rewrites({f})
    <2>1. maxFd' >= maxFd
        BY <1>1, FdsAssumption DEF Numbers, TypeOK, Fd
    <2> QED BY <1>1, <1>2, <2>1 DEF Rewrites, Free
<1>5. HopKnown'
    BY <1>1, <1>2 DEF Numbers, HopKnown, Outbound, Free
<1>6. \A g \in (controllerFds \cup dataFds) \ {f} : life'[table[g].who] = "open"
    BY <1>1, <1>2, Receiving DEF Numbers, TypeOK
<1>7. \A g \in Fd : table[g] = Free => table'[g].kind \in {"free", "outbound"}
    BY <1>2 DEF Free
<1> QED BY <1>1, <1>2, <1>3, <1>4, <1>5, <1>6, <1>7, NumbersRewritten

\* A controller that leaves between header and payload: its number is free, or
\* stands for a neighbour by the end of the step.
LEMMA NumbersUnfinished ==
    ASSUME Numbers, NEW f \in Fd, ReceiveUnfinished(f), thread' \notin {"aborted", "exited"}
    PROVE  /\ Numbers' /\ Rewrites({f})
           /\ \E c \in ControlConns : life[c] = "open" /\ life' = [life EXCEPT ![c] = "cut"]
           /\ \A g \in readFd' : g \in readFd /\ g # f
           /\ UNCHANGED <<watched, port>>
           /\ inbox' = [inbox EXCEPT ![table[f].who] = "empty"]
<1> DEFINE closed == [table EXCEPT ![f] = Free]
<1>1. /\ f \in controllerFds
      /\ readFd' = readFd \ {f}
      /\ controllerFds' = controllerFds \ {f}
      /\ life' = [life EXCEPT ![table[f].who] = "cut"]
      /\ inbox' = [inbox EXCEPT ![table[f].who] = "empty"]
      /\ \/ table' = closed /\ UNCHANGED <<writing, maxFd, hop, queue>>
         \/ \E m \in Neighbours, chunks \in Chunks(f) : Enqueue(closed, m, chunks)
      /\ UNCHANGED <<thread, writeFd, watched, dataFds, inactive, refused, port>>
    BY DEF ReceiveUnfinished, ReadTurn
<1>2. table[f].who \in ControlConns /\ life[table[f].who] = "open" /\ table[f] \in Names
    BY <1>1, Receiving
<1>3. /\ Named(closed) /\ Distinct(closed)
      /\ \A g \in Fd : closed[g] = IF g = f THEN Free ELSE table[g]
      /\ \A g \in (controllerFds \cup dataFds) \ {f} : table[g].who # table[f].who
    BY <1>1, ClosedFacts
<1> HIDE DEF closed
<1>4. ConnectsFrom(closed)
    <2>1. CASE table' = closed /\ UNCHANGED <<writing, maxFd, hop, queue>>
        <3>1. HopKnown'
            BY <1>3, <2>1 DEF Numbers, HopKnown, Outbound, Free
        <3>2. maxFd' >= maxFd
            BY <2>1, FdsAssumption DEF Numbers, TypeOK, Fd
        <3>3. Named(table') /\ Distinct(table') /\ \A g \in Fd : table'[g] = closed[g]
            BY <1>3, <2>1
        <3> QED BY <2>1, <3>1, <3>2, <3>3 DEF ConnectsFrom, Numbers, TypeOK
    <2>2. ASSUME NEW m \in Neighbours, NEW chunks \in Chunks(f), Enqueue(closed, m, chunks)
          PROVE  ConnectsFrom(closed)
        <3>1. chunks = <<>> \/ \E w \in Waiters : chunks = <<w>>
            BY <1>2 DEF Chunks, Waiters
        <3>2. \A g \in Fd : closed[g] = table[g] \/ closed[g] = Free
            BY <1>3
        <3> QED BY <1>3, <2>2, <3>1, <3>2, EnqueueFacts
    <2> QED BY <1>1, <2>1, <2>2
<1>5. TypeOK'
    <2>1. table' \in [Fd -> [kind : Kinds, who : Neighbours \cup Conns \cup {0}]]
        BY <1>4, Shapes DEF ConnectsFrom, Named
    <2> QED BY <1>1, <1>4, <2>1 DEF ConnectsFrom, Numbers, TypeOK
<1>6. Rewrites({f})
    <2>1. \A g \in Fd : \/ table'[g] = table[g] /\ g # f
                        \/ (table[g] = Free \/ g = f) /\ table'[g].kind \in {"free", "outbound"}
        BY <1>3, <1>4 DEF ConnectsFrom, Free
    <2> QED BY <1>1, <1>4, <2>1 DEF ConnectsFrom, Rewrites
<1>7. \A g \in (controllerFds \cup dataFds) \ {f} : life'[table[g].who] = "open"
    BY <1>1, <1>3, Receiving DEF Numbers, TypeOK
<1>8. \A g \in Fd : table[g] = Free => table'[g].kind \in {"free", "outbound"}
    BY <1>3, <1>4 DEF ConnectsFrom, Free
<1>9. dataFds' = dataFds \ {f}
    BY <1>1, <1>2 DEF Numbers, Triage
<1>10. Numbers'
    BY <1>1, <1>4, <1>5, <1>6, <1>7, <1>8, <1>9, NumbersRewritten DEF ConnectsFrom
<1> QED BY <1>1, <1>2, <1>6, <1>10


\* write_handler takes the first chunk from the queues it serves.
LEMMA WriteType ==
    ASSUME Numbers, NEW f \in Fd, WriteHandler(f)
    PROVE  /\ queue' \in [Neighbours -> Seq(Waiters)]
           /\ \A l \in Neighbours : Len(queue'[l]) <= MaxQueued
           /\ \A l \in Neighbours :
                  \/ queue'[l] = queue[l]
                  \/ queue[l] # <<>> /\ queue'[l] = Tail(queue[l])
<1>1. queue \in [Neighbours -> Seq(Waiters)] /\ \A l \in Neighbours : Len(queue[l]) <= MaxQueued
    BY DEF Numbers, TypeOK
<1>2. queue' = [m \in Neighbours |-> IF m \in Served(f) THEN Tail(queue[m]) ELSE queue[m]]
    BY DEF WriteHandler
<1>3. ASSUME NEW l \in Neighbours, l \in Served(f)
      PROVE  /\ queue[l] # <<>>
             /\ Tail(queue[l]) \in Seq(Waiters)
             /\ Len(Tail(queue[l])) <= MaxQueued
    <2>1. queue[l] # <<>>
        BY <1>3 DEF Served
    <2>2. /\ Tail(queue[l]) \in Seq(Waiters) /\ Len(Tail(queue[l])) = Len(queue[l]) - 1
          /\ Len(queue[l]) \in Nat
        BY <1>1, <2>1, HeadTailProperties, LenProperties
    <2> QED BY <1>1, <2>1, <2>2, FdsAssumption
<1> QED BY <1>1, <1>2, <1>3

-------------------------------------------------------------------------------
(***************************************************************************)
(* The handlers that open listening sockets and accept connections, and    *)
(* connect_data_ports.                                                     *)
(***************************************************************************)

LEMMA NumbersInit == Init => Numbers
<1> SUFFICES ASSUME Init
             PROVE  Numbers
    OBVIOUS
<1>1. 1 \in Fd
    BY FdsAssumption, NamesAssumption, FS_CardinalityType DEF Fd, Conns
<1>2. Named(table) /\ \A f \in Fd : table[f] = IF f = 1 THEN Single("control") ELSE Free
    BY DEF Init, Named, Names, Listeners, Single
<1>3. TypeOK
    <2>1. table \in [Fd -> [kind : Kinds, who : Neighbours \cup Conns \cup {0}]]
        BY <1>2, Shapes DEF Named
    <2>2. queue \in [Neighbours -> Seq(Waiters)] /\ \A m \in Neighbours : Len(queue[m]) <= MaxQueued
        BY FdsAssumption, EmptySeq DEF Init
    <2> QED BY <1>1, <2>1, <2>2 DEF Init, TypeOK
<1>4. /\ Distinct(table) /\ LiveConns /\ InitOpensBoth /\ HopKnown /\ Triage
    BY <1>2 DEF Init, Distinct, LiveConns, InitOpensBoth, HopKnown, Triage, Single, Free, Outbound
<1> QED BY <1>2, <1>3, <1>4 DEF Numbers

\* accept gives a connection a number nothing else has.
LEMMA NumbersAccept ==
    ASSUME Numbers, NEW f \in Fd, Accept(f)
    PROVE  Numbers' /\ Rewrites({})
<1> DEFINE k == Lowest(table)
<1>1. PICK c \in Conns :
          /\ life[c] = "waiting"
          /\ life' = [life EXCEPT ![c] = "open"]
          /\ table' = [table EXCEPT ![k] =
                [kind |-> IF c \in ControlConns THEN "controller" ELSE "inbound", who |-> c]]
          /\ controllerFds' = IF c \in ControlConns THEN controllerFds \cup {k} ELSE controllerFds
          /\ dataFds' = IF c \in DataConns THEN dataFds \cup {k} ELSE dataFds
    BY DEF Accept, Waiting, Conns
<1> DEFINE e == [kind |-> IF c \in ControlConns THEN "controller" ELSE "inbound", who |-> c]
<1>2. e = IF c \in ControlConns THEN OfController(c) ELSE OfRouter(c)
    BY DEF OfController, OfRouter
<1>3. e \in Names
    BY <1>2 DEF Names, Accepted, Conns
<1>4. Named(table) /\ Distinct(table)
    BY DEF Numbers
<1>5. \A g \in Fd : table[g] # e
    BY <1>1 DEF Numbers, LiveConns
<1>6. /\ k \in Fd /\ table[k] = Free /\ Named(table') /\ Distinct(table')
      /\ \A g \in Fd : table'[g] = IF g = k THEN e ELSE table[g]
    <2> HIDE DEF e
    <2> QED BY <1>1, <1>3, <1>4, <1>5, Opened DEF e
<1>7. Watch({k}) /\ watched \subseteq Fd /\ maxFd \in Fd
    BY DEF Accept, Numbers, TypeOK
<1>8. watched' = watched \cup {k} /\ watched' \subseteq Fd /\ maxFd' \in Fd /\ maxFd' >= k /\ maxFd' >= maxFd
    <2>1. {k, k} = {k}
        OBVIOUS
    <2> QED BY <1>6, <1>7, <2>1, WatchFacts
<1> HIDE DEF k
<1>9. TypeOK'
    <2>1. table' \in [Fd -> [kind : Kinds, who : Neighbours \cup Conns \cup {0}]]
        BY <1>6, Shapes DEF Named
    <2>2. UNCHANGED <<thread, writeFd, writing, hop, queue, inactive, refused, inbox, port>>
        BY DEF Accept, ReadTurn, hops
    <2>3. controllerFds' \subseteq Fd /\ dataFds' \subseteq Fd
        BY <1>1, <1>6 DEF Numbers, TypeOK
    <2>4. life' \in [Conns -> {"none", "waiting", "open", "done", "cut"}]
        BY <1>1 DEF Numbers, TypeOK
    <2>5. readFd' \subseteq readFd
        BY DEF Accept, ReadTurn
    <2> QED BY <1>8, <2>1, <2>2, <2>3, <2>4, <2>5 DEF Numbers, TypeOK
<1>10. LiveConns'
    BY <1>1, <1>6 DEF Numbers, TypeOK, LiveConns, Free
<1>11. InitOpensBoth'
    <2>1. \A g \in Fd : table'[g] = Single("router") => table[g] = Single("router")
        BY <1>6 DEF Single
    <2>2. \A g \in Fd : table[g].kind = "data" => table'[g].kind = "data"
        BY <1>6 DEF Free
    <2> QED BY <2>1, <2>2 DEF Numbers, InitOpensBoth, Initialised
<1>12. HopKnown'
    BY <1>6 DEF Accept, hops, Numbers, HopKnown, Outbound
<1>13. Triage'
    BY <1>1, <1>6, NamesAssumption DEF Numbers, Triage, Free, Conns
<1>14. Rewrites({})
    BY <1>6, <1>8 DEF Accept, hops, Rewrites, Free
<1> QED BY <1>6, <1>9, <1>10, <1>11, <1>12, <1>13, <1>14 DEF Numbers

\* INIT enters its two sockets under two numbers.
LEMMA NumbersInitMessage ==
    ASSUME Numbers, refused # {} => Initialised, NEW f \in Fd, ReceiveInit(f)
    PROVE  Numbers' /\ Rewrites({})
<1> DEFINE u == Lowest(table)
           tab == [table EXCEPT ![u] = Single("router")]
           d == Lowest(tab)
<1>1. Named(table) /\ Distinct(table)
    BY DEF Numbers
<1>2. Single("router") \in Names /\ Single("data") \in Names
    BY DEF Names, Listeners
<1>3. \A g \in Fd : table[g] # Single("router") /\ table[g] # Single("data")
    BY DEF ReceiveInit, Initialised, Numbers, InitOpensBoth, Single
<1>4. /\ u \in Fd /\ table[u] = Free /\ Named(tab) /\ Distinct(tab)
      /\ \A g \in Fd : tab[g] = IF g = u THEN Single("router") ELSE table[g]
    BY <1>1, <1>2, <1>3, Opened
<1>5. \A g \in Fd : tab[g] # Single("data")
    BY <1>3, <1>4 DEF Single
<1> HIDE DEF tab
<1>6. /\ d \in Fd /\ tab[d] = Free /\ Named([tab EXCEPT ![d] = Single("data")])
      /\ Distinct([tab EXCEPT ![d] = Single("data")])
    BY <1>2, <1>4, <1>5, Opened
<1>7. table' = [tab EXCEPT ![d] = Single("data")] /\ Watch({u, d})
    BY DEF ReceiveInit, Single, tab
<1>8. u # d /\ table[d] = Free
    BY <1>4, <1>6 DEF Single, Free
<1> HIDE DEF u, d
<1>9. \A g \in Fd : table'[g] = IF g = u THEN Single("router") ELSE IF g = d THEN Single("data") ELSE table[g]
    BY <1>4, <1>6, <1>7, <1>8 DEF Named
<1>10. /\ watched' = watched \cup {u, d} /\ watched' \subseteq Fd
       /\ maxFd' \in Fd /\ maxFd' >= u /\ maxFd' >= d /\ maxFd' >= maxFd
    BY <1>4, <1>6, <1>7, WatchFacts DEF Numbers, TypeOK
<1>11. Named(table') /\ Distinct(table')
    BY <1>6, <1>7
<1>12. TypeOK'
    <2>1. table' \in [Fd -> [kind : Kinds, who : Neighbours \cup Conns \cup {0}]]
        BY <1>11, Shapes DEF Named
    <2>2. /\ UNCHANGED <<thread, writeFd, writing, controllerFds, dataFds, hops, life, port>>
          /\ inbox' = [inbox EXCEPT ![table[f].who] = "empty"]
          /\ readFd' \subseteq readFd
        BY DEF ReceiveInit, Receives, ReadTurn
    <2> QED BY <1>10, <2>1, <2>2 DEF Numbers, TypeOK, hops
<1>13. LiveConns' /\ HopKnown' /\ Triage'
    <2>1. UNCHANGED <<controllerFds, dataFds, hop, life>>
        BY DEF ReceiveInit, Receives, hops
    <2> QED BY <1>4, <1>8, <1>9, <2>1 DEF Numbers, LiveConns, HopKnown, Triage, Single, Outbound, Free
<1>14. InitOpensBoth'
    BY <1>6, <1>8, <1>9 DEF InitOpensBoth, Initialised, Single
<1>15. Rewrites({})
    <2>1. refused' = {} /\ UNCHANGED <<writing, hop, refused>>
        BY DEF ReceiveInit, hops
    <2>2. \A g \in Fd : \/ table'[g] = table[g]
                        \/ table[g] = Free /\ g \in watched' /\ g <= maxFd'
        <3>1. u \in watched' /\ u <= maxFd' /\ d \in watched' /\ d <= maxFd'
            <4>1. u \in Nat /\ d \in Nat /\ maxFd' \in Nat
                BY <1>4, <1>6, <1>10, FdsAssumption DEF Fd
            <4> QED BY <1>10, <4>1
        <3> QED BY <1>4, <1>8, <1>9, <3>1
    <2>3. \A g \in watched' \ watched : table'[g].kind \notin {"free", "outbound"}
        BY <1>4, <1>8, <1>9, <1>10 DEF Single
    <2> QED BY <1>10, <2>1, <2>2, <2>3 DEF Rewrites
<1> QED BY <1>11, <1>12, <1>13, <1>14, <1>15 DEF Numbers

\* connect_data_ports gives a kept connection a number that was free and that
\* none before it was given; what it leaves in the other entries names nothing
\* of theirs.
LEMMA NumbersConnect ==
    ASSUME Numbers, Initialised, NEW gone, ConnectDataPorts(gone), inactive' \subseteq Neighbours,
           UNCHANGED <<thread, round, watched, writing, maxFd, controllerFds, dataFds, queue, peers>>
    PROVE  Numbers' /\ Rewrites({})
<1> DEFINE due == {m \in Neighbours \ gone : hop[m] = 0}
           kept == {m \in due : Accepts(m)}
           Taken(new, m) == {new[l] : l \in {x \in kept : x < m}}
<1>1. PICK new \in [due -> Unused(table)] :
          /\ \A m \in due : new[m] = Min(Unused(table) \ Taken(new, m))
          /\ hop' = [m \in Neighbours |-> IF m \in due THEN new[m] ELSE hop[m]]
          /\ table' = [f \in Fd |->
                IF \E m \in kept : new[m] = f
                THEN Outbound(CHOOSE m \in kept : new[m] = f)
                ELSE table[f]]
    BY DEF ConnectDataPorts
<1>2. /\ refused' = refused \cup (due \ kept)
      /\ UNCHANGED <<thread, round, watched, writing, maxFd, controllerFds, dataFds, queue, peers>>
    BY DEF ConnectDataPorts
<1>3. due \subseteq Neighbours /\ kept \subseteq due /\ \A m \in due : hop[m] = 0 /\ m \in Nat
    BY NamesAssumption
<1>4. \A f \in Unused(table) : f \in Fd /\ table[f] = Free
    BY Shapes DEF Unused, Numbers, Named
<1>5. \A f \in Fd : \A m \in due : table[f] # Outbound(m)
    BY <1>3, FdsAssumption DEF Numbers, HopKnown, Fd
<1>a. \A l, m : Outbound(l) = Outbound(m) => l = m
    BY DEF Outbound
<1> HIDE DEF due, kept
<1>6. ASSUME NEW m \in due
      PROVE  new[m] \notin Taken(new, m)
    <2>1. Unused(table) \ Taken(new, m) # {}
        <3> SUFFICES ASSUME Unused(table) \subseteq Taken(new, m)
                     PROVE  FALSE
            OBVIOUS
        <3> DEFINE before == {x \in kept : x < m}
                   g == [f \in Fd |-> IF table[f] = Free
                                      THEN Outbound(CHOOSE x \in before : new[x] = f)
                                      ELSE table[f]]
        <3>1. \A f \in Fd : table[f] = Free => \E x \in before : new[x] = f
            BY DEF Unused, Free
        <3>2. \A f \in Fd : table[f] = Free =>
                  /\ (CHOOSE x \in before : new[x] = f) \in before
                  /\ new[CHOOSE x \in before : new[x] = f] = f
            BY <3>1
        <3>3. before \subseteq Neighbours /\ m \notin before /\ before \subseteq due
            BY <1>3
        <3> HIDE DEF before
        <3>4. g \in [Fd -> Names]
            BY <3>2, <3>3 DEF Numbers, Named, Names, Outgoing
        <3>5. \A f, h \in Fd : g[f] = g[h] => f = h
            <4> SUFFICES ASSUME NEW f \in Fd, NEW h \in Fd, g[f] = g[h]
                         PROVE  f = h
                OBVIOUS
            <4>1. CASE table[f] # Free /\ table[h] # Free
                BY <4>1 DEF Numbers, Distinct
            <4>2. CASE table[f] = Free /\ table[h] = Free
                BY <3>2, <4>2 DEF Outbound
            <4>3. CASE table[f] = Free /\ table[h] # Free
                BY <1>5, <3>2, <3>3, <4>3
            <4>4. CASE table[f] # Free /\ table[h] = Free
                BY <1>5, <3>2, <3>3, <4>4
            <4> QED BY <4>1, <4>2, <4>3, <4>4
        <3>6. \A f \in Fd : g[f] # Outbound(m)
            BY <1>5, <3>2, <3>3 DEF Outbound
        <3>7. Outbound(m) \in Names
            BY <1>3 DEF Names, Outgoing
        <3> HIDE DEF g
        <3> QED BY <3>4, <3>5, <3>6, <3>7, AllTaken
    <2>2. Unused(table) \ Taken(new, m) \subseteq Nat
        BY <1>4, FdsAssumption DEF Fd
    <2>3. Min(Unused(table) \ Taken(new, m)) \in Unused(table) \ Taken(new, m)
        BY <2>1, <2>2, MinFact
    <2> QED BY <1>1, <2>3
<1>7. \A l, m \in kept : new[l] = new[m] => l = m
    <2>1. \A l, m \in kept : l < m => new[l] # new[m]
        BY <1>3, <1>6
    <2>2. \A l, m \in kept : l < m \/ m < l \/ l = m
        BY <1>3
    <2> QED BY <2>1, <2>2
<1>8. \A m \in kept : new[m] \in Fd /\ table[new[m]] = Free /\ table'[new[m]] = Outbound(m)
    BY <1>1, <1>3, <1>4, <1>7
<1>9. \A f \in Fd : \/ table'[f] = table[f]
                    \/ \E m \in kept : f = new[m] /\ table'[f] = Outbound(m)
    BY <1>1, <1>8
<1>10. \A f \in Fd : table[f] # Free => table'[f] = table[f]
    BY <1>8, <1>9
<1>11. Named(table') /\ Distinct(table')
    <2>1. Named(table')
        BY <1>1, <1>3, <1>9 DEF Named, Numbers, Names, Outgoing
    <2>2. ASSUME NEW f \in Fd, NEW h \in Fd, table'[f] = table'[h], table'[f] # Free
          PROVE  f = h
        <3>1. CASE table'[f] = table[f] /\ table'[h] = table[h]
            BY <2>2, <3>1 DEF Numbers, Distinct
        <3>2. CASE \E m \in kept : f = new[m] /\ table'[f] = Outbound(m)
            <4>1. PICK m \in kept : f = new[m] /\ table'[f] = Outbound(m)
                BY <3>2
            <4>2. table'[h] = Outbound(m) /\ table[h] # Outbound(m)
                BY <1>3, <1>5, <2>2, <4>1
            <4>3. PICK l \in kept : h = new[l] /\ table'[h] = Outbound(l)
                BY <1>9, <4>2
            <4> QED BY <1>a, <4>1, <4>2, <4>3
        <3>3. CASE \E m \in kept : h = new[m] /\ table'[h] = Outbound(m)
            <4>1. PICK m \in kept : h = new[m] /\ table'[h] = Outbound(m)
                BY <3>3
            <4>2. table'[f] = Outbound(m) /\ table[f] # Outbound(m)
                BY <1>3, <1>5, <2>2, <4>1
            <4>3. PICK l \in kept : f = new[l] /\ table'[f] = Outbound(l)
                BY <1>9, <4>2
            <4> QED BY <1>a, <4>1, <4>2, <4>3
        <3> QED BY <1>9, <3>1, <3>2, <3>3
    <2> QED BY <2>1, <2>2 DEF Distinct
<1>12. hop' \in [Neighbours -> Fd \cup {0}] /\ refused' \subseteq Neighbours
    BY <1>1, <1>2, <1>3, <1>4 DEF Numbers, TypeOK
<1>13. TypeOK'
    <2>1. table' \in [Fd -> [kind : Kinds, who : Neighbours \cup Conns \cup {0}]]
        BY <1>11, Shapes DEF Named
    <2> QED BY <1>2, <1>12, <2>1 DEF Numbers, TypeOK, round, peers
<1>14. LiveConns' /\ InitOpensBoth' /\ Triage'
    <2>1. \A f \in Fd : table[f].kind \in Kinds \ {"free", "outbound"} => table'[f] = table[f]
        BY <1>10 DEF Free
    <2>2. \A f \in Fd : table'[f].kind \in Kinds \ {"free", "outbound"} => table'[f] = table[f]
        <3>1. \A m : Outbound(m).kind = "outbound"
            BY DEF Outbound
        <3> QED BY <1>9, <3>1
    <2>3. UNCHANGED <<controllerFds, dataFds, life>>
        BY <1>2 DEF peers
    <2> QED BY <2>1, <2>2, <2>3
            DEF Numbers, LiveConns, InitOpensBoth, Initialised, Triage, Single, Kinds
<1>15. HopKnown'
    <2> SUFFICES ASSUME NEW f \in Fd, NEW m \in Neighbours, table'[f] = Outbound(m)
                 PROVE  hop'[m] = f
        BY DEF HopKnown
    <2>1. CASE table'[f] = table[f]
        BY <1>1, <1>5, <2>1 DEF Numbers, HopKnown
    <2>2. CASE \E l \in kept : f = new[l] /\ table'[f] = Outbound(l)
        BY <1>1, <1>3, <2>2 DEF Outbound
    <2> QED BY <1>9, <2>1, <2>2
<1>16. ASSUME NEW m \in Neighbours
       PROVE  /\ hop[m] # 0 => hop'[m] = hop[m]
              /\ hop[m] = 0 /\ hop'[m] # 0 =>
                    \/ table'[hop'[m]] = Outbound(m)
                    \/ m \in refused' /\ table[hop'[m]] = Free
    <2>1. CASE m \notin due
        BY <1>1, <1>2, <2>1
    <2>2. CASE m \in kept
        BY <1>1, <1>2, <1>3, <1>8, <2>2
    <2>3. CASE m \in due \ kept
        BY <1>1, <1>2, <1>3, <1>4, <2>3
    <2> QED BY <2>1, <2>2, <2>3
<1>17. \A f \in Fd : table[f] = Free => table'[f] = Free \/ table'[f].kind = "outbound"
    <2>1. \A m : Outbound(m).kind = "outbound"
        BY DEF Outbound
    <2> QED BY <1>9, <2>1
<1>18. Rewrites({})
    <2>1. maxFd' >= maxFd
        BY <1>2, FdsAssumption DEF Numbers, TypeOK, Fd
    <2>2. \A g \in Fd : table'[g].kind \in {"control", "router", "data"} => table'[g] = table[g]
        <3>1. \A m : Outbound(m).kind = "outbound"
            BY DEF Outbound
        <3> QED BY <1>9, <3>1
    <2>3. \A g \in Fd : \/ table'[g] = table[g]
                        \/ table[g] = Free /\ table'[g].kind \in {"free", "outbound"}
        BY <1>10, <1>17 DEF Free
    <2>4. /\ UNCHANGED <<watched, writing, maxFd>>
          /\ refused \subseteq refused'
        BY <1>2
    <2> QED BY <1>16, <2>1, <2>2, <2>3, <2>4 DEF Rewrites
<1> QED BY <1>11, <1>13, <1>14, <1>15, <1>18 DEF Numbers

-------------------------------------------------------------------------------
(***************************************************************************)
(* What the loop watches, reads and writes to.                             *)
(***************************************************************************)

\* The loop writes only to numbers that entries name.
WritingIsHop == writing \subseteq {hop[m] : m \in Neighbours}

\* connect_data_ports runs in a router that has its INIT.
RefusedLate == refused # {} => Initialised

\* The induction: the table, and what the other sets make of it.
LoopInv ==
    /\ Numbers
    /\ AllWatched
    /\ NeverBlocks
    /\ StraysAreCuts
    /\ HopIsPeer
    /\ WritingIsHop
    /\ RefusedLate

\* A closed connection leaves at most one number in all_fd, and then it was cut.
LEMMA StraysCounted ==
    ASSUME LoopInv, Numbers', NEW closed, Rewrites(closed),
           \/ /\ closed \cap watched' = {}
              /\ \A c \in ControlConns : life[c] = "cut" => life'[c] = "cut"
           \/ \E f \in Fd, c \in ControlConns :
                 /\ closed = {f} /\ life[c] = "open"
                 /\ life' = [life EXCEPT ![c] = "cut"]
    PROVE  Cardinality({f \in watched' : table'[f].kind \in {"free", "outbound"}})
              <= Cardinality({c \in ControlConns : life'[c] = "cut"})
<1> DEFINE S == {f \in watched : table[f].kind \in {"free", "outbound"}}
           C == {c \in ControlConns : life[c] = "cut"}
           S1 == {f \in watched' : table'[f].kind \in {"free", "outbound"}}
           C1 == {c \in ControlConns : life'[c] = "cut"}
<1>1. IsFiniteSet(S) /\ IsFiniteSet(S1) /\ IsFiniteSet(C) /\ IsFiniteSet(C1)
    <2>1. IsFiniteSet(Fd)
        <3>1. 1 \in Int /\ LastFd \in Int
            BY FdsAssumption
        <3> QED BY <3>1, FS_Interval DEF Fd
    <2>2. S \subseteq Fd /\ S1 \subseteq Fd
        BY DEF LoopInv, Numbers, TypeOK
    <2>3. IsFiniteSet(Conns) /\ C \subseteq Conns /\ C1 \subseteq Conns
        BY NamesAssumption DEF Conns
    <2> HIDE DEF S, S1, C, C1
    <2> QED BY <2>1, <2>2, <2>3, FS_Subset
<1>2. Cardinality(S) <= Cardinality(C)
    BY DEF LoopInv, StraysAreCuts
<1>3. Cardinality(S) \in Nat /\ Cardinality(S1) \in Nat /\ Cardinality(C) \in Nat /\ Cardinality(C1) \in Nat
    <2> HIDE DEF S, S1, C, C1
    <2> QED BY <1>1, FS_CardinalityType
<1>4. S1 \subseteq S \cup (closed \cap watched')
    BY DEF Rewrites, Free, LoopInv, Numbers, TypeOK
<1>5. CASE /\ closed \cap watched' = {}
           /\ \A c \in ControlConns : life[c] = "cut" => life'[c] = "cut"
    <2>1. S1 \subseteq S /\ C \subseteq C1
        BY <1>4, <1>5
    <2> HIDE DEF S, S1, C, C1
    <2>2. Cardinality(S1) <= Cardinality(S) /\ Cardinality(C) <= Cardinality(C1)
        BY <1>1, <2>1, FS_Subset
    <2>3. Cardinality(S1) <= Cardinality(C1)
        BY <1>2, <1>3, <2>2
    <2> QED BY <2>3 DEF S1, C1
<1>6. ASSUME NEW f \in Fd, NEW c \in ControlConns,
             closed = {f}, life[c] = "open", life' = [life EXCEPT ![c] = "cut"]
      PROVE  Cardinality(S1) <= Cardinality(C1)
    <2>1. S1 \subseteq S \cup {f}
        BY <1>4, <1>6
    <2>2. C1 = C \cup {c} /\ c \notin C
        BY <1>6 DEF LoopInv, Numbers, TypeOK, Conns
    <2> HIDE DEF S, S1, C, C1
    <2>3. Cardinality(C \cup {c}) = Cardinality(C) + 1
        BY <1>1, <2>2, FS_AddElement
    <2>4. IsFiniteSet(S \cup {f}) /\ Cardinality(S \cup {f}) \in {Cardinality(S), Cardinality(S) + 1}
        <3>1. S \cup {f} = S \/ f \notin S
            OBVIOUS
        <3> QED BY <1>1, <3>1, FS_AddElement
    <2>5. Cardinality(S1) <= Cardinality(S \cup {f})
        BY <2>1, <2>4, FS_Subset
    <2> QED BY <1>2, <1>3, <2>2, <2>3, <2>4, <2>5
<1> QED BY <1>5, <1>6

\* What every step of the loop keeps.
LEMMA LoopStep ==
    ASSUME LoopInv, Numbers', NeverBlocks', NEW closed, Rewrites(closed),
           \/ /\ closed \cap watched' = {}
              /\ \A c \in ControlConns : life[c] = "cut" => life'[c] = "cut"
           \/ \E f \in Fd, c \in ControlConns :
                 /\ closed = {f} /\ life[c] = "open"
                 /\ life' = [life EXCEPT ![c] = "cut"]
    PROVE  LoopInv'
<1>1. AllWatched'
    <2> SUFFICES ASSUME NEW f \in Fd, table'[f].kind # "free", table'[f].kind # "outbound"
                 PROVE  f \in watched' /\ f <= maxFd'
        BY DEF AllWatched, Open
    <2>1. CASE table'[f] = table[f] /\ f \notin closed
        <3>1. f \in watched /\ f <= maxFd
            BY <2>1 DEF LoopInv, AllWatched, Open
        <3>2. f \in Nat /\ maxFd \in Nat /\ maxFd' \in Nat
            BY FdsAssumption DEF LoopInv, Numbers, TypeOK, Fd
        <3> QED BY <2>1, <3>1, <3>2 DEF Rewrites
    <2>2. CASE f \in watched' /\ f <= maxFd'
        BY <2>2
    <2> QED BY <2>1, <2>2 DEF Rewrites
<1>2. \A f \in Fd, m \in Neighbours : table[f] = Outbound(m) => table'[f] = Outbound(m)
    <2>1. \A f \in closed : table[f].kind # "outbound"
        BY DEF Rewrites, LoopInv, Numbers, Triage
    <2>2. \A m : Outbound(m).kind = "outbound" /\ Outbound(m) # Free
        BY DEF Outbound, Free
    <2> QED BY <2>1, <2>2 DEF Rewrites
<1>3. HopIsPeer'
    <2> SUFFICES ASSUME NEW m \in Neighbours, hop'[m] # 0
                 PROVE  \/ table'[hop'[m]] = Outbound(m)
                        \/ m \in refused' /\ table'[hop'[m]].kind \notin {"control", "router", "data"}
        BY DEF HopIsPeer
    <2>1. hop'[m] \in Fd /\ hop[m] \in Fd \cup {0}
        BY DEF LoopInv, Numbers, TypeOK
    <2>2. CASE hop[m] # 0 /\ table[hop[m]] = Outbound(m)
        BY <1>2, <2>1, <2>2 DEF Rewrites
    <2>3. CASE hop[m] # 0 /\ m \in refused /\ table[hop[m]].kind \notin {"control", "router", "data"}
        <3>1. hop'[m] = hop[m] /\ m \in refused'
            BY <2>3 DEF Rewrites
        <3> QED BY <2>1, <2>3, <3>1 DEF Rewrites
    <2>4. CASE hop[m] = 0 /\ m \in refused' /\ table[hop'[m]] = Free
        BY <2>1, <2>4 DEF Rewrites, Free
    <2> QED BY <2>2, <2>3, <2>4 DEF LoopInv, HopIsPeer, Rewrites
<1>4. WritingIsHop'
    <2> SUFFICES ASSUME NEW f \in writing'
                 PROVE  f \in {hop'[m] : m \in Neighbours}
        BY DEF WritingIsHop
    <2>1. CASE f \in writing
        <3>1. PICK m \in Neighbours : hop[m] = f
            BY <2>1 DEF LoopInv, WritingIsHop
        <3>2. f # 0
            BY <2>1, FdsAssumption DEF LoopInv, Numbers, TypeOK, Fd
        <3> QED BY <3>1, <3>2 DEF Rewrites
    <2> QED BY <2>1 DEF Rewrites
<1>5. RefusedLate'
    <2>1. Initialised => Initialised'
        <3> SUFFICES ASSUME NEW f \in Fd, table[f].kind = "data"
                     PROVE  table'[f].kind = "data"
            BY DEF Initialised
        <3>1. f \notin closed /\ table[f] # Free
            BY DEF Rewrites, LoopInv, Numbers, Triage, Free
        <3> QED BY <3>1 DEF Rewrites
    <2> QED BY <2>1 DEF RefusedLate, LoopInv, Rewrites
<1>6. StraysAreCuts'
    <2>1. writing' \ Open' \subseteq {hop'[m] : m \in refused'}
        <3> SUFFICES ASSUME NEW f \in writing', f \notin Open'
                     PROVE  f \in {hop'[m] : m \in refused'}
            OBVIOUS
        <3>1. PICK m \in Neighbours : hop'[m] = f
            BY <1>4 DEF WritingIsHop
        <3>2. f \in Fd /\ f # 0 /\ table'[f].kind = "free"
            BY FdsAssumption DEF Numbers, TypeOK, Fd, Open
        <3>3. Outbound(m).kind # "free"
            BY DEF Outbound
        <3> QED BY <1>3, <3>1, <3>2, <3>3 DEF HopIsPeer
    <2>2. Cardinality({f \in watched' : table'[f].kind \in {"free", "outbound"}})
              <= Cardinality({c \in ControlConns : life'[c] = "cut"})
        BY StraysCounted
    <2> QED BY <2>1, <2>2 DEF StraysAreCuts
<1> QED BY <1>1, <1>3, <1>4, <1>5, <1>6 DEF LoopInv

-------------------------------------------------------------------------------
(***************************************************************************)
(* The bits of a round.                                                    *)
(***************************************************************************)

\* A bit that is left has its number where select found it, and something there.
LEMMA BitsKept ==
    ASSUME LoopInv, NEW closed, Rewrites(closed),
           thread' = "select" => /\ thread = "select"
                                 /\ \A g \in readFd' : g \in readFd /\ g \notin closed,
           \A g \in readFd' :
               /\ table[g].kind \in {"control", "data"} =>
                     \A c \in Waiting(table[g].kind) : life'[c] = "waiting"
               /\ g \in controllerFds \cup dataFds =>
                     \/ inbox'[table[g].who] # "empty"
                     \/ inbox[table[g].who] = "empty",
           \A m \in Neighbours : port[m] \in {"gone", "reset"} => port'[m] \in {"gone", "reset"}
    PROVE  NeverBlocks'
<1> SUFFICES ASSUME thread' = "select", NEW g \in readFd'
             PROVE  Readable(g)'
    BY DEF NeverBlocks
<1>1. g \in Fd /\ g \notin closed /\ Readable(g)
    BY DEF LoopInv, NeverBlocks, Numbers, TypeOK
<1>2. table[g] # Free
    BY <1>1 DEF Readable, Free
<1>3. table'[g] = table[g]
    BY <1>1, <1>2 DEF Rewrites
<1>4. CASE table[g].kind \in {"control", "data"}
    <2>1. PICK c \in Waiting(table[g].kind) : life'[c] = "waiting"
        BY <1>1, <1>4 DEF Readable
    <2> QED BY <1>3, <1>4, <2>1 DEF Readable, Waiting
<1>5. CASE table[g].kind \in {"controller", "inbound"}
    <2>1. g \in controllerFds \cup dataFds /\ inbox[table[g].who] # "empty"
        BY <1>1, <1>5 DEF LoopInv, Numbers, Triage, Readable
    <2> QED BY <1>3, <1>5, <2>1 DEF Readable
<1>6. CASE table[g].kind = "outbound"
    <2>1. table[g].who \in Neighbours
        BY <1>1, <1>6, Shapes DEF LoopInv, Numbers, Named
    <2> QED BY <1>1, <1>3, <1>6, <2>1 DEF Readable
<1> QED BY <1>1, <1>4, <1>5, <1>6 DEF Readable

\* Reading from a connection, and closing it, is nothing to the others.
LEMMA BitsReceived ==
    ASSUME LoopInv, NEW f \in Fd, f \in controllerFds \cup dataFds, ReadTurn(f),
           NEW closed, closed \subseteq {f}, Rewrites(closed),
           inbox' = [inbox EXCEPT ![table[f].who] = "empty"], UNCHANGED port,
           UNCHANGED life \/ \E x : life' = [life EXCEPT ![table[f].who] = x]
    PROVE  NeverBlocks'
<1>1. \A g \in (controllerFds \cup dataFds) \ {f} : table[g].who # table[f].who
    BY ClosedFacts DEF LoopInv
<1>2. thread = "select" /\ readFd' = readFd \ {f}
    BY DEF ReadTurn
<1>3. table[f].who \in Conns /\ life[table[f].who] = "open"
    BY Receiving DEF LoopInv
<1>4. \A g \in (controllerFds \cup dataFds) \ {f} :
          inbox'[table[g].who] = inbox[table[g].who]
    <2>1. \A g \in controllerFds \cup dataFds : table[g].who \in Conns
        BY Receiving DEF LoopInv, Numbers, TypeOK
    <2> QED BY <1>1, <2>1 DEF LoopInv, Numbers, TypeOK
<1>5. \A c \in Conns : life[c] = "waiting" => life'[c] = "waiting"
    BY <1>3 DEF LoopInv, Numbers, TypeOK
<1> QED BY <1>2, <1>4, <1>5, BitsKept DEF Waiting, Conns

\* A step that leaves the bits, the table and the connections as they are.
LEMMA LoopKept ==
    ASSUME LoopInv, TypeOK', UNCHANGED <<table, watched, maxFd, controllerFds, dataFds, hop, refused>>,
           writing' \subseteq writing, NeverBlocks',
           \A c \in Conns : life[c] \in {"open", "cut"} => life'[c] = life[c]
    PROVE  LoopInv'
<1>1. Numbers' /\ Rewrites({})
    BY NumbersKept DEF LoopInv
<1> QED BY <1>1, LoopStep DEF Conns

-------------------------------------------------------------------------------
(***************************************************************************)
(* Every step of the router and of the others.                             *)
(***************************************************************************)

LEMMA LoopInit == Init => LoopInv
<1> SUFFICES ASSUME Init
             PROVE  LoopInv
    OBVIOUS
<1>1. Numbers
    BY NumbersInit
<1>2. /\ watched = {1} /\ maxFd = 1 /\ writing = {} /\ refused = {} /\ readFd = {}
      /\ \A m \in Neighbours : hop[m] = 0
      /\ \A f \in Fd : table[f] = IF f = 1 THEN Single("control") ELSE Free
    BY DEF Init, Single
<1>3. 1 \in Fd
    BY <1>1, <1>2 DEF Numbers, TypeOK
<1>4. AllWatched
    BY <1>2, <1>3 DEF AllWatched, Open, Single, Free
<1>5. WritingIsHop /\ HopIsPeer /\ RefusedLate /\ NeverBlocks
    BY <1>2 DEF WritingIsHop, HopIsPeer, RefusedLate, NeverBlocks
<1>6. StraysAreCuts
    <2>1. {f \in watched : table[f].kind \in {"free", "outbound"}} = {}
        BY <1>2, <1>3 DEF Single
    <2>2. IsFiniteSet({c \in ControlConns : life[c] = "cut"})
        BY NamesAssumption, FS_Subset DEF Conns
    <2>3. Cardinality({c \in ControlConns : life[c] = "cut"}) \in Nat
        BY <2>2, FS_CardinalityType
    <2>4. Cardinality({}) = 0
        BY FS_EmptySet
    <2> QED BY <1>2, <2>1, <2>3, <2>4 DEF StraysAreCuts
<1> QED BY <1>1, <1>4, <1>5, <1>6 DEF LoopInv

LEMMA LoopNext == LoopInv /\ [Next]_vars => LoopInv'
<1> SUFFICES ASSUME LoopInv, [Next]_vars
             PROVE  LoopInv'
    OBVIOUS
<1>a. Numbers
    BY DEF LoopInv
<1>1. CASE Select
    <2>1. /\ readFd' = ToRead /\ writeFd' \subseteq ToWrite
          /\ UNCHANGED <<thread, kernel, hops, peers>>
        BY <1>1 DEF Select
    <2>2. TypeOK'
        BY <1>a, <2>1 DEF kernel, hops, peers, ToRead, ToWrite, Numbers, TypeOK
    <2>3. NeverBlocks'
        BY <2>1 DEF kernel, peers, ToRead, NeverBlocks, Readable, Waiting
    <2> QED BY <2>1, <2>2, <2>3, LoopKept DEF kernel, hops, peers
<1>2. ASSUME NEW f \in Fd, Accept(f)
      PROVE  LoopInv'
    <2>1. Numbers' /\ Rewrites({})
        BY <1>2, <1>a, NumbersAccept
    <2>2. PICK c \in Waiting(table[f].kind) : life' = [life EXCEPT ![c] = "open"]
        BY <1>2 DEF Accept
    <2>3. /\ f \in readFd /\ readFd' = readFd \ {f} /\ thread = "select"
          /\ table[f].kind \in {"control", "data"} /\ UNCHANGED <<inbox, port>>
        BY <1>2 DEF Accept, ReadTurn
    <2>4. NeverBlocks'
        <3>1. ASSUME NEW g \in readFd', table[g].kind \in {"control", "data"}
              PROVE  \A d \in Waiting(table[g].kind) : life'[d] = "waiting"
            <4>1. g \in Fd /\ g # f
                BY <1>a, <2>3 DEF Numbers, TypeOK
            <4>2. table[g] = Single(table[g].kind) /\ table[f] = Single(table[f].kind)
                BY <1>a, <2>3, <3>1, <4>1, Shapes DEF Numbers, Named
            <4>3. table[g].kind # table[f].kind
                <5>1. table[g] # Free
                    BY <3>1 DEF Free
                <5> QED BY <1>a, <2>3, <4>1, <4>2, <5>1 DEF Numbers, Distinct
            <4>4. c \notin Waiting(table[g].kind)
                BY <2>2, <2>3, <3>1, <4>3, NamesAssumption DEF Waiting
            <4> QED BY <1>a, <2>2, <4>4 DEF Waiting, Numbers, TypeOK, Conns
        <3> QED BY <2>1, <2>3, <3>1, BitsKept
    <2>5. \A d \in ControlConns : life[d] = "cut" => life'[d] = "cut"
        BY <1>a, <2>2 DEF Waiting, Numbers, TypeOK, Conns
    <2> QED BY <2>1, <2>4, <2>5, LoopStep
<1>3. ASSUME NEW f \in Fd, ReceiveEnd(f)
      PROVE  LoopInv'
    <2>1. Numbers' /\ Rewrites({f})
        BY <1>3, <1>a, NumbersEnd
    <2>2. /\ f \in controllerFds \cup dataFds /\ ReadTurn(f)
          /\ f \notin watched'
          /\ life' = [life EXCEPT ![table[f].who] = "done"]
          /\ inbox' = [inbox EXCEPT ![table[f].who] = "empty"] /\ UNCHANGED port
        BY <1>3 DEF ReceiveEnd, Close
    <2>3. NeverBlocks'
        BY <2>1, <2>2, BitsReceived
    <2>4. \A d \in ControlConns : life[d] = "cut" => life'[d] = "cut"
        BY <1>a, <2>2, Receiving DEF Numbers, TypeOK, Conns
    <2> QED BY <2>1, <2>2, <2>3, <2>4, LoopStep
<1>4. ASSUME NEW f \in Fd, ReceiveUnfinished(f)
      PROVE  LoopInv'
    <2>1. CASE thread' \in {"aborted", "exited"} /\ UNCHANGED <<kernel, hops, peers>>
        <3>1. readFd' \subseteq readFd /\ UNCHANGED writeFd
            BY <1>4 DEF ReceiveUnfinished, ReadTurn
        <3>2. TypeOK'
            BY <1>a, <2>1, <3>1 DEF kernel, hops, peers, Numbers, TypeOK
        <3>3. NeverBlocks'
            BY <2>1 DEF NeverBlocks
        <3> QED BY <2>1, <3>2, <3>3, LoopKept DEF kernel, hops, peers
    <2>2. CASE thread' \notin {"aborted", "exited"}
        <3>1. /\ Numbers' /\ Rewrites({f})
              /\ \E c \in ControlConns : life[c] = "open" /\ life' = [life EXCEPT ![c] = "cut"]
            BY <1>4, <1>a, <2>2, NumbersUnfinished
        <3>2. /\ f \in controllerFds \cup dataFds /\ ReadTurn(f) /\ UNCHANGED port
              /\ inbox' = [inbox EXCEPT ![table[f].who] = "empty"]
              /\ life' = [life EXCEPT ![table[f].who] = "cut"]
            BY <1>4, <2>2 DEF ReceiveUnfinished
        <3>3. NeverBlocks'
            BY <3>1, <3>2, BitsReceived
        <3> QED BY <3>1, <3>3, LoopStep
    <2> QED BY <1>4, <2>1, <2>2 DEF ReceiveUnfinished, ReadTurn
<1>5. ASSUME NEW f \in Fd, ReceiveInit(f)
      PROVE  LoopInv'
    <2>1. Numbers' /\ Rewrites({})
        BY <1>5, <1>a, NumbersInitMessage DEF LoopInv, RefusedLate
    <2>2. /\ f \in controllerFds \cup dataFds /\ ReadTurn(f) /\ UNCHANGED <<port, life>>
          /\ inbox' = [inbox EXCEPT ![table[f].who] = "empty"]
        BY <1>5 DEF ReceiveInit, Receives
    <2>3. NeverBlocks'
        BY <2>1, <2>2, BitsReceived
    <2> QED BY <2>1, <2>2, <2>3, LoopStep
<1>6. ASSUME NEW f \in Fd, ReceiveTorn(f) \/ WriteBroken(f)
      PROVE  LoopInv'
    <2>1. /\ UNCHANGED <<kernel, hops, peers>> /\ thread' \in {"spinning", "killed"}
          /\ readFd' \subseteq readFd /\ writeFd' \subseteq writeFd
        BY <1>6 DEF ReceiveTorn, WriteBroken, ReadTurn, WriteTurn
    <2>2. TypeOK'
        BY <1>a, <2>1 DEF kernel, hops, peers, Numbers, TypeOK
    <2>3. NeverBlocks'
        BY <2>1 DEF NeverBlocks
    <2> QED BY <2>1, <2>2, <2>3, LoopKept DEF kernel, hops, peers
<1>7. ASSUME NEW f \in Fd, UnknownIndex(f)
      PROVE  LoopInv'
    <2>1. /\ UNCHANGED <<thread, kernel, hops, peers>>
          /\ readFd' \subseteq readFd /\ writeFd' = writeFd
        BY <1>7 DEF UnknownIndex, ReadTurn
    <2>2. TypeOK'
        BY <1>a, <2>1 DEF kernel, hops, peers, Numbers, TypeOK
    <2>3. NeverBlocks'
        BY <2>1 DEF kernel, peers, LoopInv, NeverBlocks, Readable, Waiting
    <2> QED BY <2>1, <2>2, <2>3, LoopKept DEF kernel, hops, peers
<1>8. ASSUME NEW f \in Fd, ReceiveCrash(f) \/ ReceiveOther(f)
      PROVE  LoopInv'
    <2>1. /\ f \in controllerFds \cup dataFds /\ ReadTurn(f)
          /\ UNCHANGED <<kernel, hops, life, port>>
          /\ thread' \in {thread, "exited"}
          /\ inbox' = [inbox EXCEPT ![table[f].who] = "empty"]
        BY <1>8 DEF ReceiveCrash, ReceiveOther, Receives
    <2>2. readFd' \subseteq readFd /\ writeFd' = writeFd
        BY <2>1 DEF ReadTurn
    <2>3. TypeOK'
        BY <1>a, <2>1, <2>2 DEF kernel, hops, Numbers, TypeOK
    <2>4. Rewrites({})
        BY <1>a, <2>1, <2>3, NumbersKept DEF kernel, hops
    <2>5. NeverBlocks'
        BY <2>1, <2>4, BitsReceived
    <2> QED BY <2>1, <2>3, <2>5, LoopKept DEF kernel, hops
<1>9. ASSUME NEW f \in Fd, NEW m \in Neighbours, ReceiveSendFile(f, m) \/ ReceiveForward(f, m)
      PROVE  LoopInv'
    <2>1. /\ Receives(f, controllerFds \cup dataFds)
          /\ UNCHANGED <<thread, watched, controllerFds, dataFds, inactive, refused>>
        BY <1>9 DEF ReceiveSendFile, ReceiveForward, Receives
    <2>2. PICK chunks : /\ chunks = <<>> \/ \E w \in Waiters : chunks = <<w>>
                        /\ Enqueue(table, m, chunks)
        <3>1. CASE ReceiveSendFile(f, m)
            <4>1. PICK chunks \in Chunks(f) : Enqueue(table, m, chunks)
                BY <3>1 DEF ReceiveSendFile
            <4>2. table[f].who \in ControlConns
                BY <1>a, <3>1, Receiving DEF ReceiveSendFile, Receives
            <4>3. chunks = <<>> \/ \E w \in Waiters : chunks = <<w>>
                BY <4>2 DEF Chunks, Waiters
            <4> QED BY <4>1, <4>3
        <3>2. CASE ReceiveForward(f, m)
            <4>1. [asker |-> 0, conn |-> 0] \in Waiters
                BY DEF Waiters
            <4> QED BY <3>2, <4>1 DEF ReceiveForward
        <3> QED BY <1>9, <3>1, <3>2
    <2>3. Numbers' /\ Rewrites({})
        BY <1>a, <2>1, <2>2, NumbersEnqueue
    <2>4. /\ f \in controllerFds \cup dataFds /\ ReadTurn(f) /\ UNCHANGED <<port, life>>
          /\ inbox' = [inbox EXCEPT ![table[f].who] = "empty"]
        BY <2>1 DEF Receives
    <2>5. NeverBlocks'
        BY <2>3, <2>4, BitsReceived
    <2> QED BY <2>3, <2>4, <2>5, LoopStep
<1>10. ASSUME NEW f \in Fd, WriteHandler(f)
       PROVE  LoopInv'
    <2>1. /\ UNCHANGED <<thread, readFd, table, watched, maxFd, controllerFds, dataFds>>
          /\ UNCHANGED <<hop, inactive, refused, life, inbox>>
          /\ writing' \subseteq writing /\ writeFd' \subseteq writeFd
          /\ port' \in [Neighbours -> {"closed", "open", "gone", "reset"}]
          /\ \A m \in Neighbours : port[m] \in {"gone", "reset"} => port'[m] \in {"gone", "reset"}
        BY <1>10, <1>a DEF WriteHandler, WriteTurn, Numbers, TypeOK
    <2>2. TypeOK'
        BY <1>10, <1>a, <2>1, WriteType DEF Numbers, TypeOK
    <2>3. Rewrites({})
        BY <1>a, <2>1, <2>2, NumbersKept
    <2>4. NeverBlocks'
        BY <2>1, <2>3, BitsKept DEF Waiting
    <2> QED BY <2>1, <2>2, <2>4, LoopKept
<1>11. CASE TimeoutHandler
    <2>1. PICK due \in SUBSET (Neighbours \ inactive) :
              /\ inactive' = inactive \cup due
              /\ \/ UNCHANGED <<table, hop, refused>>
                 \/ ConnectDataPorts(inactive \cup due)
        BY <1>11 DEF TimeoutHandler
    <2>2. /\ UNCHANGED <<thread, round, watched, writing, maxFd, controllerFds, dataFds, queue, peers>>
          /\ Initialised /\ readFd = {}
        BY <1>11 DEF TimeoutHandler, Selecting
    <2>3. inactive' \subseteq Neighbours
        BY <1>a, <2>1 DEF Numbers, TypeOK
    <2>4. NeverBlocks'
        BY <2>2 DEF round, NeverBlocks
    <2>5. CASE UNCHANGED <<table, hop, refused>>
        <3>1. TypeOK'
            BY <1>a, <2>2, <2>3, <2>5 DEF round, peers, Numbers, TypeOK
        <3> QED BY <2>2, <2>4, <2>5, <3>1, LoopKept DEF peers
    <2>6. CASE ConnectDataPorts(inactive \cup due)
        <3>1. Numbers' /\ Rewrites({})
            BY <1>a, <2>2, <2>3, <2>6, NumbersConnect
        <3> QED BY <2>2, <2>4, <3>1, LoopStep DEF peers
    <2> QED BY <2>1, <2>5, <2>6
<1>12. CASE Environment
    <2>1. thread = "select" /\ UNCHANGED <<thread, round, kernel, hops>>
        BY <1>12 DEF Environment, OpenConn, SendOn, PortChanges
    <2> DEFINE Outside ==
               /\ life' \in [Conns -> {"none", "waiting", "open", "done", "cut"}]
               /\ \A c \in Conns : life[c] # "none" => life'[c] = life[c]
               /\ inbox' \in [Conns -> {"empty", "message", "closed", "torn", "unfinished"}]
               /\ \A c \in Conns : inbox[c] # "empty" => inbox'[c] = inbox[c]
               /\ port' \in [Neighbours -> {"closed", "open", "gone", "reset"}]
               /\ \A m \in Neighbours : port[m] \in {"gone", "reset"} => port'[m] = port[m]
    <2>2. Outside
        <3>1. /\ life \in [Conns -> {"none", "waiting", "open", "done", "cut"}]
              /\ inbox \in [Conns -> {"empty", "message", "closed", "torn", "unfinished"}]
              /\ port \in [Neighbours -> {"closed", "open", "gone", "reset"}]
            BY <1>a DEF Numbers, TypeOK
        <3>2. ASSUME NEW c \in Conns, OpenConn(c)
              PROVE  Outside
            BY <3>1, <3>2 DEF OpenConn
        <3>3. ASSUME NEW c \in Conns, SendOn(c)
              PROVE  Outside
            <4>1. PICK what \in {"message", "closed", "torn", "unfinished"} :
                      inbox' = [inbox EXCEPT ![c] = what]
                BY <3>3, FdsAssumption DEF SendOn
            <4> QED BY <3>1, <3>3, <4>1 DEF SendOn
        <3>4. ASSUME NEW m \in Neighbours, PortChanges(m)
              PROVE  Outside
            BY <3>1, <3>4 DEF PortChanges
        <3> QED BY <1>12, <3>2, <3>3, <3>4 DEF Environment
    <2>3. TypeOK'
        BY <1>a, <2>1, <2>2 DEF round, kernel, hops, Numbers, TypeOK
    <2>4. Rewrites({})
        BY <1>a, <2>1, <2>2, <2>3, NumbersKept DEF kernel, hops
    <2>5. NeverBlocks'
        <3>1. \A g \in controllerFds \cup dataFds : table[g].who \in Conns
            BY <1>a, Receiving DEF Numbers, TypeOK
        <3>2. \A kind : \A c \in Waiting(kind) : life'[c] = "waiting"
            BY <2>2 DEF Waiting, Conns
        <3> QED BY <2>1, <2>2, <2>4, <3>1, <3>2, BitsKept DEF round
    <2> QED BY <2>1, <2>2, <2>3, <2>5, LoopKept DEF kernel, hops
<1>13. CASE UNCHANGED vars
    <2>1. TypeOK'
        BY <1>a, <1>13 DEF vars, round, kernel, hops, peers, Numbers, TypeOK
    <2>2. NeverBlocks'
        BY <1>13 DEF vars, round, kernel, hops, peers, LoopInv, NeverBlocks, Readable, Waiting
    <2> QED BY <1>13, <2>1, <2>2, LoopKept DEF vars, kernel, hops, peers
<1> QED BY <1>1, <1>2, <1>3, <1>4, <1>5, <1>6, <1>7, <1>8, <1>9, <1>10, <1>11, <1>12, <1>13
        DEF Next, Loop, ReadEvent, WriteEvent

LEMMA LoopInvariant == Spec => []LoopInv
BY LoopInit, LoopNext, PTL DEF Spec

\* Every step keeps the types of the variables: all numbers handed out are
\* descriptors, and max_fd is one of them.
THEOREM TypeCorrect == Spec => []TypeOK
<1>1. LoopInv => TypeOK
    BY DEF LoopInv, Numbers
<1> QED BY LoopInvariant, <1>1, PTL

\* However often numbers are reused, controller_fds and data_fds tell apart what
\* arrives on them.
THEOREM TriageHolds == Spec => []Triage
<1>1. LoopInv => Triage
    BY DEF LoopInv, Numbers
<1> QED BY LoopInvariant, <1>1, PTL

\* Whatever is accepted, closed and opened again, select is given every open
\* connection to this router.
THEOREM AllWatchedHolds == Spec => []AllWatched
<1>1. LoopInv => AllWatched
    BY DEF LoopInv
<1> QED BY LoopInvariant, <1>1, PTL

\* Numbers closed and given out again in the middle of a round never make the
\* thread wait in accept or recv: a bit whose turn comes is still true.
THEOREM NeverBlocksHolds == Spec => []NeverBlocks
<1>1. LoopInv => NeverBlocks
    BY DEF LoopInv
<1> QED BY LoopInvariant, <1>1, PTL

\* Each controller that leaves between a header and its payload costs the loop
\* one number of all_fd at most, and nothing else but a failed connect leaves a
\* closed number in a set.
THEOREM StraysAreCutsHolds == Spec => []StraysAreCuts
<1>1. LoopInv => StraysAreCuts
    BY DEF LoopInv
<1> QED BY LoopInvariant, <1>1, PTL

\* An entry leads to its neighbour, or was left by a failed connect; not even
\* then does it name a listening or UDP socket.
THEOREM HopIsPeerHolds == Spec => []HopIsPeer
<1>1. LoopInv => HopIsPeer
    BY DEF LoopInv
<1> QED BY LoopInvariant, <1>1, PTL

===============================================================================
