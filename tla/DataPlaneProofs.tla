---------------------------- MODULE DataPlaneProofs ----------------------------
(***************************************************************************)
(* Safety of the data plane for every network, every choice of routes and  *)
(* any crashes and lost connections. A file's packets follow one path,     *)
(* because a send buffer keeps the next hop of its first push: the         *)
(* induction says of each hop which router it is, that a packet at a hop   *)
(* has been counted at all hops before, and that the packets ahead of it   *)
(* have the smaller numbers. How far a packet has come is read off its     *)
(* TTL.                                                                    *)
(***************************************************************************)
EXTENDS DataPlane, TLAPS, SequenceTheorems, FiniteSetTheorems

\* The TTLs a packet of t can have that has not been dropped.
Live(t) == IF InitTTL[t] = 0 THEN 0 .. MaxTTL ELSE 1 .. InitTTL[t]

\* The hops behind a packet with TTL x.
Hops(t, x) == IF x <= InitTTL[t] THEN InitTTL[t] - x ELSE InitTTL[t] + MaxTTL + 1 - x

\* b comes after a somewhere in s.
Precedes(s, a, b) == \E i, j \in DOMAIN s : i < j /\ s[i] = a /\ s[j] = b

\* The chunks of t queued at n, and its packets from m to n.
Chunks(n, t) == Range(queue[n][t])

Packets(m, n, t) == {p \in Range(tcp[m][n]) : p.id = t}

\* n has counted a packet of t with TTL x, or is to send one.
Seen(n, t, x) ==
    \/ \E k \in Nat : <<x, k>> \in stats[n][t]
    \/ \E c \in Chunks(n, t) : c.pkt.ttl = x

\* Packet k of t was counted with TTL x.
Counted(t, x, k) == \E n \in Routers : <<x, k>> \in stats[n][t]

-------------------------------------------------------------------------------
(***************************************************************************)
(* The induction, for a transfer t.                                        *)
(***************************************************************************)

\* Nothing of a file is anywhere before its SENDFILE.
NothingBefore(t) ==
    t \notin requested =>
        /\ \A n \in Routers : Chunks(n, t) = {} /\ stats[n][t] = {}
        /\ \A m, n \in Routers : Packets(m, n, t) = {}

\* TTLs are live, and numbers those of the file's packets.
WellFormed(t) ==
    \A n \in Routers :
        /\ \A c \in Chunks(n, t) : c.pkt.id = t /\ c.pkt.ttl \in Live(t) /\ c.pkt.seq \in 1 .. Size[t]
        /\ \A e \in stats[n][t] : e[1] \in Live(t) /\ e[2] \in 1 .. Size[t]

\* A hop is at one router.
OnePath(t) ==
    \A n, m \in Routers, x \in Live(t) : Seen(n, t, x) /\ Seen(m, t, x) => n = m

\* The path leads over next hops that are pinned, and ends at the destination.
PathPinned(t) ==
    \A n \in Routers, x \in Live(t) : Seen(n, t, x) =>
        \/ x = InitTTL[t] /\ n = Origin[t]
        \/ \E m \in Routers, y \in Live(t), k \in Nat :
              /\ <<y, k>> \in stats[m][t] /\ pin[m][t] = n
              /\ Hops(t, x) = Hops(t, y) + 1
              /\ m = Dest[t] => y = InitTTL[t]

\* A packet between two routers was counted by the first and is on the path.
InFlight(t) ==
    \A m, n \in Routers : \A p \in Packets(m, n, t) :
        /\ <<p.ttl, p.seq>> \in stats[m][t] /\ pin[m][t] = n
        /\ m = Dest[t] => p.ttl = InitTTL[t]

\* A router's own chunks are those with the initial TTL, and the only ones to
\* wait at the destination.
OwnChunks(t) ==
    \A n \in Routers : \A c \in Chunks(n, t) :
        /\ c.own <=> c.pkt.ttl = InitTTL[t]
        /\ n = Dest[t] => c.own

\* What has come to a hop was counted at all hops before.
NoShortcut(t) ==
    /\ \A n \in Routers : \A c \in Chunks(n, t), y \in Live(t) :
           Hops(t, y) < Hops(t, c.pkt.ttl) => Counted(t, y, c.pkt.seq)
    /\ \A x, y \in Live(t), k \in Nat :
           Counted(t, x, k) /\ Hops(t, y) < Hops(t, x) => Counted(t, y, k)

\* What waits at a hop comes after all that was counted there or further on.
QueuedLater(t) ==
    \A n \in Routers : \A c \in Chunks(n, t), y \in Live(t), k \in Nat :
        Counted(t, y, k) /\ Hops(t, y) >= Hops(t, c.pkt.ttl) => k < c.pkt.seq

\* What is under way to a hop comes after all that was counted there or further
\* on, and after all that waits there.
SentLater(t) ==
    \A m, n \in Routers : \A p \in Packets(m, n, t) :
        /\ \A y \in Live(t), k \in Nat :
               Counted(t, y, k) /\ Hops(t, y) > Hops(t, p.ttl) => k < p.seq
        /\ \A l \in Routers : \A c \in Chunks(l, t) :
               Hops(t, c.pkt.ttl) > Hops(t, p.ttl) => c.pkt.seq < p.seq

\* Queues and connections keep the order of packets that have come equally far.
InSequence(t) ==
    /\ \A n \in Routers : \A c, d \in Chunks(n, t) :
           Precedes(queue[n][t], c, d) /\ c.pkt.ttl = d.pkt.ttl => c.pkt.seq < d.pkt.seq
    /\ \A m, n \in Routers : \A p, r \in Packets(m, n, t) :
           Precedes(tcp[m][n], p, r) /\ p.ttl = r.ttl => p.seq < r.seq

\* The destination counted what it has stored, once it had come a hop.
Arrived(t, k) ==
    \E x \in Live(t) : x # InitTTL[t] /\ <<x, k>> \in stats[Dest[t]][t]

StoredArrived(t) ==
    /\ \A k \in Range(fileData[t]) : Arrived(t, k)
    /\ file[t] # <<>> => Arrived(t, Size[t])

\* What was dropped was counted, elsewhere than at the destination, with the
\* last TTL there is.
DroppedLate(t) ==
    expired[t] # {} =>
        \E m \in Routers, k \in Nat :
            <<1, k>> \in stats[m][t] /\ (m = Dest[t] => InitTTL[t] = 1)

\* While one packet of a file waits at its origin or was counted there, each
\* does or was; the answer comes with the last.
AllSent(t) ==
    /\ \A n \in Routers : Seen(n, t, InitTTL[t]) =>
           \A k \in 1 .. Size[t] :
               \/ Counted(t, InitTTL[t], k)
               \/ \E c \in Chunks(Origin[t], t) : c.own /\ c.pkt.seq = k
    /\ answers[t] <= 1
    /\ answers[t] = 1 => Counted(t, InitTTL[t], Size[t])

Flow(t) ==
    /\ NothingBefore(t)
    /\ WellFormed(t)
    /\ OnePath(t)
    /\ PathPinned(t)
    /\ InFlight(t)
    /\ OwnChunks(t)
    /\ NoShortcut(t)
    /\ QueuedLater(t)
    /\ SentLater(t)
    /\ InSequence(t)
    /\ StoredArrived(t)
    /\ DroppedLate(t)
    /\ AllSent(t)

\* The sets the variables are in; the rest of TypeOK is a part of Flow.
Types ==
    /\ requested \subseteq Transfers
    /\ route \in [Routers -> [Routers -> Routers \cup {NoHop}]]
    /\ connected \in [Routers -> SUBSET Routers]
    /\ pin \in [Routers -> [Transfers -> Routers \cup {NoHop}]]
    /\ queue \in [Routers -> [Transfers -> Seq(Chunk)]]
    /\ stats \in [Routers -> [Transfers -> SUBSET ((0 .. MaxTTL) \X Nat)]]
    /\ writable \in [Routers -> SUBSET Routers]
    /\ tcp \in [Routers -> [Routers -> Seq(Packet)]]
    /\ fileData \in [Transfers -> Seq(Nat)]
    /\ file \in [Transfers -> Seq(Nat)]
    /\ answers \in [Transfers -> Nat]
    /\ expired \in [Transfers -> SUBSET Nat]
    /\ down \subseteq Routers
    /\ reroutes \in 0 .. MaxReroutes

FlowInv == Types /\ \A t \in Transfers : Flow(t)

-------------------------------------------------------------------------------
(***************************************************************************)
(* Sequences, and TTLs.                                                    *)
(***************************************************************************)

\* Without its head a sequence has no more elements than before, in the order
\* they had, and all of them came after the head.
LEMMA TailView ==
    ASSUME NEW S, NEW s \in Seq(S), s # <<>>
    PROVE  /\ Head(s) \in Range(s) /\ Head(s) \in S
           /\ Tail(s) \in Seq(S)
           /\ Range(Tail(s)) \subseteq Range(s)
           /\ Range(s) \subseteq Range(Tail(s)) \cup {Head(s)}
           /\ \A a, b : Precedes(Tail(s), a, b) => Precedes(s, a, b)
           /\ \A b \in Range(Tail(s)) : Precedes(s, Head(s), b)
<1>1. /\ Head(s) \in S /\ Tail(s) \in Seq(S) /\ Len(Tail(s)) = Len(s) - 1
      /\ \A i \in 1 .. Len(Tail(s)) : Tail(s)[i] = s[i + 1]
    BY HeadTailProperties
<1>2. Len(s) \in Nat /\ DOMAIN s = 1 .. Len(s) /\ Len(s) # 0
    BY LenProperties, EmptySeq
<1>3. DOMAIN Tail(s) = 1 .. Len(s) - 1
    BY <1>1, LenProperties
<1>4. Head(s) = s[1]
    BY <1>2
<1>5. \A i \in DOMAIN Tail(s) : i + 1 \in DOMAIN s /\ Tail(s)[i] = s[i + 1]
    BY <1>1, <1>2, <1>3
<1>6. \A i \in DOMAIN s : i = 1 \/ (i - 1 \in DOMAIN Tail(s) /\ Tail(s)[i - 1] = s[i])
    BY <1>1, <1>2, <1>3
<1>7. Range(Tail(s)) \subseteq Range(s) /\ Head(s) \in Range(s)
    BY <1>2, <1>4, <1>5 DEF Range
<1>8. Range(s) \subseteq Range(Tail(s)) \cup {Head(s)}
    BY <1>4, <1>6 DEF Range
<1>9. \A a, b : Precedes(Tail(s), a, b) => Precedes(s, a, b)
    <2> SUFFICES ASSUME NEW i \in DOMAIN Tail(s), NEW j \in DOMAIN Tail(s), i < j
                 PROVE  Precedes(s, Tail(s)[i], Tail(s)[j])
        BY DEF Precedes
    <2>1. i + 1 \in DOMAIN s /\ j + 1 \in DOMAIN s /\ i + 1 < j + 1
        BY <1>1, <1>2, <1>3, <1>5
    <2> QED BY <1>5, <2>1 DEF Precedes
<1>10. \A b \in Range(Tail(s)) : Precedes(s, Head(s), b)
    <2> SUFFICES ASSUME NEW j \in DOMAIN Tail(s)
                 PROVE  Precedes(s, Head(s), Tail(s)[j])
        BY DEF Range
    <2>1. 1 \in DOMAIN s /\ j + 1 \in DOMAIN s /\ 1 < j + 1
        BY <1>1, <1>2, <1>3, <1>5
    <2> QED BY <1>4, <1>5, <2>1 DEF Precedes
<1> QED BY <1>1, <1>7, <1>8, <1>9, <1>10

\* What is appended comes after what was there.
LEMMA ConcatView ==
    ASSUME NEW S, NEW s \in Seq(S), NEW u \in Seq(S)
    PROVE  /\ s \o u \in Seq(S)
           /\ Range(s \o u) = Range(s) \cup Range(u)
           /\ \A a, b : Precedes(s \o u, a, b) =>
                  \/ Precedes(s, a, b)
                  \/ Precedes(u, a, b)
                  \/ a \in Range(s) /\ b \in Range(u)
<1> DEFINE v == s \o u
<1>1. /\ v \in Seq(S) /\ Len(v) = Len(s) + Len(u)
      /\ \A i \in 1 .. Len(s) + Len(u) : v[i] = IF i <= Len(s) THEN s[i] ELSE u[i - Len(s)]
    BY ConcatProperties
<1>2. /\ Len(s) \in Nat /\ Len(u) \in Nat
      /\ DOMAIN s = 1 .. Len(s) /\ DOMAIN u = 1 .. Len(u)
    BY LenProperties
<1>3. DOMAIN v = 1 .. Len(s) + Len(u)
    BY <1>1, LenProperties
<1> HIDE DEF v
<1>4. \A i \in DOMAIN v : \/ i \in DOMAIN s /\ v[i] = s[i]
                          \/ i > Len(s) /\ i - Len(s) \in DOMAIN u /\ v[i] = u[i - Len(s)]
    BY <1>1, <1>2, <1>3
<1>5. Range(v) = Range(s) \cup Range(u)
    BY RangeConcatenation DEF v
<1>6. \A a, b : Precedes(v, a, b) =>
          \/ Precedes(s, a, b) \/ Precedes(u, a, b) \/ (a \in Range(s) /\ b \in Range(u))
    <2> SUFFICES ASSUME NEW i \in DOMAIN v, NEW j \in DOMAIN v, i < j
                 PROVE  \/ Precedes(s, v[i], v[j]) \/ Precedes(u, v[i], v[j])
                        \/ (v[i] \in Range(s) /\ v[j] \in Range(u))
        BY DEF Precedes
    <2>1. i \in Nat /\ j \in Nat
        BY <1>2, <1>3
    <2>2. CASE j \in DOMAIN s /\ v[j] = s[j]
        <3>1. i \in DOMAIN s /\ v[i] = s[i]
            BY <1>2, <1>4, <2>1, <2>2
        <3> QED BY <2>2, <3>1 DEF Precedes
    <2>3. CASE j > Len(s) /\ j - Len(s) \in DOMAIN u /\ v[j] = u[j - Len(s)]
        <3>1. CASE i \in DOMAIN s /\ v[i] = s[i]
            BY <2>3, <3>1 DEF Range
        <3>2. CASE i > Len(s) /\ i - Len(s) \in DOMAIN u /\ v[i] = u[i - Len(s)]
            <4>1. i - Len(s) < j - Len(s)
                BY <1>2, <2>1
            <4> QED BY <2>3, <3>2, <4>1 DEF Precedes
        <3> QED BY <1>4, <3>1, <3>2
    <2> QED BY <1>4, <2>2, <2>3
<1> QED BY <1>1, <1>5, <1>6 DEF v

\* A TTL tells how many hops a packet has come.
LEMMA HopFacts ==
    ASSUME NEW t \in Transfers
    PROVE  /\ InitTTL[t] \in Live(t) /\ Live(t) \subseteq 0 .. MaxTTL
           /\ \A x \in Live(t) : Hops(t, x) \in Nat
           /\ \A x \in Live(t) : Hops(t, x) = 0 <=> x = InitTTL[t]
           /\ \A x, y \in Live(t) : Hops(t, x) = Hops(t, y) => x = y
           /\ \A x \in Live(t) : Decremented(x) # 0 =>
                  Decremented(x) \in Live(t) /\ Hops(t, Decremented(x)) = Hops(t, x) + 1
           /\ \A x \in Live(t) : Decremented(x) = 0 => x = 1
           /\ \A x \in Live(t) : 1 \in Live(t) /\ Hops(t, x) <= Hops(t, 1)
           /\ \A x \in Live(t) : x # InitTTL[t] =>
                  /\ (x + 1) % (MaxTTL + 1) \in Live(t)
                  /\ Hops(t, (x + 1) % (MaxTTL + 1)) = Hops(t, x) - 1
<1>1. InitTTL[t] \in 0 .. MaxTTL /\ MaxTTL \in Nat /\ MaxTTL >= 1
    BY TransfersAssumption, DataBoundsAssumption
<1>2. CASE InitTTL[t] = 0
    <2>1. ASSUME NEW x \in Live(t), x # InitTTL[t]
          PROVE  /\ (x + 1) % (MaxTTL + 1) \in Live(t)
                 /\ Hops(t, (x + 1) % (MaxTTL + 1)) = Hops(t, x) - 1
        <3>1. x \in 1 .. MaxTTL
            BY <1>1, <1>2, <2>1 DEF Live
        <3>2. CASE x = MaxTTL
            <4>1. (x + 1) % (MaxTTL + 1) = 0
                BY <1>1, <3>2
            <4> QED BY <1>1, <1>2, <3>2, <4>1 DEF Live, Hops
        <3>3. CASE x < MaxTTL
            <4>1. (x + 1) % (MaxTTL + 1) = x + 1
                BY <1>1, <3>1, <3>3
            <4> QED BY <1>1, <1>2, <3>1, <3>3, <4>1 DEF Live, Hops
        <3> QED BY <1>1, <3>1, <3>2, <3>3
    <2> QED BY <1>1, <1>2, <2>1 DEF Live, Hops, Decremented
<1>3. CASE InitTTL[t] # 0
    <2>1. ASSUME NEW x \in Live(t), x # InitTTL[t]
          PROVE  (x + 1) % (MaxTTL + 1) = x + 1
        BY <1>1, <1>3, <2>1 DEF Live
    <2> QED BY <1>1, <1>3, <2>1 DEF Live, Hops, Decremented
<1> QED BY <1>2, <1>3

-------------------------------------------------------------------------------
(***************************************************************************)
(* What a step means for one transfer.                                     *)
(***************************************************************************)

\* A key keeps its next hop.
PinsStay(t) == \A n \in Routers : pin[n][t] # NoHop => pin'[n][t] = pin[n][t]

\* Packets are read or lost, and none is added.
PacketsLeave(t) ==
    \A m, n \in Routers :
        /\ Packets(m, n, t)' \subseteq Packets(m, n, t)
        /\ \A p, r \in Packets(m, n, t)' :
               Precedes(tcp'[m][n], p, r) => Precedes(tcp[m][n], p, r)

\* Nothing but that happens to t.
Quiet(t) ==
    /\ requested \subseteq requested'
    /\ PinsStay(t) /\ PacketsLeave(t)
    /\ \A n \in Routers : queue'[n][t] = queue[n][t] /\ stats'[n][t] = stats[n][t]
    /\ UNCHANGED <<fileData[t], file[t], answers[t]>>

\* Packets are lost, and q may be added after those from n to h.
Sends(n, h, t, q) ==
    \A k, l \in Routers :
        /\ \A p \in Packets(k, l, t)' : p \in Packets(k, l, t) \/ (k = n /\ l = h /\ p = q)
        /\ \A p, r \in Packets(k, l, t)' : Precedes(tcp'[k][l], p, r) =>
               \/ p \in Packets(k, l, t) /\ r \in Packets(k, l, t) /\ Precedes(tcp[k][l], p, r)
               \/ k = n /\ l = h /\ p \in Packets(n, h, t) /\ r = q

\* n takes chunk c of t from its queue, counts it, and writes it to h, if that
\* takes it.
Takes(n, h, t, c) ==
    /\ requested' = requested /\ t \in requested
    /\ PinsStay(t) /\ pin[n][t] = h
    /\ c \in Chunks(n, t)
    /\ \A l \in Routers :
          /\ Chunks(l, t)' \subseteq Chunks(l, t)
          /\ \A d \in Chunks(l, t) : d \in Chunks(l, t)' \/ (l = n /\ d = c)
          /\ \A a, b \in Chunks(l, t)' :
                 Precedes(queue'[l][t], a, b) => Precedes(queue[l][t], a, b)
          /\ stats'[l][t] = IF l = n THEN stats[n][t] \cup {<<c.pkt.ttl, c.pkt.seq>>} ELSE stats[l][t]
    /\ \A d \in Chunks(n, t)' : Precedes(queue[n][t], c, d)
    /\ Sends(n, h, t, c.pkt)
    /\ UNCHANGED <<fileData[t], file[t], expired[t]>>
    /\ answers'[t] = IF Answers(c) THEN answers[t] + 1 ELSE answers[t]

\* n reads p of t from m, the first that was under way.
Reads(m, n, t, p) ==
    /\ requested' = requested
    /\ PinsStay(t) /\ PacketsLeave(t)
    /\ p \in Packets(m, n, t)
    /\ \A r \in Packets(m, n, t)' : Precedes(tcp[m][n], p, r)
    /\ Decremented(p.ttl) # 0
    /\ UNCHANGED answers[t]

\* What n queues when it passes p on.
Passed(p) == [pkt |-> [p EXCEPT !.ttl = Decremented(p.ttl)], own |-> FALSE]

\* It passes p on.
Forwards(m, n, t, p) ==
    /\ Reads(m, n, t, p)
    /\ n # Dest[t]
    /\ \A l \in Routers :
          /\ \A d \in Chunks(l, t)' : d \in Chunks(l, t) \/ (l = n /\ d = Passed(p))
          /\ Chunks(l, t) \subseteq Chunks(l, t)'
          /\ \A a, b \in Chunks(l, t)' : Precedes(queue'[l][t], a, b) =>
                 \/ a \in Chunks(l, t) /\ b \in Chunks(l, t) /\ Precedes(queue[l][t], a, b)
                 \/ l = n /\ a \in Chunks(n, t) /\ b = Passed(p)
          /\ stats'[l][t] = stats[l][t]
    /\ UNCHANGED <<fileData[t], file[t], expired[t]>>

\* It is the destination, and stores p.
Stores(m, n, t, p) ==
    /\ Reads(m, n, t, p)
    /\ n = Dest[t]
    /\ \A l \in Routers :
          /\ queue'[l][t] = queue[l][t]
          /\ stats'[l][t] = IF l = n THEN stats[n][t] \cup {<<Decremented(p.ttl), p.seq>>} ELSE stats[l][t]
    /\ \A k \in Range(fileData'[t]) : k \in Range(fileData[t]) \/ k = p.seq
    /\ file'[t] # <<>> => file[t] # <<>> \/ p.seq = Size[t]
    /\ UNCHANGED expired[t]

\* The file of t is packetised into an empty queue.
Starts(t) ==
    LET n == Origin[t]
    IN  /\ t \notin requested /\ requested' = requested \cup {t}
        /\ PinsStay(t) /\ PacketsLeave(t)
        /\ \A l \in Routers :
              /\ l # n => queue'[l][t] = queue[l][t]
              /\ stats'[l][t] = stats[l][t]
        /\ \A c \in Chunks(n, t)' :
              /\ c.own /\ c.pkt.id = t /\ c.pkt.ttl = InitTTL[t] /\ c.pkt.seq \in 1 .. Size[t]
        /\ \A k \in 1 .. Size[t] : \E c \in Chunks(n, t)' : c.own /\ c.pkt.seq = k
        /\ \A c, d \in Chunks(n, t)' : Precedes(queue'[n][t], c, d) => c.pkt.seq < d.pkt.seq
        /\ UNCHANGED <<fileData[t], file[t], expired[t], answers[t]>>

\* What happens elsewhere, and losses, keep what is known of t.
LEMMA QuietKeeps ==
    ASSUME NEW t \in Transfers, Flow(t), Quiet(t),
           expired'[t] # {} => \E m \in Routers, k \in Nat :
               <<1, k>> \in stats[m][t] /\ (m = Dest[t] => InitTTL[t] = 1)
    PROVE  Flow(t)'
<1>1. \A n \in Routers : Chunks(n, t)' = Chunks(n, t)
    BY DEF Quiet, Chunks
<1>2. /\ \A n \in Routers, x \in Live(t) : Seen(n, t, x)' <=> Seen(n, t, x)
      /\ \A x \in Live(t), k \in Nat : Counted(t, x, k)' <=> Counted(t, x, k)
    BY <1>1 DEF Quiet, Seen, Counted
<1>3. \A m, n \in Routers : pin[m][t] = n => pin'[m][t] = n
    BY HopAssumption DEF Quiet, PinsStay
<1>4. NothingBefore(t)'
    BY <1>1 DEF Flow, NothingBefore, Quiet, PacketsLeave
<1>5. WellFormed(t)' /\ OnePath(t)'
    BY <1>1, <1>2 DEF Flow, WellFormed, OnePath, Quiet
<1>6. PathPinned(t)'
    <2> SUFFICES ASSUME NEW n \in Routers, NEW x \in Live(t), Seen(n, t, x),
                        ~(x = InitTTL[t] /\ n = Origin[t])
                 PROVE  \E m \in Routers, y \in Live(t), k \in Nat :
                           /\ <<y, k>> \in stats'[m][t] /\ pin'[m][t] = n
                           /\ Hops(t, x) = Hops(t, y) + 1
                           /\ m = Dest[t] => y = InitTTL[t]
        BY <1>2 DEF PathPinned
    <2> QED BY <1>3 DEF Flow, PathPinned, Quiet
<1>7. InFlight(t)'
    <2> SUFFICES ASSUME NEW m \in Routers, NEW n \in Routers, NEW p \in Packets(m, n, t)'
                 PROVE  /\ <<p.ttl, p.seq>> \in stats'[m][t] /\ pin'[m][t] = n
                        /\ m = Dest[t] => p.ttl = InitTTL[t]
        BY DEF InFlight
    <2>1. p \in Packets(m, n, t)
        BY DEF Quiet, PacketsLeave
    <2>2. stats'[m][t] = stats[m][t]
        BY DEF Quiet
    <2> QED BY <1>3, <2>1, <2>2 DEF Flow, InFlight
<1>8. OwnChunks(t)' /\ NoShortcut(t)' /\ QueuedLater(t)'
    BY <1>1, <1>2 DEF Flow, OwnChunks, NoShortcut, QueuedLater, WellFormed
<1>9. SentLater(t)'
    BY <1>1, <1>2 DEF Flow, SentLater, Quiet, PacketsLeave
<1>10. InSequence(t)'
    BY <1>1 DEF Flow, InSequence, Quiet, PacketsLeave
<1>11. StoredArrived(t)'
    BY TransfersAssumption DEF Flow, StoredArrived, Arrived, Quiet
<1>12. DroppedLate(t)'
    BY DEF DroppedLate, Quiet
<1>13. AllSent(t)'
    BY <1>1, <1>2, HopFacts, TransfersAssumption DEF Flow, AllSent, Quiet
<1> QED BY <1>4, <1>5, <1>6, <1>7, <1>8, <1>9, <1>10, <1>11, <1>12, <1>13 DEF Flow

-------------------------------------------------------------------------------
(***************************************************************************)
(* What the induction says of any two copies of packets of a transfer.     *)
(***************************************************************************)

LEMMA FlowTypes ==
    ASSUME NEW t \in Transfers, Flow(t)
    PROVE  /\ \A n \in Routers : \A c \in Chunks(n, t) :
                  /\ c.pkt.ttl \in Live(t) /\ c.pkt.seq \in Nat
                  /\ Seen(n, t, c.pkt.ttl)
           /\ \A m, n \in Routers : \A p \in Packets(m, n, t) :
                  /\ p.ttl \in Live(t) /\ p.seq \in 1 .. Size[t] /\ p.seq \in Nat
                  /\ Counted(t, p.ttl, p.seq) /\ Seen(m, t, p.ttl)
           /\ \A n \in Routers : \A x, k : <<x, k>> \in stats[n][t] =>
                  x \in Live(t) /\ k \in 1 .. Size[t] /\ k \in Nat /\ Seen(n, t, x)
           /\ \A x, k : Counted(t, x, k) => x \in Live(t) /\ k \in 1 .. Size[t] /\ k \in Nat
<1>1. Size[t] \in Nat
    BY TransfersAssumption
<1>2. \A n \in Routers : \A x, k : <<x, k>> \in stats[n][t] =>
          x \in Live(t) /\ k \in 1 .. Size[t] /\ k \in Nat /\ Seen(n, t, x)
    <2> SUFFICES ASSUME NEW n \in Routers, NEW x, NEW k, <<x, k>> \in stats[n][t]
                 PROVE  x \in Live(t) /\ k \in 1 .. Size[t] /\ k \in Nat /\ Seen(n, t, x)
        OBVIOUS
    <2>1. <<x, k>>[1] \in Live(t) /\ <<x, k>>[2] \in 1 .. Size[t]
        BY DEF Flow, WellFormed
    <2> QED BY <1>1, <2>1 DEF Seen
<1>3. \A n \in Routers : \A c \in Chunks(n, t) :
          c.pkt.ttl \in Live(t) /\ c.pkt.seq \in Nat /\ Seen(n, t, c.pkt.ttl)
    BY <1>1 DEF Flow, WellFormed, Seen
<1>4. \A m, n \in Routers : \A p \in Packets(m, n, t) : <<p.ttl, p.seq>> \in stats[m][t]
    BY DEF Flow, InFlight
<1> QED BY <1>2, <1>3, <1>4 DEF Counted

\* Two copies that have come equally far are at one router, or on one connection;
\* and of two that have not, the one further on has the smaller number.
LEMMA TwoCopies ==
    ASSUME NEW t \in Transfers, Flow(t)
    PROVE  /\ \A n, l \in Routers : \A c \in Chunks(n, t), d \in Chunks(l, t) :
                  Hops(t, d.pkt.ttl) > Hops(t, c.pkt.ttl) => d.pkt.seq < c.pkt.seq
           /\ \A m, n, l \in Routers : \A p \in Packets(m, n, t), c \in Chunks(l, t) :
                  Hops(t, c.pkt.ttl) <= Hops(t, p.ttl) => p.seq < c.pkt.seq
           /\ \A m, n, k, l \in Routers : \A p \in Packets(m, n, t), r \in Packets(k, l, t) :
                  /\ Hops(t, p.ttl) > Hops(t, r.ttl) => p.seq < r.seq
                  /\ p.ttl = r.ttl => m = k /\ n = l
<1>1. \A n, l \in Routers : \A c \in Chunks(n, t), d \in Chunks(l, t) :
          Hops(t, d.pkt.ttl) > Hops(t, c.pkt.ttl) => d.pkt.seq < c.pkt.seq
    <2> SUFFICES ASSUME NEW n \in Routers, NEW l \in Routers,
                        NEW c \in Chunks(n, t), NEW d \in Chunks(l, t),
                        Hops(t, d.pkt.ttl) > Hops(t, c.pkt.ttl)
                 PROVE  d.pkt.seq < c.pkt.seq
        OBVIOUS
    <2>1. /\ c.pkt.ttl \in Live(t) /\ d.pkt.ttl \in Live(t) /\ d.pkt.seq \in Nat
          /\ Hops(t, c.pkt.ttl) \in Nat /\ Hops(t, d.pkt.ttl) \in Nat
        BY FlowTypes, HopFacts
    <2>2. Counted(t, c.pkt.ttl, d.pkt.seq)
        BY <2>1 DEF Flow, NoShortcut
    <2> QED BY <2>1, <2>2 DEF Flow, QueuedLater
<1>2. \A m, n, l \in Routers : \A p \in Packets(m, n, t), c \in Chunks(l, t) :
          Hops(t, c.pkt.ttl) <= Hops(t, p.ttl) => p.seq < c.pkt.seq
    <2> SUFFICES ASSUME NEW m \in Routers, NEW n \in Routers, NEW l \in Routers,
                        NEW p \in Packets(m, n, t), NEW c \in Chunks(l, t),
                        Hops(t, c.pkt.ttl) <= Hops(t, p.ttl)
                 PROVE  p.seq < c.pkt.seq
        OBVIOUS
    <2>1. /\ c.pkt.ttl \in Live(t) /\ p.ttl \in Live(t) /\ p.seq \in Nat /\ Counted(t, p.ttl, p.seq)
          /\ Hops(t, c.pkt.ttl) \in Nat /\ Hops(t, p.ttl) \in Nat
        BY FlowTypes, HopFacts
    <2> QED BY <2>1 DEF Flow, QueuedLater
<1>3. \A m, n, k, l \in Routers : \A p \in Packets(m, n, t), r \in Packets(k, l, t) :
          /\ Hops(t, p.ttl) > Hops(t, r.ttl) => p.seq < r.seq
          /\ p.ttl = r.ttl => m = k /\ n = l
    <2> SUFFICES ASSUME NEW m \in Routers, NEW n \in Routers, NEW k \in Routers, NEW l \in Routers,
                        NEW p \in Packets(m, n, t), NEW r \in Packets(k, l, t)
                 PROVE  /\ Hops(t, p.ttl) > Hops(t, r.ttl) => p.seq < r.seq
                        /\ p.ttl = r.ttl => m = k /\ n = l
        OBVIOUS
    <2>1. p.ttl \in Live(t) /\ p.seq \in Nat /\ Counted(t, p.ttl, p.seq)
        BY FlowTypes
    <2>2. Hops(t, p.ttl) > Hops(t, r.ttl) => p.seq < r.seq
        BY <2>1 DEF Flow, SentLater
    <2>3. p.ttl = r.ttl => m = k
        <3>1. Seen(m, t, p.ttl) /\ Seen(k, t, r.ttl)
            BY FlowTypes
        <3> QED BY <2>1, <3>1 DEF Flow, OnePath
    <2>4. pin[m][t] = n /\ pin[k][t] = l
        BY DEF Flow, InFlight
    <2> QED BY <2>2, <2>3, <2>4
<1> QED BY <1>1, <1>2, <1>3

\* The hop a packet is under way to is at the router it is under way to.
LEMMA NextHop ==
    ASSUME NEW t \in Transfers, Flow(t), NEW m \in Routers, NEW n \in Routers,
           NEW p \in Packets(m, n, t), Decremented(p.ttl) # 0,
           NEW l \in Routers, Seen(l, t, Decremented(p.ttl))
    PROVE  l = n
<1> DEFINE x == Decremented(p.ttl)
<1>1. /\ p.ttl \in Live(t) /\ p.seq \in Nat /\ x \in Live(t)
      /\ Hops(t, x) = Hops(t, p.ttl) + 1 /\ Hops(t, p.ttl) \in Nat
    BY FlowTypes, HopFacts
<1>2. x # InitTTL[t]
    BY <1>1, HopFacts
<1> HIDE DEF x
<1>3. PICK k \in Routers, y \in Live(t), j \in Nat :
          <<y, j>> \in stats[k][t] /\ pin[k][t] = l /\ Hops(t, x) = Hops(t, y) + 1
    BY <1>1, <1>2 DEF Flow, PathPinned, x
<1>4. y = p.ttl
    <2>1. Hops(t, y) \in Nat
        BY <1>3, HopFacts
    <2>2. Hops(t, y) = Hops(t, p.ttl)
        BY <1>1, <1>3, <2>1
    <2> QED BY <1>1, <1>3, <2>2, HopFacts
<1>5. k = m
    BY <1>1, <1>3, <1>4, FlowTypes DEF Flow, OnePath
<1> QED BY <1>3, <1>5 DEF Flow, InFlight

\* Nothing is beyond what the destination has stored.
LEMMA PathEnds ==
    ASSUME NEW t \in Transfers, Flow(t), NEW x \in Live(t), x # InitTTL[t], NEW k,
           <<x, k>> \in stats[Dest[t]][t]
    PROVE  /\ \A y \in Live(t) : \A j : Counted(t, y, j) => Hops(t, y) <= Hops(t, x)
           /\ \A m, n \in Routers : \A p \in Packets(m, n, t) : Hops(t, p.ttl) < Hops(t, x)
<1>1. Dest[t] \in Routers
    BY TransfersAssumption
<1>2. ASSUME NEW y \in Live(t), NEW j, Counted(t, y, j), Hops(t, y) > Hops(t, x)
      PROVE  FALSE
    <2> DEFINE z == Decremented(x)
    <2>1. Hops(t, x) \in Nat /\ Hops(t, y) \in Nat /\ j \in Nat
        BY <1>2, HopFacts, FlowTypes
    <2>2. z # 0
        BY <1>2, <2>1, HopFacts
    <2>3. z \in Live(t) /\ Hops(t, z) = Hops(t, x) + 1
        BY <2>2, HopFacts
    <2> HIDE DEF z
    <2>4. Counted(t, z, j)
        <3>1. CASE Hops(t, z) = Hops(t, y)
            <4>1. z = y
                BY <2>3, <3>1, HopFacts
            <4> QED BY <1>2, <4>1
        <3>2. CASE Hops(t, z) < Hops(t, y)
            BY <1>2, <2>1, <2>3, <3>2 DEF Flow, NoShortcut
        <3> QED BY <1>2, <2>1, <2>3, <3>1, <3>2
    <2>5. PICK n \in Routers : <<z, j>> \in stats[n][t]
        BY <2>4 DEF Counted
    <2>6. Seen(n, t, z) /\ z # InitTTL[t]
        BY <2>1, <2>3, <2>5, FlowTypes, HopFacts
    <2>7. PICK m \in Routers, w \in Live(t), i \in Nat :
              /\ <<w, i>> \in stats[m][t] /\ Hops(t, z) = Hops(t, w) + 1
              /\ m = Dest[t] => w = InitTTL[t]
        BY <2>3, <2>6 DEF Flow, PathPinned
    <2>8. w = x
        <3>1. Hops(t, w) \in Nat
            BY <2>7, HopFacts
        <3>2. Hops(t, w) = Hops(t, x)
            BY <2>1, <2>3, <2>7, <3>1
        <3> QED BY <2>7, <3>2, HopFacts
    <2>9. m = Dest[t]
        BY <1>1, <2>7, <2>8, FlowTypes DEF Flow, OnePath
    <2> QED BY <2>7, <2>8, <2>9
<1>3. \A y \in Live(t) : \A j : Counted(t, y, j) => Hops(t, y) <= Hops(t, x)
    <2>1. \A y \in Live(t) : Hops(t, y) \in Nat /\ Hops(t, x) \in Nat
        BY HopFacts
    <2> QED BY <1>2, <2>1
<1>4. ASSUME NEW m \in Routers, NEW n \in Routers, NEW p \in Packets(m, n, t)
      PROVE  Hops(t, p.ttl) < Hops(t, x)
    <2>1. /\ p.ttl \in Live(t) /\ Counted(t, p.ttl, p.seq) /\ Seen(m, t, p.ttl)
          /\ Hops(t, p.ttl) \in Nat /\ Hops(t, x) \in Nat
        BY FlowTypes, HopFacts
    <2>2. Hops(t, p.ttl) <= Hops(t, x)
        BY <1>3, <2>1
    <2>3. p.ttl # x
        <3> SUFFICES ASSUME p.ttl = x
                     PROVE  FALSE
            OBVIOUS
        <3>1. Seen(Dest[t], t, x)
            BY <1>1, FlowTypes
        <3>2. m = Dest[t]
            BY <1>1, <2>1, <3>1 DEF Flow, OnePath
        <3> QED BY <3>2 DEF Flow, InFlight
    <2>4. Hops(t, p.ttl) # Hops(t, x)
        BY <2>1, <2>3, HopFacts
    <2> QED BY <2>1, <2>2, <2>4
<1> QED BY <1>3, <1>4

-------------------------------------------------------------------------------
(***************************************************************************)
(* Each way a step can concern a transfer keeps the induction.             *)
(***************************************************************************)

LEMMA TakesKeeps ==
    ASSUME NEW t \in Transfers, Flow(t), answers[t] \in Nat,
           NEW n \in Routers, NEW h \in Routers, NEW c, Takes(n, h, t, c)
    PROVE  Flow(t)'
<1> DEFINE x == c.pkt.ttl
           s == c.pkt.seq
<1>1. /\ c \in Chunks(n, t) /\ c.pkt.id = t /\ x \in Live(t) /\ s \in 1 .. Size[t] /\ s \in Nat
      /\ Hops(t, x) \in Nat /\ Size[t] \in Nat
    <2>1. c \in Chunks(n, t) /\ Size[t] \in Nat
        BY TransfersAssumption DEF Takes
    <2> QED BY <2>1, FlowTypes, HopFacts DEF Flow, WellFormed
<1>2. /\ \A l \in Routers : stats[l][t] \subseteq stats'[l][t]
      /\ \A l \in Routers : \A e \in stats'[l][t] : e \in stats[l][t] \/ (l = n /\ e = <<x, s>>)
      /\ <<x, s>> \in stats'[n][t]
    BY DEF Takes
<1>3. /\ \A l \in Routers : Chunks(l, t)' \subseteq Chunks(l, t)
      /\ \A l \in Routers : \A d \in Chunks(l, t) : d \in Chunks(l, t)' \/ (l = n /\ d = c)
    BY DEF Takes
<1>4. \A y, k : Counted(t, y, k)' <=> Counted(t, y, k) \/ (y = x /\ k = s)
    BY <1>2 DEF Counted
<1>5. \A l \in Routers, y \in Live(t) : Seen(l, t, y)' => Seen(l, t, y)
    BY <1>1, <1>2, <1>3 DEF Seen
<1>6. \A m, l \in Routers : pin[m][t] = l => pin'[m][t] = l
    BY HopAssumption DEF Takes, PinsStay
<1>7. \A d \in Chunks(n, t)' : d.pkt.ttl = x => s < d.pkt.seq
    BY <1>1, <1>3 DEF Takes, Flow, InSequence
<1>8. Seen(n, t, x)
    BY <1>1 DEF Seen
<1>9. \A k, l \in Routers : \A p \in Packets(k, l, t)' :
          p \in Packets(k, l, t) \/ (k = n /\ l = h /\ p = c.pkt)
    BY DEF Takes, Sends
<1> HIDE DEF x, s
<1>10. NothingBefore(t)'
    BY DEF NothingBefore, Takes
<1>11. WellFormed(t)'
    <2> SUFFICES ASSUME NEW l \in Routers
                 PROVE  /\ \A d \in Chunks(l, t)' :
                              d.pkt.id = t /\ d.pkt.ttl \in Live(t) /\ d.pkt.seq \in 1 .. Size[t]
                        /\ \A e \in stats'[l][t] : e[1] \in Live(t) /\ e[2] \in 1 .. Size[t]
        BY DEF WellFormed
    <2>1. \A d \in Chunks(l, t)' : d.pkt.id = t /\ d.pkt.ttl \in Live(t) /\ d.pkt.seq \in 1 .. Size[t]
        BY <1>3 DEF Flow, WellFormed
    <2>2. ASSUME NEW e \in stats'[l][t]
          PROVE  e[1] \in Live(t) /\ e[2] \in 1 .. Size[t]
        <3>1. CASE e \in stats[l][t]
            BY <3>1 DEF Flow, WellFormed
        <3>2. CASE e = <<x, s>>
            BY <1>1, <3>2 DEF x, s
        <3> QED BY <1>2, <3>1, <3>2
    <2> QED BY <2>1, <2>2
<1>12. OnePath(t)'
    BY <1>5 DEF Flow, OnePath
<1>13. PathPinned(t)'
    <2> SUFFICES ASSUME NEW l \in Routers, NEW y \in Live(t), Seen(l, t, y),
                        ~(y = InitTTL[t] /\ l = Origin[t])
                 PROVE  \E m \in Routers, z \in Live(t), k \in Nat :
                           /\ <<z, k>> \in stats'[m][t] /\ pin'[m][t] = l
                           /\ Hops(t, y) = Hops(t, z) + 1
                           /\ m = Dest[t] => z = InitTTL[t]
        BY <1>5 DEF PathPinned
    <2> QED BY <1>2, <1>6 DEF Flow, PathPinned
<1>14. InFlight(t)'
    <2> SUFFICES ASSUME NEW k \in Routers, NEW l \in Routers, NEW p \in Packets(k, l, t)'
                 PROVE  /\ <<p.ttl, p.seq>> \in stats'[k][t] /\ pin'[k][t] = l
                        /\ k = Dest[t] => p.ttl = InitTTL[t]
        BY DEF InFlight
    <2>1. CASE p \in Packets(k, l, t)
        BY <1>2, <1>6, <2>1 DEF Flow, InFlight
    <2>2. CASE k = n /\ l = h /\ p = c.pkt
        <3>1. pin'[n][t] = h
            BY <1>6 DEF Takes
        <3>2. n = Dest[t] => x = InitTTL[t]
            BY <1>1 DEF Flow, OwnChunks, x
        <3> QED BY <1>2, <2>2, <3>1, <3>2 DEF x, s
    <2> QED BY <1>9, <2>1, <2>2
<1>15. OwnChunks(t)'
    BY <1>3 DEF Flow, OwnChunks
<1>16. NoShortcut(t)'
    <2>1. \A l \in Routers : \A d \in Chunks(l, t)', y \in Live(t) :
              Hops(t, y) < Hops(t, d.pkt.ttl) => Counted(t, y, d.pkt.seq)'
        BY <1>3, <1>4 DEF Flow, NoShortcut
    <2>2. ASSUME NEW z \in Live(t), NEW y \in Live(t), NEW k \in Nat,
                 Counted(t, z, k)', Hops(t, y) < Hops(t, z)
          PROVE  Counted(t, y, k)
        <3>1. CASE Counted(t, z, k)
            BY <2>2, <3>1 DEF Flow, NoShortcut
        <3>2. CASE z = x /\ k = s
            BY <1>1, <2>2, <3>2 DEF Flow, NoShortcut, x, s
        <3> QED BY <1>4, <2>2, <3>1, <3>2
    <2> QED BY <1>4, <2>1, <2>2 DEF NoShortcut
<1>17. QueuedLater(t)'
    <2> SUFFICES ASSUME NEW l \in Routers, NEW d \in Chunks(l, t)', NEW y \in Live(t), NEW k \in Nat,
                        Counted(t, y, k)', Hops(t, y) >= Hops(t, d.pkt.ttl)
                 PROVE  k < d.pkt.seq
        BY DEF QueuedLater
    <2>1. d \in Chunks(l, t)
        BY <1>3
    <2>2. d.pkt.ttl \in Live(t) /\ Hops(t, d.pkt.ttl) \in Nat /\ Seen(l, t, d.pkt.ttl)
        BY <2>1, FlowTypes, HopFacts
    <2>3. CASE Counted(t, y, k)
        BY <2>1, <2>3 DEF Flow, QueuedLater
    <2>4. CASE y = x /\ k = s
        <3>1. CASE Hops(t, x) > Hops(t, d.pkt.ttl)
            BY <1>1, <2>1, <2>4, <3>1, TwoCopies DEF x, s
        <3>2. CASE Hops(t, x) = Hops(t, d.pkt.ttl)
            <4>1. d.pkt.ttl = x
                BY <1>1, <2>2, <3>2, HopFacts
            <4>2. l = n
                BY <1>1, <1>8, <2>2, <4>1 DEF Flow, OnePath
            <4> QED BY <1>7, <2>4, <4>1, <4>2
        <3> QED BY <1>1, <2>2, <2>4, <3>1, <3>2
    <2> QED BY <1>4, <2>3, <2>4
<1>18. SentLater(t)'
    <2> SUFFICES ASSUME NEW k \in Routers, NEW l \in Routers, NEW p \in Packets(k, l, t)'
                 PROVE  /\ \A y \in Live(t), j \in Nat :
                              Counted(t, y, j)' /\ Hops(t, y) > Hops(t, p.ttl) => j < p.seq
                        /\ \A i \in Routers : \A d \in Chunks(i, t)' :
                              Hops(t, d.pkt.ttl) > Hops(t, p.ttl) => d.pkt.seq < p.seq
        BY DEF SentLater
    <2>1. CASE p \in Packets(k, l, t)
        <3>1. ASSUME NEW y \in Live(t), NEW j \in Nat, Counted(t, y, j)', Hops(t, y) > Hops(t, p.ttl)
              PROVE  j < p.seq
            <4>1. CASE Counted(t, y, j)
                BY <2>1, <3>1, <4>1 DEF Flow, SentLater
            <4>2. CASE y = x /\ j = s
                BY <1>1, <2>1, <3>1, <4>2 DEF Flow, SentLater, x, s
            <4> QED BY <1>4, <3>1, <4>1, <4>2
        <3>2. \A i \in Routers : \A d \in Chunks(i, t)' :
                  Hops(t, d.pkt.ttl) > Hops(t, p.ttl) => d.pkt.seq < p.seq
            BY <1>3, <2>1 DEF Flow, SentLater
        <3> QED BY <3>1, <3>2
    <2>2. CASE p = c.pkt
        <3>1. ASSUME NEW y \in Live(t), NEW j \in Nat, Counted(t, y, j)', Hops(t, y) > Hops(t, x)
              PROVE  j < s
            <4>1. Hops(t, y) \in Nat /\ y # x
                BY <1>1, <3>1, HopFacts
            <4>2. Counted(t, y, j)
                BY <1>4, <3>1, <4>1
            <4> QED BY <1>1, <3>1, <4>1, <4>2 DEF Flow, QueuedLater, x, s
        <3>2. \A i \in Routers : \A d \in Chunks(i, t)' :
                  Hops(t, d.pkt.ttl) > Hops(t, x) => d.pkt.seq < s
            BY <1>1, <1>3, TwoCopies DEF x, s
        <3> QED BY <2>2, <3>1, <3>2 DEF x, s
    <2> QED BY <1>9, <2>1, <2>2
<1>19. InSequence(t)'
    <2>1. \A l \in Routers : \A a, b \in Chunks(l, t)' :
              Precedes(queue'[l][t], a, b) /\ a.pkt.ttl = b.pkt.ttl => a.pkt.seq < b.pkt.seq
        BY <1>3 DEF Takes, Flow, InSequence
    <2>2. ASSUME NEW k \in Routers, NEW l \in Routers,
                 NEW p \in Packets(k, l, t)', NEW r \in Packets(k, l, t)',
                 Precedes(tcp'[k][l], p, r), p.ttl = r.ttl
          PROVE  p.seq < r.seq
        <3>1. CASE p \in Packets(k, l, t) /\ r \in Packets(k, l, t) /\ Precedes(tcp[k][l], p, r)
            BY <2>2, <3>1 DEF Flow, InSequence
        <3>2. CASE k = n /\ l = h /\ p \in Packets(n, h, t) /\ r = c.pkt
            <4>1. Counted(t, x, p.seq) /\ p.seq \in Nat
                BY <2>2, <3>2, FlowTypes DEF x
            <4> QED BY <1>1, <3>2, <4>1 DEF Flow, QueuedLater, x
        <3> QED BY <2>2, <3>1, <3>2 DEF Takes, Sends
    <2> QED BY <2>1, <2>2 DEF InSequence
<1>20. StoredArrived(t)'
    BY <1>2, TransfersAssumption DEF Flow, StoredArrived, Arrived, Takes
<1>21. DroppedLate(t)'
    BY <1>2 DEF Flow, DroppedLate, Takes
<1>22. AllSent(t)'
    <2>1. ASSUME NEW l \in Routers, Seen(l, t, InitTTL[t])', NEW k \in 1 .. Size[t]
          PROVE  \/ Counted(t, InitTTL[t], k)'
                 \/ \E d \in Chunks(Origin[t], t)' : d.own /\ d.pkt.seq = k
        <3>1. Seen(l, t, InitTTL[t]) /\ Origin[t] \in Routers
            BY <1>5, <2>1, HopFacts, TransfersAssumption
        <3>2. CASE Counted(t, InitTTL[t], k)
            BY <1>4, <3>2
        <3>3. CASE \E d \in Chunks(Origin[t], t) : d.own /\ d.pkt.seq = k
            <4>1. PICK d \in Chunks(Origin[t], t) : d.own /\ d.pkt.seq = k
                BY <3>3
            <4>2. CASE d = c
                <5>1. x = InitTTL[t]
                    BY <1>1, <4>1, <4>2 DEF Flow, OwnChunks, x
                <5> QED BY <1>4, <4>1, <4>2, <5>1 DEF s
            <4> QED BY <1>3, <3>1, <4>1, <4>2
        <3> QED BY <3>1, <3>2, <3>3 DEF Flow, AllSent
    <2>2. answers'[t] <= 1 /\ (answers'[t] = 1 => Counted(t, InitTTL[t], Size[t])')
        <3>1. CASE Answers(c)
            <4>1. s = Size[t] /\ x = InitTTL[t]
                BY <1>1, <3>1 DEF Answers, Fin, Flow, OwnChunks, x, s
            <4>2. ~Counted(t, x, s)
                <5>1. Counted(t, x, s) => s < c.pkt.seq
                    BY <1>1 DEF Flow, QueuedLater, x
                <5> QED BY <1>1, <5>1 DEF s
            <4>3. answers[t] = 0
                BY <4>1, <4>2 DEF Flow, AllSent
            <4> QED BY <1>4, <3>1, <4>1, <4>3 DEF Takes
        <3>2. CASE ~Answers(c)
            BY <1>4, <3>2 DEF Flow, AllSent, Takes
        <3> QED BY <3>1, <3>2
    <2> QED BY <2>1, <2>2 DEF AllSent
<1> QED BY <1>10, <1>11, <1>12, <1>13, <1>14, <1>15, <1>16, <1>17, <1>18, <1>19, <1>20, <1>21,
           <1>22 DEF Flow

\* What that says of p, and of the TTL z with which n has it: p comes after what
\* waits at n or was counted there, and before all that has come less far.
ReadNext(m, n, t, p, z) ==
    /\ p \in Packets(m, n, t) /\ p.id = t /\ p.ttl \in Live(t)
    /\ p.seq \in 1 .. Size[t] /\ p.seq \in Nat
    /\ z \in Live(t) /\ z # InitTTL[t]
    /\ Hops(t, z) \in Nat /\ Hops(t, z) = Hops(t, p.ttl) + 1
    /\ <<p.ttl, p.seq>> \in stats[m][t] /\ pin[m][t] = n /\ (m = Dest[t] => p.ttl = InitTTL[t])
    /\ \A k, l \in Routers : pin[k][t] = l => pin'[k][t] = l
    /\ \A l \in Routers : Seen(l, t, z) => l = n
    /\ \A y \in Live(t), k \in Nat :
           Counted(t, y, k) /\ Hops(t, y) >= Hops(t, z) => k < p.seq
    /\ \A y \in Live(t) : Hops(t, y) < Hops(t, z) => Counted(t, y, p.seq)
    /\ \A l \in Routers : \A c \in Chunks(l, t) :
           /\ Hops(t, c.pkt.ttl) >= Hops(t, z) => c.pkt.seq < p.seq
           /\ Hops(t, c.pkt.ttl) < Hops(t, z) => p.seq < c.pkt.seq
    /\ \A k, l \in Routers : \A r \in Packets(k, l, t)' :
           r \in Packets(k, l, t) /\ (Hops(t, r.ttl) < Hops(t, z) => p.seq < r.seq)

LEMMA ReadsNext ==
    ASSUME NEW t \in Transfers, Flow(t), NEW m \in Routers, NEW n \in Routers, NEW p,
           Reads(m, n, t, p)
    PROVE  ReadNext(m, n, t, p, Decremented(p.ttl))
<1> DEFINE z == Decremented(p.ttl)
<1>1. /\ p \in Packets(m, n, t) /\ p.id = t /\ p.ttl \in Live(t)
      /\ p.seq \in 1 .. Size[t] /\ p.seq \in Nat /\ Counted(t, p.ttl, p.seq)
    <2>1. p \in Packets(m, n, t) /\ p.id = t
        BY DEF Reads, Packets
    <2> QED BY <2>1, FlowTypes
<1>2. /\ z \in Live(t) /\ z # InitTTL[t] /\ Hops(t, p.ttl) \in Nat
      /\ Hops(t, z) \in Nat /\ Hops(t, z) = Hops(t, p.ttl) + 1
    <2>1. z \in Live(t) /\ Hops(t, p.ttl) \in Nat /\ Hops(t, z) = Hops(t, p.ttl) + 1
        BY <1>1, HopFacts DEF Reads
    <2> QED BY <2>1, HopFacts
<1> HIDE DEF z
<1>3. /\ <<p.ttl, p.seq>> \in stats[m][t] /\ pin[m][t] = n
      /\ m = Dest[t] => p.ttl = InitTTL[t]
    BY <1>1 DEF Flow, InFlight
<1>4. \A k, l \in Routers : pin[k][t] = l => pin'[k][t] = l
    BY HopAssumption DEF Reads, PinsStay
<1>5. \A l \in Routers : Seen(l, t, z) => l = n
    BY <1>1, NextHop DEF Reads, z
<1>6. \A y \in Live(t) : Hops(t, y) \in Nat
    BY HopFacts
<1>7. \A y \in Live(t), k \in Nat : Counted(t, y, k) /\ Hops(t, y) >= Hops(t, z) => k < p.seq
    <2>1. \A y \in Live(t) : Hops(t, y) >= Hops(t, z) => Hops(t, y) > Hops(t, p.ttl)
        BY <1>2, <1>6
    <2> QED BY <1>1, <2>1 DEF Flow, SentLater
<1>8. \A y \in Live(t) : Hops(t, y) < Hops(t, z) => Counted(t, y, p.seq)
    <2> SUFFICES ASSUME NEW y \in Live(t), Hops(t, y) < Hops(t, z)
                 PROVE  Counted(t, y, p.seq)
        OBVIOUS
    <2>1. CASE Hops(t, y) = Hops(t, p.ttl)
        <3>1. y = p.ttl
            BY <1>1, <2>1, HopFacts
        <3> QED BY <1>1, <3>1
    <2>2. CASE Hops(t, y) < Hops(t, p.ttl)
        BY <1>1, <2>2 DEF Flow, NoShortcut
    <2> QED BY <1>2, <1>6, <2>1, <2>2
<1>9. \A l \in Routers : \A c \in Chunks(l, t) :
          /\ Hops(t, c.pkt.ttl) >= Hops(t, z) => c.pkt.seq < p.seq
          /\ Hops(t, c.pkt.ttl) < Hops(t, z) => p.seq < c.pkt.seq
    <2> SUFFICES ASSUME NEW l \in Routers, NEW c \in Chunks(l, t)
                 PROVE  /\ Hops(t, c.pkt.ttl) >= Hops(t, z) => c.pkt.seq < p.seq
                        /\ Hops(t, c.pkt.ttl) < Hops(t, z) => p.seq < c.pkt.seq
        OBVIOUS
    <2>1. Hops(t, c.pkt.ttl) \in Nat
        BY <1>6, FlowTypes
    <2>2. Hops(t, c.pkt.ttl) > Hops(t, p.ttl) => c.pkt.seq < p.seq
        BY <1>1 DEF Flow, SentLater
    <2>3. Hops(t, c.pkt.ttl) <= Hops(t, p.ttl) => p.seq < c.pkt.seq
        BY <1>1, TwoCopies
    <2> QED BY <1>2, <2>1, <2>2, <2>3
<1>10. \A k, l \in Routers : \A r \in Packets(k, l, t)' :
           r \in Packets(k, l, t) /\ (Hops(t, r.ttl) < Hops(t, z) => p.seq < r.seq)
    <2> SUFFICES ASSUME NEW k \in Routers, NEW l \in Routers, NEW r \in Packets(k, l, t)'
                 PROVE  r \in Packets(k, l, t) /\ (Hops(t, r.ttl) < Hops(t, z) => p.seq < r.seq)
        OBVIOUS
    <2>1. r \in Packets(k, l, t)
        BY DEF Reads, PacketsLeave
    <2>2. r.ttl \in Live(t) /\ Hops(t, r.ttl) \in Nat
        BY <1>6, <2>1, FlowTypes
    <2>3. CASE Hops(t, r.ttl) < Hops(t, p.ttl)
        BY <1>1, <2>1, <2>3, TwoCopies
    <2>4. CASE Hops(t, r.ttl) = Hops(t, p.ttl)
        <3>1. r.ttl = p.ttl
            BY <1>1, <2>2, <2>4, HopFacts
        <3>2. k = m /\ l = n
            BY <1>1, <2>1, <3>1, TwoCopies
        <3>3. Precedes(tcp[m][n], p, r)
            BY <3>2 DEF Reads
        <3> QED BY <1>1, <2>1, <3>1, <3>2, <3>3 DEF Flow, InSequence
    <2>5. Hops(t, r.ttl) < Hops(t, z) =>
              Hops(t, r.ttl) < Hops(t, p.ttl) \/ Hops(t, r.ttl) = Hops(t, p.ttl)
        BY <1>2, <2>2
    <2> QED BY <2>1, <2>3, <2>4, <2>5
<1> QED BY <1>1, <1>2, <1>3, <1>4, <1>5, <1>7, <1>8, <1>9, <1>10 DEF ReadNext, z

LEMMA ForwardsKeeps ==
    ASSUME NEW t \in Transfers, Flow(t), NEW m \in Routers, NEW n \in Routers, NEW p,
           p \in Packet, Forwards(m, n, t, p)
    PROVE  Flow(t)'
<1> DEFINE z == Decremented(p.ttl)
           b == Passed(p)
<1>1. Reads(m, n, t, p) /\ n # Dest[t]
    BY DEF Forwards
<1>next. ReadNext(m, n, t, p, z)
    BY <1>1, ReadsNext
<1>2. b.pkt.id = p.id /\ b.pkt.ttl = z /\ b.pkt.seq = p.seq /\ b.own = FALSE
    BY DEF Passed, Packet
<1>3. /\ \A l \in Routers : \A d \in Chunks(l, t)' : d \in Chunks(l, t) \/ (l = n /\ d = b)
      /\ \A l \in Routers : Chunks(l, t) \subseteq Chunks(l, t)'
      /\ \A l \in Routers : stats'[l][t] = stats[l][t]
    BY DEF Forwards
<1> HIDE DEF z, b
<1>4. \A y, k : Counted(t, y, k)' <=> Counted(t, y, k)
    BY <1>3 DEF Counted
<1>5. \A l \in Routers, y \in Live(t) : Seen(l, t, y)' => Seen(l, t, y) \/ (l = n /\ y = z)
    BY <1>2, <1>3 DEF Seen
<1>6. NothingBefore(t)'
    <2>1. t \in requested
        BY <1>1 DEF Reads, Flow, NothingBefore
    <2> QED BY <1>1, <2>1 DEF NothingBefore, Reads
<1>7. WellFormed(t)'
    <2>1. \A l \in Routers : \A d \in Chunks(l, t)' :
              d.pkt.id = t /\ d.pkt.ttl \in Live(t) /\ d.pkt.seq \in 1 .. Size[t]
        BY <1>1, <1>2, <1>3, <1>next DEF Flow, WellFormed, ReadNext
    <2> QED BY <1>3, <2>1 DEF Flow, WellFormed
<1>8. OnePath(t)'
    BY <1>1, <1>5, <1>next DEF Flow, OnePath, ReadNext
<1>9. PathPinned(t)'
    <2> SUFFICES ASSUME NEW l \in Routers, NEW y \in Live(t), Seen(l, t, y)',
                        ~(y = InitTTL[t] /\ l = Origin[t])
                 PROVE  \E k \in Routers, w \in Live(t), j \in Nat :
                           /\ <<w, j>> \in stats'[k][t] /\ pin'[k][t] = l
                           /\ Hops(t, y) = Hops(t, w) + 1
                           /\ k = Dest[t] => w = InitTTL[t]
        BY DEF PathPinned
    <2>1. \A k, i \in Routers : pin[k][t] = i => pin'[k][t] = i
        BY <1>1, <1>next DEF ReadNext
    <2>2. CASE Seen(l, t, y)
        BY <1>3, <2>1, <2>2 DEF Flow, PathPinned
    <2>3. CASE l = n /\ y = z
        BY <1>1, <1>3, <2>1, <2>3, <1>next DEF ReadNext
    <2> QED BY <1>5, <2>2, <2>3
<1>10. InFlight(t)'
    <2> SUFFICES ASSUME NEW k \in Routers, NEW l \in Routers, NEW r \in Packets(k, l, t)'
                 PROVE  /\ <<r.ttl, r.seq>> \in stats'[k][t] /\ pin'[k][t] = l
                        /\ k = Dest[t] => r.ttl = InitTTL[t]
        BY DEF InFlight
    <2>1. r \in Packets(k, l, t) /\ (pin[k][t] = l => pin'[k][t] = l)
        BY <1>1, <1>next DEF ReadNext
    <2> QED BY <1>3, <2>1 DEF Flow, InFlight
<1>11. OwnChunks(t)'
    <2>1. z # InitTTL[t]
        BY <1>1, <1>next DEF ReadNext
    <2> QED BY <1>1, <1>2, <1>3, <2>1 DEF Flow, OwnChunks
<1>12. NoShortcut(t)'
    <2>1. \A y \in Live(t) : Hops(t, y) < Hops(t, z) => Counted(t, y, p.seq)
        BY <1>1, <1>next DEF ReadNext
    <2> QED BY <1>2, <1>3, <1>4, <2>1 DEF Flow, NoShortcut
<1>13. QueuedLater(t)'
    <2>1. \A y \in Live(t), k \in Nat : Counted(t, y, k) /\ Hops(t, y) >= Hops(t, z) => k < p.seq
        BY <1>1, <1>next DEF ReadNext
    <2> QED BY <1>2, <1>3, <1>4, <2>1 DEF Flow, QueuedLater
<1>14. SentLater(t)'
    <2>1. \A k, l \in Routers : \A r \in Packets(k, l, t)' :
              r \in Packets(k, l, t) /\ (Hops(t, r.ttl) < Hops(t, z) => p.seq < r.seq)
        BY <1>1, <1>next DEF ReadNext
    <2> SUFFICES ASSUME NEW k \in Routers, NEW l \in Routers, NEW r \in Packets(k, l, t)'
                 PROVE  /\ \A y \in Live(t), j \in Nat :
                              Counted(t, y, j) /\ Hops(t, y) > Hops(t, r.ttl) => j < r.seq
                        /\ \A i \in Routers : \A d \in Chunks(i, t)' :
                              Hops(t, d.pkt.ttl) > Hops(t, r.ttl) => d.pkt.seq < r.seq
        BY <1>4 DEF SentLater
    <2>2. Hops(t, r.ttl) \in Nat /\ Hops(t, z) \in Nat
        BY <1>1, <2>1, FlowTypes, HopFacts, <1>next DEF ReadNext
    <2>3. \A i \in Routers : \A d \in Chunks(i, t)' :
              Hops(t, d.pkt.ttl) > Hops(t, r.ttl) => d.pkt.seq < r.seq
        BY <1>2, <1>3, <2>1, <2>2 DEF Flow, SentLater
    <2> QED BY <2>1, <2>3 DEF Flow, SentLater
<1>15. InSequence(t)'
    <2>1. ASSUME NEW l \in Routers, NEW a \in Chunks(l, t)', NEW d \in Chunks(l, t)',
                 Precedes(queue'[l][t], a, d), a.pkt.ttl = d.pkt.ttl
          PROVE  a.pkt.seq < d.pkt.seq
        <3>1. CASE a \in Chunks(l, t) /\ d \in Chunks(l, t) /\ Precedes(queue[l][t], a, d)
            BY <2>1, <3>1 DEF Flow, InSequence
        <3>2. CASE l = n /\ a \in Chunks(n, t) /\ d = b
            <4>1. Hops(t, a.pkt.ttl) >= Hops(t, z)
                BY <1>1, <1>2, <2>1, <3>2, <1>next DEF ReadNext
            <4> QED BY <1>1, <1>2, <3>2, <4>1, <1>next DEF ReadNext
        <3> QED BY <2>1, <3>1, <3>2 DEF Forwards, b
    <2> QED BY <1>1, <2>1 DEF Flow, InSequence, Reads, PacketsLeave
<1>16. StoredArrived(t)'
    BY <1>3, TransfersAssumption DEF Flow, StoredArrived, Arrived, Forwards
<1>17. DroppedLate(t)'
    BY <1>3 DEF Flow, DroppedLate, Forwards
<1>18. AllSent(t)'
    <2>1. \A l \in Routers : Seen(l, t, InitTTL[t])' => Seen(l, t, InitTTL[t])
        BY <1>1, <1>5, HopFacts, <1>next DEF ReadNext
    <2> QED BY <1>1, <1>3, <1>4, <2>1, TransfersAssumption DEF Flow, AllSent, Reads
<1> QED BY <1>6, <1>7, <1>8, <1>9, <1>10, <1>11, <1>12, <1>13, <1>14, <1>15, <1>16, <1>17,
           <1>18 DEF Flow

LEMMA StoresKeeps ==
    ASSUME NEW t \in Transfers, Flow(t), NEW m \in Routers, NEW n \in Routers, NEW p,
           Stores(m, n, t, p)
    PROVE  Flow(t)'
<1> DEFINE z == Decremented(p.ttl)
<1>1. Reads(m, n, t, p) /\ n = Dest[t]
    BY DEF Stores
<1>next. ReadNext(m, n, t, p, z)
    BY <1>1, ReadsNext
<1>2. \A l \in Routers : Chunks(l, t)' = Chunks(l, t)
    BY DEF Stores, Chunks
<1>3. /\ \A l \in Routers : stats[l][t] \subseteq stats'[l][t]
      /\ \A l \in Routers : \A e \in stats'[l][t] : e \in stats[l][t] \/ (l = n /\ e = <<z, p.seq>>)
      /\ <<z, p.seq>> \in stats'[n][t]
    BY DEF Stores
<1> HIDE DEF z
<1>4. \A y, k : Counted(t, y, k)' <=> Counted(t, y, k) \/ (y = z /\ k = p.seq)
    BY <1>3 DEF Counted
<1>5. \A l \in Routers, y \in Live(t) : Seen(l, t, y)' => Seen(l, t, y) \/ (l = n /\ y = z)
    BY <1>2, <1>3 DEF Seen
<1>6. NothingBefore(t)'
    <2>1. t \in requested
        BY <1>1 DEF Reads, Flow, NothingBefore
    <2> QED BY <1>1, <2>1 DEF NothingBefore, Reads
<1>7. WellFormed(t)'
    <2>1. \A l \in Routers : \A e \in stats'[l][t] : e[1] \in Live(t) /\ e[2] \in 1 .. Size[t]
        <3> SUFFICES ASSUME NEW l \in Routers, NEW e \in stats'[l][t]
                     PROVE  e[1] \in Live(t) /\ e[2] \in 1 .. Size[t]
            OBVIOUS
        <3>1. CASE e \in stats[l][t]
            BY <3>1 DEF Flow, WellFormed
        <3>2. CASE e = <<z, p.seq>>
            BY <1>1, <3>2, <1>next DEF ReadNext
        <3> QED BY <1>3, <3>1, <3>2
    <2> QED BY <1>2, <2>1 DEF Flow, WellFormed
<1>8. OnePath(t)'
    BY <1>1, <1>5, <1>next DEF Flow, OnePath, ReadNext
<1>9. PathPinned(t)'
    <2> SUFFICES ASSUME NEW l \in Routers, NEW y \in Live(t), Seen(l, t, y)',
                        ~(y = InitTTL[t] /\ l = Origin[t])
                 PROVE  \E k \in Routers, w \in Live(t), j \in Nat :
                           /\ <<w, j>> \in stats'[k][t] /\ pin'[k][t] = l
                           /\ Hops(t, y) = Hops(t, w) + 1
                           /\ k = Dest[t] => w = InitTTL[t]
        BY DEF PathPinned
    <2>1. \A k, i \in Routers : pin[k][t] = i => pin'[k][t] = i
        BY <1>1, <1>next DEF ReadNext
    <2>2. CASE Seen(l, t, y)
        BY <1>3, <2>1, <2>2 DEF Flow, PathPinned
    <2>3. CASE l = n /\ y = z
        <3>1. /\ p.ttl \in Live(t) /\ p.seq \in Nat /\ Hops(t, z) = Hops(t, p.ttl) + 1
              /\ <<p.ttl, p.seq>> \in stats[m][t] /\ pin[m][t] = n
              /\ m = Dest[t] => p.ttl = InitTTL[t]
            BY <1>next DEF ReadNext
        <3>2. <<p.ttl, p.seq>> \in stats'[m][t] /\ pin'[m][t] = n
            BY <1>3, <2>1, <3>1
        <3> QED BY <2>3, <3>1, <3>2
    <2> QED BY <1>5, <2>2, <2>3
<1>10. InFlight(t)'
    <2> SUFFICES ASSUME NEW k \in Routers, NEW l \in Routers, NEW r \in Packets(k, l, t)'
                 PROVE  /\ <<r.ttl, r.seq>> \in stats'[k][t] /\ pin'[k][t] = l
                        /\ k = Dest[t] => r.ttl = InitTTL[t]
        BY DEF InFlight
    <2>1. r \in Packets(k, l, t) /\ (pin[k][t] = l => pin'[k][t] = l)
        BY <1>1, <1>next DEF ReadNext
    <2> QED BY <1>3, <2>1 DEF Flow, InFlight
<1>11. OwnChunks(t)'
    BY <1>2 DEF Flow, OwnChunks
<1>12. NoShortcut(t)'
    <2>1. \A y \in Live(t) : Hops(t, y) < Hops(t, z) => Counted(t, y, p.seq)
        BY <1>1, <1>next DEF ReadNext
    <2> QED BY <1>2, <1>4, <2>1 DEF Flow, NoShortcut
<1>13. QueuedLater(t)'
    <2> SUFFICES ASSUME NEW l \in Routers, NEW d \in Chunks(l, t),
                        Hops(t, z) >= Hops(t, d.pkt.ttl)
                 PROVE  p.seq < d.pkt.seq
        BY <1>2, <1>4 DEF Flow, QueuedLater
    <2>1. /\ d.pkt.ttl \in Live(t) /\ Hops(t, d.pkt.ttl) \in Nat /\ Seen(l, t, d.pkt.ttl)
          /\ z \in Live(t) /\ Hops(t, z) \in Nat
        BY <1>1, FlowTypes, HopFacts, <1>next DEF ReadNext
    <2>2. CASE Hops(t, d.pkt.ttl) < Hops(t, z)
        BY <1>1, <2>2, <1>next DEF ReadNext
    <2>3. CASE Hops(t, d.pkt.ttl) = Hops(t, z)
        <3>1. d.pkt.ttl = z
            BY <2>1, <2>3, HopFacts
        <3>2. l = n /\ z # InitTTL[t]
            BY <1>1, <2>1, <3>1, <1>next DEF ReadNext
        <3> QED BY <1>1, <3>1, <3>2 DEF Flow, OwnChunks
    <2> QED BY <2>1, <2>2, <2>3
<1>14. SentLater(t)'
    <2> SUFFICES ASSUME NEW k \in Routers, NEW l \in Routers, NEW r \in Packets(k, l, t)'
                 PROVE  /\ \A y \in Live(t), j \in Nat :
                              Counted(t, y, j)' /\ Hops(t, y) > Hops(t, r.ttl) => j < r.seq
                        /\ \A i \in Routers : \A d \in Chunks(i, t) :
                              Hops(t, d.pkt.ttl) > Hops(t, r.ttl) => d.pkt.seq < r.seq
        BY <1>2 DEF SentLater
    <2>1. r \in Packets(k, l, t) /\ (Hops(t, r.ttl) < Hops(t, z) => p.seq < r.seq)
        BY <1>1, <1>next DEF ReadNext
    <2>2. Hops(t, r.ttl) \in Nat /\ Hops(t, z) \in Nat
        BY <1>1, <2>1, FlowTypes, HopFacts, <1>next DEF ReadNext
    <2>3. \A y \in Live(t), j \in Nat :
              Counted(t, y, j)' /\ Hops(t, y) > Hops(t, r.ttl) => j < r.seq
        BY <1>4, <2>1, <2>2 DEF Flow, SentLater
    <2> QED BY <2>1, <2>3 DEF Flow, SentLater
<1>15. InSequence(t)'
    BY <1>1, <1>2 DEF Flow, InSequence, Reads, PacketsLeave, Stores
<1>16. StoredArrived(t)'
    <2>1. Arrived(t, p.seq)'
        BY <1>1, <1>3, <1>next DEF Arrived, ReadNext
    <2>2. \A k : Arrived(t, k) => Arrived(t, k)'
        BY <1>3, TransfersAssumption DEF Arrived
    <2> QED BY <2>1, <2>2 DEF Flow, StoredArrived, Stores
<1>17. DroppedLate(t)'
    BY <1>3 DEF Flow, DroppedLate, Stores
<1>18. AllSent(t)'
    <2>1. \A l \in Routers : Seen(l, t, InitTTL[t])' => Seen(l, t, InitTTL[t])
        BY <1>1, <1>5, HopFacts, <1>next DEF ReadNext
    <2> QED BY <1>1, <1>2, <1>4, <2>1, TransfersAssumption DEF Flow, AllSent, Reads
<1> QED BY <1>6, <1>7, <1>8, <1>9, <1>10, <1>11, <1>12, <1>13, <1>14, <1>15, <1>16, <1>17,
           <1>18 DEF Flow

LEMMA StartsKeeps ==
    ASSUME NEW t \in Transfers, Flow(t), Starts(t)
    PROVE  Flow(t)'
<1> DEFINE n == Origin[t]
<1>1. n \in Routers /\ Size[t] \in Nat /\ InitTTL[t] \in Live(t)
    BY HopFacts, TransfersAssumption
<1>2. /\ \A l \in Routers : Chunks(l, t) = {} /\ stats[l][t] = {}
      /\ \A k, l \in Routers : Packets(k, l, t) = {}
    BY DEF Starts, Flow, NothingBefore
<1>3. /\ t \in requested'
      /\ \A l \in Routers : stats'[l][t] = {}
      /\ \A l \in Routers : l # n => Chunks(l, t)' = {}
      /\ \A k, l \in Routers : Packets(k, l, t)' = {}
    <2>1. \A l \in Routers : l # n => Chunks(l, t)' = Chunks(l, t)
        BY DEF Starts, Chunks
    <2> QED BY <1>2, <2>1 DEF Starts, PacketsLeave
<1>4. \A c \in Chunks(n, t)' :
          c.own /\ c.pkt.id = t /\ c.pkt.ttl = InitTTL[t] /\ c.pkt.seq \in 1 .. Size[t]
    BY DEF Starts
<1>5. /\ \A k \in 1 .. Size[t] : \E c \in Chunks(n, t)' : c.own /\ c.pkt.seq = k
      /\ \A c, d \in Chunks(n, t)' : Precedes(queue'[n][t], c, d) => c.pkt.seq < d.pkt.seq
    BY DEF Starts
<1>6. \A y, k : ~Counted(t, y, k)'
    BY <1>3 DEF Counted
<1>7. \A l \in Routers, y \in Live(t) : Seen(l, t, y)' => l = n /\ y = InitTTL[t]
    BY <1>3, <1>4 DEF Seen
<1>8. \A y \in Live(t) : Hops(t, y) \in Nat /\ Hops(t, InitTTL[t]) = 0
    BY HopFacts
<1>9. \A k : ~Arrived(t, k)
    BY <1>2, TransfersAssumption DEF Arrived
<1> HIDE DEF n
<1>10. NothingBefore(t)' /\ WellFormed(t)' /\ OnePath(t)' /\ OwnChunks(t)'
    BY <1>1, <1>3, <1>4, <1>7 DEF NothingBefore, WellFormed, OnePath, OwnChunks
<1>11. PathPinned(t)' /\ InFlight(t)'
    BY <1>3, <1>7 DEF PathPinned, InFlight, n
<1>12. NoShortcut(t)'
    <2> SUFFICES ASSUME NEW l \in Routers, NEW c \in Chunks(l, t)', NEW y \in Live(t)
                 PROVE  ~(Hops(t, y) < Hops(t, c.pkt.ttl))
        BY <1>6 DEF NoShortcut
    <2>1. c.pkt.ttl = InitTTL[t]
        BY <1>3, <1>4
    <2> QED BY <1>8, <2>1
<1>13. QueuedLater(t)' /\ SentLater(t)'
    BY <1>3, <1>6 DEF QueuedLater, SentLater
<1>14. InSequence(t)'
    BY <1>3, <1>5 DEF InSequence
<1>15. StoredArrived(t)' /\ DroppedLate(t)'
    BY <1>2, <1>9 DEF Flow, StoredArrived, DroppedLate, Starts
<1>16. AllSent(t)'
    <2>1. ~Counted(t, InitTTL[t], Size[t])
        BY <1>2 DEF Counted
    <2> QED BY <1>5, <1>6, <2>1 DEF Flow, AllSent, Starts, n
<1> QED BY <1>10, <1>11, <1>12, <1>13, <1>14, <1>15, <1>16 DEF Flow

-------------------------------------------------------------------------------
(***************************************************************************)
(* What each action means for each transfer.                               *)
(***************************************************************************)

\* What neither touches the chunks and the counts of t nor drops a packet of it.
LEMMA QuietNoDrop ==
    ASSUME NEW t \in Transfers, Flow(t), Quiet(t), expired'[t] = expired[t]
    PROVE  Flow(t)'
BY QuietKeeps DEF Flow, DroppedLate

LEMMA PushView ==
    ASSUME Types, NEW n \in Routers, NEW t \in Transfers, NEW chunks \in Seq(Chunk),
           NEW h \in Routers, Push(n, t, chunks, h)
    PROVE  /\ connected' \in [Routers -> SUBSET Routers]
           /\ pin' \in [Routers -> [Transfers -> Routers \cup {NoHop}]]
           /\ queue' \in [Routers -> [Transfers -> Seq(Chunk)]]
           /\ writable' \in [Routers -> SUBSET Routers]
           /\ \A u \in Transfers : PinsStay(u)
           /\ \A l \in Routers, u \in Transfers : l # n \/ u # t => queue'[l][u] = queue[l][u]
           /\ Chunks(n, t)' = Chunks(n, t) \cup Range(chunks)
           /\ \A a, b : Precedes(queue'[n][t], a, b) =>
                  \/ Precedes(queue[n][t], a, b) \/ Precedes(chunks, a, b)
                  \/ a \in Chunks(n, t) /\ b \in Range(chunks)
<1>1. queue[n][t] \in Seq(Chunk)
    BY DEF Types
<1>2. queue'[n][t] = queue[n][t] \o chunks
    BY DEF Types, Push
<1>3. /\ queue[n][t] \o chunks \in Seq(Chunk)
      /\ Range(queue[n][t] \o chunks) = Range(queue[n][t]) \cup Range(chunks)
      /\ \A a, b : Precedes(queue[n][t] \o chunks, a, b) =>
             \/ Precedes(queue[n][t], a, b) \/ Precedes(chunks, a, b)
             \/ a \in Range(queue[n][t]) /\ b \in Range(chunks)
    BY <1>1, ConcatView
<1>4. connected' \in [Routers -> SUBSET Routers] /\ writable' \in [Routers -> SUBSET Routers]
    BY DEF Types, Push
<1>5. pin' \in [Routers -> [Transfers -> Routers \cup {NoHop}]]
    BY DEF Types, Push
<1>6. queue' \in [Routers -> [Transfers -> Seq(Chunk)]]
    BY <1>3 DEF Types, Push
<1>7. \A u \in Transfers : PinsStay(u)
    BY DEF Types, Push, PinsStay
<1>8. \A l \in Routers, u \in Transfers : l # n \/ u # t => queue'[l][u] = queue[l][u]
    BY DEF Types, Push
<1>9. Chunks(n, t)' = Chunks(n, t) \cup Range(chunks)
    BY <1>2, <1>3 DEF Chunks
<1> QED BY <1>2, <1>3, <1>4, <1>5, <1>6, <1>7, <1>8, <1>9 DEF Chunks

LEMMA RouteView ==
    ASSUME Types, NEW n \in Routers, NEW t \in Transfers, NEW chunks, Route(n, t, chunks)
    PROVE  NoPush \/ \E h \in Routers : Push(n, t, chunks, h)
<1>1. route[n][Dest[t]] \in Routers \cup {NoHop}
    BY TransfersAssumption DEF Types
<1> QED BY <1>1 DEF Route

\* Without a push nothing changes in the send buffers.
LEMMA NoPushView ==
    ASSUME Types, NoPush
    PROVE  /\ connected' \in [Routers -> SUBSET Routers]
           /\ pin' \in [Routers -> [Transfers -> Routers \cup {NoHop}]]
           /\ queue' \in [Routers -> [Transfers -> Seq(Chunk)]]
           /\ writable' \in [Routers -> SUBSET Routers]
           /\ \A u \in Transfers : PinsStay(u)
           /\ \A l \in Routers, u \in Transfers : queue'[l][u] = queue[l][u]
BY DEF NoPush, Types, PinsStay

LEMMA NoChunksView ==
    ASSUME Types, NEW n \in Routers, NEW h \in Routers \cup {NoHop}, NoChunks(n, h)
    PROVE  /\ connected' \in [Routers -> SUBSET Routers]
           /\ writable' \in [Routers -> SUBSET Routers]
           /\ pin' = pin /\ queue' = queue
<1>1. h \in Routers
    BY DEF NoChunks
<1>2. connected' \in [Routers -> SUBSET Routers]
    BY <1>1 DEF NoChunks, Types
<1>3. writable' \in [Routers -> SUBSET Routers]
    <2>1. CASE UNCHANGED writable
        BY <2>1 DEF Types
    <2>2. CASE writable' = [writable EXCEPT ![n] = writable[n] \cup {h}]
        BY <1>1, <2>2 DEF Types
    <2> QED BY <2>1, <2>2 DEF NoChunks
<1> QED BY <1>2, <1>3 DEF NoChunks

\* A packetised file: all its packets, in order.
LEMMA PacketisedView ==
    ASSUME NEW t \in Transfers
    PROVE  /\ Packetised(t) \in Seq(Chunk)
           /\ \A c \in Range(Packetised(t)) :
                  c.own /\ c.pkt.id = t /\ c.pkt.ttl = InitTTL[t] /\ c.pkt.seq \in 1 .. Size[t]
           /\ \A k \in 1 .. Size[t] : \E c \in Range(Packetised(t)) : c.own /\ c.pkt.seq = k
           /\ \A c, d : Precedes(Packetised(t), c, d) => c.pkt.seq < d.pkt.seq
<1> DEFINE P == Packetised(t)
           C(k) == [pkt |-> [id |-> t, seq |-> k, ttl |-> InitTTL[t]], own |-> TRUE]
<1>1. Size[t] \in Nat /\ InitTTL[t] \in 0 .. MaxTTL
    BY TransfersAssumption
<1>2. \A k \in 1 .. Size[t] : C(k) \in Chunk
    BY <1>1 DEF Chunk, Packet
<1>3. P = [k \in 1 .. Size[t] |-> C(k)]
    BY DEF Packetised
<1>4. \A k : C(k).own /\ C(k).pkt.id = t /\ C(k).pkt.seq = k /\ C(k).pkt.ttl = InitTTL[t]
    OBVIOUS
<1> HIDE DEF P, C
<1>5. P \in Seq(Chunk)
    BY <1>1, <1>2, <1>3
<1>6. DOMAIN P = 1 .. Size[t] /\ \A k \in 1 .. Size[t] : P[k] = C(k)
    BY <1>3
<1>7. \A c \in Range(P) :
          c.own /\ c.pkt.id = t /\ c.pkt.ttl = InitTTL[t] /\ c.pkt.seq \in 1 .. Size[t]
    BY <1>4, <1>6 DEF Range
<1>8. \A k \in 1 .. Size[t] : \E c \in Range(P) : c.own /\ c.pkt.seq = k
    BY <1>4, <1>6 DEF Range
<1>9. \A c, d : Precedes(P, c, d) => c.pkt.seq < d.pkt.seq
    BY <1>4, <1>6 DEF Precedes
<1> QED BY <1>5, <1>7, <1>8, <1>9 DEF P

LEMMA SendFileKeeps ==
    ASSUME FlowInv, NEW t \in Transfers, SendFile(t)
    PROVE  FlowInv'
<1> DEFINE n == Origin[t]
<1>1. Types /\ \A u \in Transfers : Flow(u)
    BY DEF FlowInv
<1>2. /\ n \in Routers /\ t \notin requested /\ requested' = requested \cup {t}
      /\ UNCHANGED <<route, tcp, stats, fileData, file, answers, expired, down, reroutes>>
    BY TransfersAssumption DEF SendFile
<1>3. \A u \in Transfers : PacketsLeave(u)
    BY <1>2 DEF PacketsLeave, Packets
<1>4. CASE \E h \in Routers : Push(n, t, Packetised(t), h)
    <2>1. PICK h \in Routers : Push(n, t, Packetised(t), h)
        BY <1>4
    <2>2. Packetised(t) \in Seq(Chunk)
        BY PacketisedView
    <2>3. /\ connected' \in [Routers -> SUBSET Routers]
          /\ pin' \in [Routers -> [Transfers -> Routers \cup {NoHop}]]
          /\ queue' \in [Routers -> [Transfers -> Seq(Chunk)]]
          /\ writable' \in [Routers -> SUBSET Routers]
          /\ \A u \in Transfers : PinsStay(u)
          /\ \A l \in Routers, u \in Transfers : l # n \/ u # t => queue'[l][u] = queue[l][u]
          /\ Chunks(n, t)' = Chunks(n, t) \cup Range(Packetised(t))
          /\ \A a, b : Precedes(queue'[n][t], a, b) =>
                 \/ Precedes(queue[n][t], a, b) \/ Precedes(Packetised(t), a, b)
                 \/ a \in Chunks(n, t) /\ b \in Range(Packetised(t))
        BY <1>1, <1>2, <2>1, <2>2, PushView
    <2>4. Types'
        BY <1>1, <1>2, <2>3 DEF Types
    <2>5. ASSUME NEW u \in Transfers, u # t
          PROVE  Flow(u)'
        <3>1. Quiet(u)
            BY <1>2, <1>3, <2>3, <2>5 DEF Quiet
        <3> QED BY <1>1, <1>2, <3>1, QuietNoDrop
    <2>6. Flow(t)'
        <3>1. Chunks(n, t) = {}
            BY <1>1, <1>2 DEF Flow, NothingBefore
        <3>2. \A a, b : Precedes(queue[n][t], a, b) => FALSE
            BY <3>1 DEF Chunks, Precedes, Range
        <3>3. Chunks(n, t)' = Range(Packetised(t))
            BY <2>3, <3>1
        <3>4. \A c, d \in Chunks(n, t)' : Precedes(queue'[n][t], c, d) => c.pkt.seq < d.pkt.seq
            BY <2>3, <3>1, <3>2, PacketisedView
        <3>5. Starts(t)
            BY <1>2, <1>3, <2>3, <3>3, <3>4, PacketisedView DEF Starts
        <3> QED BY <1>1, <3>5, StartsKeeps
    <2> QED BY <2>4, <2>5, <2>6 DEF FlowInv
<1>5. CASE NoPush \/ NoChunks(n, route[n][Dest[t]])
    <2>1. /\ connected' \in [Routers -> SUBSET Routers] /\ writable' \in [Routers -> SUBSET Routers]
          /\ pin' = pin /\ queue' = queue
        <3>1. route[n][Dest[t]] \in Routers \cup {NoHop}
            BY <1>1, <1>2, TransfersAssumption DEF Types
        <3>2. CASE NoPush
            BY <1>1, <3>2 DEF NoPush, Types
        <3>3. CASE NoChunks(n, route[n][Dest[t]])
            BY <1>1, <1>2, <3>1, <3>3, NoChunksView
        <3> QED BY <1>5, <3>2, <3>3
    <2>2. Types'
        BY <1>1, <1>2, <2>1 DEF Types
    <2>3. ASSUME NEW u \in Transfers
          PROVE  Flow(u)'
        <3>1. Quiet(u)
            BY <1>2, <1>3, <2>1 DEF Quiet, PinsStay
        <3> QED BY <1>1, <1>2, <3>1, QuietNoDrop
    <2> QED BY <2>2, <2>3 DEF FlowInv
<1>6. Route(n, t, Packetised(t)) \/ NoChunks(n, route[n][Dest[t]])
    BY DEF SendFile
<1> QED BY <1>1, <1>2, <1>4, <1>5, <1>6, RouteView

\* Reading takes the first packet of a connection.
LEMMA ReceiveView ==
    ASSUME Types, NEW m \in Routers, NEW n \in Routers, tcp[m][n] # <<>>,
           tcp' = [tcp EXCEPT ![m][n] = Tail(tcp[m][n])]
    PROVE  /\ tcp' \in [Routers -> [Routers -> Seq(Packet)]]
           /\ \A u \in Transfers : PacketsLeave(u)
           /\ \E p \in Packet :
                  /\ p = Head(tcp[m][n]) /\ p \in Packets(m, n, p.id)
                  /\ \A r \in Packets(m, n, p.id)' : Precedes(tcp[m][n], p, r)
<1> DEFINE s == tcp[m][n]
<1>1. s \in Seq(Packet) /\ s # <<>>
    BY DEF Types
<1>2. /\ Head(s) \in Range(s) /\ Head(s) \in Packet
      /\ Tail(s) \in Seq(Packet)
      /\ Range(Tail(s)) \subseteq Range(s)
      /\ \A a, b : Precedes(Tail(s), a, b) => Precedes(s, a, b)
      /\ \A b \in Range(Tail(s)) : Precedes(s, Head(s), b)
    BY <1>1, TailView
<1>3. tcp'[m][n] = Tail(s)
    BY DEF Types
<1>4. \A k, l \in Routers : k # m \/ l # n => tcp'[k][l] = tcp[k][l]
    BY DEF Types
<1>5. tcp' \in [Routers -> [Routers -> Seq(Packet)]]
    BY <1>2 DEF Types
<1>6. \A u \in Transfers : PacketsLeave(u)
    <2> SUFFICES ASSUME NEW k \in Routers, NEW l \in Routers
                 PROVE  /\ Range(tcp'[k][l]) \subseteq Range(tcp[k][l])
                        /\ \A a, b : Precedes(tcp'[k][l], a, b) => Precedes(tcp[k][l], a, b)
        BY DEF PacketsLeave, Packets
    <2>1. CASE k = m /\ l = n
        BY <1>2, <1>3, <2>1
    <2>2. CASE k # m \/ l # n
        BY <1>4, <2>2
    <2> QED BY <2>1, <2>2
<1>7. ASSUME NEW p \in Packet, p = Head(s)
      PROVE  /\ p \in Packets(m, n, p.id)
             /\ \A r \in Packets(m, n, p.id)' : Precedes(s, p, r)
    BY <1>2, <1>3, <1>7 DEF Packets
<1> QED BY <1>2, <1>5, <1>6, <1>7

\* What is appended is all that is new.
LEMMA AppendView ==
    ASSUME NEW S, NEW s \in Seq(S), NEW e \in S
    PROVE  /\ Append(s, e) \in Seq(S) /\ Append(s, e) # <<>>
           /\ \A k \in Range(Append(s, e)) : k \in Range(s) \/ k = e
<1>1. /\ Append(s, e) \in Seq(S) /\ Len(Append(s, e)) = Len(s) + 1 /\ Len(s) \in Nat
      /\ \A i \in 1 .. Len(s) : Append(s, e)[i] = s[i]
      /\ Append(s, e)[Len(s) + 1] = e
    BY AppendProperties, LenProperties
<1>2. DOMAIN Append(s, e) = 1 .. Len(s) + 1 /\ DOMAIN s = 1 .. Len(s)
    BY <1>1, LenProperties
<1> DEFINE v == Append(s, e)
<1>3. v # <<>>
    BY <1>1
<1> HIDE DEF v
<1>4. \A i \in DOMAIN v : (i \in DOMAIN s /\ v[i] = s[i]) \/ v[i] = e
    <2> SUFFICES ASSUME NEW i \in DOMAIN v
                 PROVE  (i \in DOMAIN s /\ v[i] = s[i]) \/ v[i] = e
        OBVIOUS
    <2>1. i \in 1 .. Len(s) \/ i = Len(s) + 1
        BY <1>1, <1>2 DEF v
    <2> QED BY <1>1, <1>2, <2>1 DEF v
<1>5. \A k \in Range(v) : k \in Range(s) \/ k = e
    BY <1>4 DEF Range
<1> QED BY <1>1, <1>3, <1>5 DEF v

LEMMA ReceiveKeeps ==
    ASSUME FlowInv, NEW m \in Routers, NEW n \in Routers, Receive(m, n)
    PROVE  FlowInv'
<1>1. Types /\ \A u \in Transfers : Flow(u)
    BY DEF FlowInv
<1>2. /\ tcp[m][n] # <<>> /\ tcp' = [tcp EXCEPT ![m][n] = Tail(tcp[m][n])]
      /\ UNCHANGED <<requested, route, answers, down, reroutes>>
    BY DEF Receive
<1>3. /\ tcp' \in [Routers -> [Routers -> Seq(Packet)]]
      /\ \A u \in Transfers : PacketsLeave(u)
    BY <1>1, <1>2, ReceiveView
<1>4. PICK p \in Packet :
           /\ p = Head(tcp[m][n]) /\ p \in Packets(m, n, p.id)
           /\ \A r \in Packets(m, n, p.id)' : Precedes(tcp[m][n], p, r)
    BY <1>1, <1>2, ReceiveView
<1> DEFINE t == p.id
           pkt == [p EXCEPT !.ttl = Decremented(p.ttl)]
<1>5. \/ pkt.ttl = 0 /\ Drop(pkt)
      \/ pkt.ttl # 0 /\ n = Dest[pkt.id] /\ Deliver(n, pkt)
      \/ pkt.ttl # 0 /\ n # Dest[pkt.id] /\ Forward(n, pkt)
    <2> DEFINE q == [Head(tcp[m][n]) EXCEPT !.ttl = Decremented(Head(tcp[m][n]).ttl)]
    <2>1. \/ q.ttl = 0 /\ Drop(q)
          \/ q.ttl # 0 /\ n = Dest[q.id] /\ Deliver(n, q)
          \/ q.ttl # 0 /\ n # Dest[q.id] /\ Forward(n, q)
        BY DEF Receive
    <2>2. q = pkt
        BY <1>4
    <2> HIDE DEF q, pkt
    <2>3. Drop(q) => Drop(pkt)
        BY <2>2 DEF Drop
    <2>4. Deliver(n, q) => Deliver(n, pkt)
        BY <2>2 DEF Deliver
    <2>5. Forward(n, q) => Forward(n, pkt)
        BY <2>2 DEF Forward, Route, Push
    <2> QED BY <2>1, <2>2, <2>3, <2>4, <2>5
<1>6. /\ p \in Packet /\ t \in Transfers /\ p.ttl \in 0 .. MaxTTL /\ p.seq \in Nat
      /\ tcp' \in [Routers -> [Routers -> Seq(Packet)]]
      /\ \A u \in Transfers : PacketsLeave(u)
      /\ p \in Packets(m, n, t)
      /\ \A r \in Packets(m, n, t)' : Precedes(tcp[m][n], p, r)
    BY <1>3, <1>4 DEF Packet
<1>7. /\ pkt \in Packet /\ pkt.id = t /\ pkt.seq = p.seq /\ pkt.ttl = Decremented(p.ttl)
      /\ pkt.ttl \in 0 .. MaxTTL
    <2>1. Decremented(p.ttl) \in 0 .. MaxTTL
        BY <1>6, DataBoundsAssumption DEF Decremented
    <2> QED BY <1>6, <2>1 DEF Packet
<1>8. Passed(p) = [pkt |-> pkt, own |-> FALSE]
    BY DEF Passed
<1> HIDE DEF t, pkt
<1>9. CASE pkt.ttl = 0 /\ Drop(pkt)
    <2>1. NoPush /\ UNCHANGED <<stats, fileData, file>>
        BY <1>9 DEF Drop
    <2>2. /\ expired' \in [Transfers -> SUBSET Nat]
          /\ \A u \in Transfers : u # t => expired'[u] = expired[u]
        BY <1>1, <1>6, <1>7, <1>9 DEF Drop, Types
    <2>3. Types'
        BY <1>1, <1>2, <1>6, <2>1, <2>2 DEF Types, NoPush
    <2>4. \A u \in Transfers : Quiet(u)
        BY <1>1, <1>2, <1>6, <2>1, NoPushView DEF Quiet
    <2>5. \A u \in Transfers : u # t => Flow(u)'
        BY <1>1, <2>2, <2>4, QuietNoDrop
    <2>6. \E k \in Nat : <<1, k>> \in stats[m][t] /\ (m = Dest[t] => InitTTL[t] = 1)
        <3>1. p.ttl = 1
            BY <1>1, <1>6, <1>7, <1>9, FlowTypes, HopFacts
        <3>2. Flow(t) /\ p \in Packets(m, n, t) /\ p.seq \in Nat
            BY <1>1, <1>6
        <3>3. <<p.ttl, p.seq>> \in stats[m][t] /\ (m = Dest[t] => p.ttl = InitTTL[t])
            BY <3>2 DEF Flow, InFlight
        <3> QED BY <3>1, <3>2, <3>3
    <2>7. Flow(t)'
        BY <1>1, <1>6, <2>4, <2>6, QuietKeeps
    <2> QED BY <2>3, <2>5, <2>7 DEF FlowInv
<1>10. CASE pkt.ttl # 0 /\ n = Dest[pkt.id] /\ Deliver(n, pkt)
    <2>1. NoPush /\ UNCHANGED expired
        BY <1>10 DEF Deliver
    <2>2. /\ stats' = [stats EXCEPT ![n][t] = stats[n][t] \cup {<<pkt.ttl, p.seq>>}]
          /\ fileData' = [fileData EXCEPT ![t] = IF Fin(pkt) THEN <<>>
                                                 ELSE Append(fileData[t], p.seq)]
          /\ file' = IF Fin(pkt) THEN [file EXCEPT ![t] = Append(fileData[t], p.seq)] ELSE file
        BY <1>7, <1>10 DEF Deliver
    <2>3. /\ Append(fileData[t], p.seq) \in Seq(Nat)
          /\ \A k \in Range(Append(fileData[t], p.seq)) : k \in Range(fileData[t]) \/ k = p.seq
        BY <1>1, <1>6, AppendView DEF Types
    <2>4. stats' \in [Routers -> [Transfers -> SUBSET ((0 .. MaxTTL) \X Nat)]]
        <3>1. <<pkt.ttl, p.seq>> \in (0 .. MaxTTL) \X Nat
            BY <1>6, <1>7
        <3>2. stats[n][t] \in SUBSET ((0 .. MaxTTL) \X Nat)
            BY <1>1, <1>6 DEF Types
        <3>3. stats[n][t] \cup {<<pkt.ttl, p.seq>>} \in SUBSET ((0 .. MaxTTL) \X Nat)
            BY <3>1, <3>2, Zenon
        <3> QED BY <1>1, <1>6, <2>2, <3>3 DEF Types
    <2>5. fileData' \in [Transfers -> Seq(Nat)] /\ file' \in [Transfers -> Seq(Nat)]
        <3> DEFINE data == Append(fileData[t], p.seq)
        <3>1. data \in Seq(Nat) /\ <<>> \in Seq(Nat)
            BY <2>3
        <3>2. /\ fileData' = [fileData EXCEPT ![t] = IF Fin(pkt) THEN <<>> ELSE data]
              /\ file' = IF Fin(pkt) THEN [file EXCEPT ![t] = data] ELSE file
            BY <2>2
        <3>3. /\ fileData \in [Transfers -> Seq(Nat)] /\ file \in [Transfers -> Seq(Nat)]
            BY <1>1 DEF Types
        <3> HIDE DEF data
        <3>4. CASE Fin(pkt)
            BY <3>1, <3>2, <3>3, <3>4
        <3>5. CASE ~Fin(pkt)
            BY <3>1, <3>2, <3>3, <3>5
        <3> QED BY <3>4, <3>5
    <2>6. Types'
        BY <1>1, <1>2, <1>6, <2>1, <2>4, <2>5 DEF Types, NoPush
    <2>7. ASSUME NEW u \in Transfers, u # t
          PROVE  Flow(u)'
        <3>1. /\ \A l \in Routers : stats'[l][u] = stats[l][u]
              /\ UNCHANGED <<fileData[u], file[u]>>
            BY <1>1, <2>2, <2>7 DEF Types
        <3>2. Quiet(u)
            BY <1>1, <1>2, <1>6, <2>1, <3>1, NoPushView DEF Quiet
        <3> QED BY <1>1, <2>1, <3>2, QuietNoDrop
    <2>8. Flow(t)'
        <3>1. Reads(m, n, t, p)
            BY <1>1, <1>2, <1>6, <1>7, <1>10, <2>1, NoPushView DEF Reads
        <3>2. \A l \in Routers :
                  /\ queue'[l][t] = queue[l][t]
                  /\ stats'[l][t] = IF l = n THEN stats[n][t] \cup {<<Decremented(p.ttl), p.seq>>}
                                    ELSE stats[l][t]
            BY <1>1, <1>6, <1>7, <2>1, <2>2, NoPushView DEF Types
        <3>3. \A k \in Range(fileData'[t]) : k \in Range(fileData[t]) \/ k = p.seq
            <4>1. CASE Fin(pkt)
                <5>1. fileData'[t] = <<>>
                    BY <1>1, <1>6, <2>2, <4>1 DEF Types
                <5>2. Range(fileData'[t]) = {}
                    BY <5>1 DEF Range
                <5> QED BY <5>2
            <4>2. CASE ~Fin(pkt)
                <5>1. fileData'[t] = Append(fileData[t], p.seq)
                    BY <1>1, <1>6, <2>2, <4>2 DEF Types
                <5> QED BY <2>3, <5>1
            <4> QED BY <4>1, <4>2
        <3>4. file'[t] # <<>> => file[t] # <<>> \/ p.seq = Size[t]
            BY <1>6, <1>7, <2>2 DEF Fin, Types
        <3>5. Stores(m, n, t, p)
            BY <1>7, <1>10, <2>1, <3>1, <3>2, <3>3, <3>4 DEF Stores
        <3> QED BY <1>1, <1>6, <3>5, StoresKeeps
    <2> QED BY <2>6, <2>7, <2>8 DEF FlowInv
<1>11. CASE pkt.ttl # 0 /\ n # Dest[pkt.id] /\ Forward(n, pkt)
    <2> DEFINE one == <<Passed(p)>>
    <2>1. UNCHANGED <<stats, fileData, file, expired>> /\ Route(n, t, one)
        BY <1>7, <1>8, <1>11 DEF Forward
    <2>2. one \in Seq(Chunk) /\ Range(one) = {Passed(p)} /\ \A a, b : ~Precedes(one, a, b)
        <3>1. Passed(p) \in Chunk
            BY <1>7, <1>8 DEF Chunk
        <3>2. DOMAIN one = {1} /\ one[1] = Passed(p)
            OBVIOUS
        <3> QED BY <3>1, <3>2 DEF Range, Precedes
    <2> HIDE DEF one
    <2>3. CASE NoPush
        <3>1. Types'
            BY <1>1, <1>2, <1>6, <2>1, <2>3 DEF Types, NoPush
        <3>2. \A u \in Transfers : Quiet(u)
            BY <1>1, <1>2, <1>6, <2>1, <2>3, NoPushView DEF Quiet
        <3> QED BY <1>1, <2>1, <3>1, <3>2, QuietNoDrop DEF FlowInv
    <2>4. CASE \E h \in Routers : Push(n, t, one, h)
        <3>1. PICK h \in Routers : Push(n, t, one, h)
            BY <2>4
        <3>2. /\ connected' \in [Routers -> SUBSET Routers]
              /\ pin' \in [Routers -> [Transfers -> Routers \cup {NoHop}]]
              /\ queue' \in [Routers -> [Transfers -> Seq(Chunk)]]
              /\ writable' \in [Routers -> SUBSET Routers]
              /\ \A u \in Transfers : PinsStay(u)
              /\ \A l \in Routers, u \in Transfers : l # n \/ u # t => queue'[l][u] = queue[l][u]
              /\ Chunks(n, t)' = Chunks(n, t) \cup {Passed(p)}
              /\ \A a, b : Precedes(queue'[n][t], a, b) =>
                     \/ Precedes(queue[n][t], a, b)
                     \/ a \in Chunks(n, t) /\ b = Passed(p)
            <4>1. /\ Chunks(n, t)' = Chunks(n, t) \cup Range(one)
                  /\ \A a, b : Precedes(queue'[n][t], a, b) =>
                         \/ Precedes(queue[n][t], a, b) \/ Precedes(one, a, b)
                         \/ a \in Chunks(n, t) /\ b \in Range(one)
                BY <1>1, <1>6, <2>2, <3>1, PushView
            <4> QED BY <1>1, <1>6, <2>2, <3>1, <4>1, PushView
        <3>3. Types'
            BY <1>1, <1>2, <1>6, <2>1, <3>2 DEF Types
        <3>4. ASSUME NEW u \in Transfers, u # t
              PROVE  Flow(u)'
            <4>1. Quiet(u)
                BY <1>2, <1>6, <2>1, <3>2, <3>4 DEF Quiet
            <4> QED BY <1>1, <2>1, <4>1, QuietNoDrop
        <3>5. Flow(t)'
            <4>1. Reads(m, n, t, p)
                BY <1>2, <1>6, <1>7, <1>11, <3>2 DEF Reads
            <4>2. \A l \in Routers : l # n => Chunks(l, t)' = Chunks(l, t)
                BY <1>6, <3>2 DEF Chunks
            <4>3. \A a, b : Precedes(queue[n][t], a, b) => a \in Chunks(n, t) /\ b \in Chunks(n, t)
                BY DEF Precedes, Chunks, Range
            <4>4. ASSUME NEW l \in Routers
                  PROVE  \A a, b : Precedes(queue'[l][t], a, b) =>
                             \/ a \in Chunks(l, t) /\ b \in Chunks(l, t) /\ Precedes(queue[l][t], a, b)
                             \/ l = n /\ a \in Chunks(n, t) /\ b = Passed(p)
                <5>1. CASE l = n
                    BY <3>2, <4>3, <5>1
                <5>2. CASE l # n
                    BY <1>6, <3>2, <5>2 DEF Precedes, Chunks, Range
                <5> QED BY <5>1, <5>2
            <4>5. Forwards(m, n, t, p)
                BY <1>7, <1>11, <2>1, <3>2, <4>1, <4>2, <4>4 DEF Forwards
            <4> QED BY <1>1, <1>6, <4>5, ForwardsKeeps
        <3> QED BY <3>3, <3>4, <3>5 DEF FlowInv
    <2> QED BY <1>1, <1>6, <2>1, <2>3, <2>4, RouteView
<1> QED BY <1>5, <1>9, <1>10, <1>11

\* Taking the first chunks of some transfers, whatever becomes of the packets.
LEMMA TakeChunksKeeps ==
    ASSUME FlowInv, NEW n \in Routers, NEW h \in Routers, NEW ts \in SUBSET Sendable(n, h),
           TakeChunks(n, ts), UNCHANGED <<requested, pin, fileData, file, expired>>,
           \A t \in Transfers \ ts : PacketsLeave(t),
           \A t \in ts, c \in Chunk : c = Head(queue[n][t]) => Sends(n, h, t, c.pkt)
    PROVE  /\ queue' \in [Routers -> [Transfers -> Seq(Chunk)]]
           /\ stats' \in [Routers -> [Transfers -> SUBSET ((0 .. MaxTTL) \X Nat)]]
           /\ answers' \in [Transfers -> Nat]
           /\ \A t \in Transfers : Flow(t)'
<1>1. Types /\ \A u \in Transfers : Flow(u)
    BY DEF FlowInv
<1>2. \A t \in ts : /\ t \in Transfers /\ pin[n][t] = h
                    /\ queue[n][t] \in Seq(Chunk) /\ queue[n][t] # <<>>
    BY <1>1 DEF Sendable, Types
<1>3. \A l \in Routers, t \in Transfers :
          /\ l # n \/ t \notin ts => queue'[l][t] = queue[l][t]
          /\ l = n /\ t \in ts => queue'[l][t] = Tail(queue[n][t])
    BY <1>1 DEF TakeChunks, Types
<1>4. \A t \in ts :
          LET c == Head(queue[n][t])
          IN  /\ c \in Chunk /\ Tail(queue[n][t]) \in Seq(Chunk) /\ c \in Chunks(n, t)
              /\ Range(Tail(queue[n][t])) \subseteq Chunks(n, t)
              /\ Chunks(n, t) \subseteq Range(Tail(queue[n][t])) \cup {c}
              /\ \A a, b : Precedes(Tail(queue[n][t]), a, b) => Precedes(queue[n][t], a, b)
              /\ \A b \in Range(Tail(queue[n][t])) : Precedes(queue[n][t], c, b)
    BY <1>2, TailView DEF Chunks
<1>5. queue' \in [Routers -> [Transfers -> Seq(Chunk)]]
    <2>1. [t \in Transfers |-> IF t \in ts THEN Tail(queue[n][t]) ELSE queue[n][t]]
              \in [Transfers -> Seq(Chunk)]
        BY <1>1, <1>4 DEF Types
    <2> QED BY <1>1, <2>1 DEF TakeChunks, Types
<1>6. \A l \in Routers, t \in Transfers :
          stats'[l][t] = IF l = n /\ t \in ts
                         THEN stats[n][t] \cup {<<Head(queue[n][t]).pkt.ttl, Head(queue[n][t]).pkt.seq>>}
                         ELSE stats[l][t]
    <2> DEFINE chunk == [t \in ts |-> Head(queue[n][t])]
               new(t) == {<<chunk[u].pkt.ttl, chunk[u].pkt.seq>> : u \in ts \cap {t}}
    <2>1. \A t \in ts : new(t) = {<<Head(queue[n][t]).pkt.ttl, Head(queue[n][t]).pkt.seq>>}
        OBVIOUS
    <2>2. \A t \in Transfers : t \notin ts => new(t) = {}
        OBVIOUS
    <2>3. stats' = [stats EXCEPT ![n] = [t \in Transfers |-> stats[n][t] \cup new(t)]]
        BY DEF TakeChunks
    <2> HIDE DEF new, chunk
    <2> SUFFICES ASSUME NEW l \in Routers, NEW t \in Transfers
                 PROVE  stats'[l][t] = IF l = n /\ t \in ts
                            THEN stats[n][t] \cup {<<Head(queue[n][t]).pkt.ttl, Head(queue[n][t]).pkt.seq>>}
                            ELSE stats[l][t]
        OBVIOUS
    <2>4. stats'[l][t] = IF l = n THEN stats[n][t] \cup new(t) ELSE stats[l][t]
        BY <1>1, <2>3 DEF Types
    <2>5. CASE l = n /\ t \in ts
        BY <2>1, <2>4, <2>5
    <2>6. CASE l = n /\ t \notin ts
        BY <2>2, <2>4, <2>6
    <2>7. CASE l # n
        BY <2>4, <2>7
    <2> QED BY <2>5, <2>6, <2>7
<1>7. \A t \in Transfers :
          answers'[t] = IF t \in ts /\ Answers(Head(queue[n][t])) THEN answers[t] + 1 ELSE answers[t]
    BY DEF TakeChunks
<1>8. \A t \in Transfers : answers[t] \in Nat
    BY <1>1 DEF Types
<1>9. answers' \in [Transfers -> Nat]
    <2>1. answers' = [t \in Transfers |->
              IF t \in ts /\ Answers(Head(queue[n][t])) THEN answers[t] + 1 ELSE answers[t]]
        BY DEF TakeChunks
    <2> QED BY <1>8, <2>1
<1>10. stats' \in [Routers -> [Transfers -> SUBSET ((0 .. MaxTTL) \X Nat)]]
    <2> DEFINE S == (0 .. MaxTTL) \X Nat
    <2>1. \A t \in ts : <<Head(queue[n][t]).pkt.ttl, Head(queue[n][t]).pkt.seq>> \in S
        BY <1>4 DEF Chunk, Packet
    <2>2. \A l \in Routers, t \in Transfers : stats[l][t] \in SUBSET S
        BY <1>1 DEF Types
    <2> HIDE DEF S
    <2>3. \A l \in Routers, t \in Transfers : stats'[l][t] \in SUBSET S
        <3> SUFFICES ASSUME NEW l \in Routers, NEW t \in Transfers
                     PROVE  stats'[l][t] \in SUBSET S
            OBVIOUS
        <3>1. CASE l = n /\ t \in ts
            <4> DEFINE e == <<Head(queue[n][t]).pkt.ttl, Head(queue[n][t]).pkt.seq>>
            <4>1. e \in S /\ stats'[l][t] = stats[n][t] \cup {e}
                BY <1>6, <2>1, <3>1
            <4> HIDE DEF e
            <4> QED BY <2>2, <4>1
        <3>2. CASE ~(l = n /\ t \in ts)
            BY <1>6, <2>2, <3>2
        <3> QED BY <3>1, <3>2
    <2>4. /\ stats' = [l \in Routers |-> stats'[l]]
          /\ \A l \in Routers : stats'[l] = [t \in Transfers |-> stats'[l][t]]
        BY <1>1 DEF TakeChunks, Types
    <2>5. \A l \in Routers : stats'[l] \in [Transfers -> SUBSET S]
        BY <2>3, <2>4
    <2> QED BY <2>4, <2>5 DEF S
<1>11. \A t \in Transfers : PinsStay(t)
    BY DEF PinsStay
<1>12. ASSUME NEW t \in Transfers, t \notin ts
       PROVE  Flow(t)'
    <2>1. Quiet(t)
        BY <1>3, <1>6, <1>7, <1>11, <1>12 DEF Quiet
    <2> QED BY <1>1, <2>1, QuietNoDrop
<1>13. ASSUME NEW t \in ts
       PROVE  Flow(t)'
    <2>1. PICK c \in Chunk : c = Head(queue[n][t])
        BY <1>4
    <2>2. t \in Transfers /\ pin[n][t] = h /\ c \in Chunks(n, t)
        BY <1>2, <1>4, <2>1
    <2>3. t \in requested
        BY <1>1, <2>2 DEF Flow, NothingBefore
    <2>4. \A l \in Routers : l # n => Chunks(l, t)' = Chunks(l, t)
        BY <1>3, <2>2 DEF Chunks
    <2>5. Chunks(n, t)' = Range(Tail(queue[n][t])) /\ queue'[n][t] = Tail(queue[n][t])
        BY <1>3, <2>2 DEF Chunks
    <2>6. ASSUME NEW l \in Routers
          PROVE  /\ Chunks(l, t)' \subseteq Chunks(l, t)
                 /\ \A d \in Chunks(l, t) : d \in Chunks(l, t)' \/ (l = n /\ d = c)
                 /\ \A a, b \in Chunks(l, t)' :
                        Precedes(queue'[l][t], a, b) => Precedes(queue[l][t], a, b)
        <3>1. CASE l = n
            BY <1>4, <2>1, <2>5, <3>1
        <3>2. CASE l # n
            BY <1>3, <2>2, <2>4, <3>2
        <3> QED BY <3>1, <3>2
    <2>7. \A d \in Chunks(n, t)' : Precedes(queue[n][t], c, d)
        BY <1>4, <2>1, <2>5
    <2>8. \A l \in Routers :
              stats'[l][t] = IF l = n THEN stats[n][t] \cup {<<c.pkt.ttl, c.pkt.seq>>} ELSE stats[l][t]
        BY <1>6, <2>1, <2>2
    <2>9. answers'[t] = IF Answers(c) THEN answers[t] + 1 ELSE answers[t]
        BY <1>7, <2>1, <2>2
    <2>10. Sends(n, h, t, c.pkt)
        BY <2>1
    <2>11. Takes(n, h, t, c)
        BY <1>11, <2>2, <2>3, <2>6, <2>7, <2>8, <2>9, <2>10 DEF Takes
    <2> QED BY <1>1, <1>8, <2>2, <2>11, TakesKeeps
<1> QED BY <1>5, <1>9, <1>10, <1>12, <1>13


\* What write_handler appends to a connection: for each transfer it finds
\* something of, the packet of the first chunk.
LEMMA WrittenView ==
    ASSUME FlowInv, NEW n \in Routers, NEW h \in Routers, NEW ids \in InOrder(Sendable(n, h)),
           NEW w, w = Written(n, h, ids)
    PROVE  /\ w \in Seq(Packet)
           /\ \A p \in Range(w) : p \in Range(tcp[n][h]) \/
                  (p.id \in Sendable(n, h) /\ p = Head(queue[n][p.id]).pkt)
           /\ \A p, r : Precedes(w, p, r) /\ p.id = r.id =>
                  \/ Precedes(tcp[n][h], p, r)
                  \/ /\ p \in Range(tcp[n][h])
                     /\ r.id \in Sendable(n, h) /\ r = Head(queue[n][r.id]).pkt
<1> DEFINE ts == Sendable(n, h)
           s == tcp[n][h]
           u == [i \in DOMAIN ids |-> Head(queue[n][ids[i]]).pkt]
<1>1. Types /\ \A t \in Transfers : Flow(t)
    BY DEF FlowInv
<1>2. s \in Seq(Packet) /\ ts \subseteq Transfers /\ ts \subseteq Nat
    <2>1. ts \subseteq Transfers
        BY DEF Sendable
    <2>2. s \in Seq(Packet)
        BY <1>1 DEF Types
    <2> QED BY <2>1, <2>2, TransfersAssumption
<1>3. Cardinality(ts) \in Nat
    BY <1>2, TransfersAssumption, FS_Subset, FS_CardinalityType
<1>4. /\ ids \in [1 .. Cardinality(ts) -> ts]
      /\ \A i, j \in DOMAIN ids : i < j => ids[i] < ids[j]
    BY DEF InOrder
<1>5. \A t \in ts : /\ Head(queue[n][t]).pkt \in Packet
                    /\ Head(queue[n][t]).pkt.id = t
    <2> SUFFICES ASSUME NEW t \in ts
                 PROVE  Head(queue[n][t]).pkt \in Packet /\ Head(queue[n][t]).pkt.id = t
        OBVIOUS
    <2>1. t \in Transfers /\ queue[n][t] \in Seq(Chunk) /\ queue[n][t] # <<>>
        BY <1>1 DEF Types, Sendable
    <2>2. Head(queue[n][t]) \in Chunk /\ Head(queue[n][t]) \in Chunks(n, t)
        BY <2>1, TailView DEF Chunks
    <2>3. Head(queue[n][t]).pkt.id = t
        BY <1>1, <2>1, <2>2 DEF Flow, WellFormed
    <2> QED BY <2>2, <2>3 DEF Chunk
<1>6. DOMAIN ids = 1 .. Cardinality(ts) /\ \A i \in DOMAIN ids : ids[i] \in ts
    BY <1>4
<1> HIDE DEF ts
<1>7. /\ DOMAIN u = 1 .. Cardinality(ts)
      /\ \A i \in DOMAIN u : /\ ids[i] \in ts /\ u[i] = Head(queue[n][ids[i]]).pkt
                             /\ u[i] \in Packet /\ u[i].id = ids[i]
    BY <1>5, <1>6
<1>8. u \in Seq(Packet)
    BY <1>3, <1>7
<1>9. \A p \in Range(u) : p.id \in ts /\ p = Head(queue[n][p.id]).pkt
    BY <1>7 DEF Range
<1>10. \A p, r : Precedes(u, p, r) => p.id # r.id
    <2> SUFFICES ASSUME NEW i \in DOMAIN u, NEW j \in DOMAIN u, i < j
                 PROVE  u[i].id # u[j].id
        BY DEF Precedes
    <2>1. ids[i] < ids[j] /\ ids[i] \in Nat /\ ids[j] \in Nat
        BY <1>2, <1>4, <1>6, <1>7
    <2> QED BY <1>7, <2>1
<1>11. w = s \/ w = s \o u
    BY DEF Written
<1> HIDE DEF s, u
<1>12. CASE w = s
    <2>1. \A p, r : Precedes(w, p, r) => Precedes(s, p, r)
        BY <1>12
    <2> QED BY <1>2, <1>12, <2>1 DEF s
<1>13. CASE w = s \o u
    <2>1. /\ w \in Seq(Packet)
          /\ Range(w) = Range(s) \cup Range(u)
          /\ \A a, b : Precedes(w, a, b) =>
                 \/ Precedes(s, a, b) \/ Precedes(u, a, b)
                 \/ a \in Range(s) /\ b \in Range(u)
        BY <1>2, <1>8, <1>13, ConcatView
    <2> QED BY <1>9, <1>10, <2>1 DEF s, ts
<1> QED BY <1>11, <1>12, <1>13

LEMMA WriteHandlerKeeps ==
    ASSUME FlowInv, NEW n \in Routers, NEW h \in Routers, WriteHandler(n, h)
    PROVE  FlowInv'
<1> DEFINE ts == Sendable(n, h)
<1>1. Types /\ \A u \in Transfers : Flow(u)
    BY DEF FlowInv
<1>2. /\ TakeChunks(n, ts)
      /\ UNCHANGED <<requested, route, connected, pin, fileData, file, expired, down, reroutes>>
      /\ writable' \in [Routers -> SUBSET Routers]
    <2>1. PICK ws \in SUBSET Routers : writable' = [writable EXCEPT ![n] = ws]
        <3>1. writable[n] \ {h} \in SUBSET Routers /\ writable[n] \in SUBSET Routers
            BY <1>1 DEF Types
        <3>2. DisableWrite(n, h) = [writable EXCEPT ![n] = writable[n] \ {h}]
            BY DEF DisableWrite
        <3>3. writable' = DisableWrite(n, h) \/ writable' = [writable EXCEPT ![n] = writable[n]]
            BY <1>1 DEF WriteHandler, Types
        <3> QED BY <3>1, <3>2, <3>3
    <2>2. writable' \in [Routers -> SUBSET Routers]
        BY <1>1, <2>1 DEF Types
    <2> QED BY <2>2 DEF WriteHandler
<1>3. PICK w : /\ w \in Seq(Packet)
               /\ tcp' = [tcp EXCEPT ![n][h] = w]
               /\ \A p \in Range(w) : p \in Range(tcp[n][h]) \/
                      (p.id \in ts /\ p = Head(queue[n][p.id]).pkt)
               /\ \A p, r : Precedes(w, p, r) /\ p.id = r.id =>
                      \/ Precedes(tcp[n][h], p, r)
                      \/ /\ p \in Range(tcp[n][h])
                         /\ r.id \in ts /\ r = Head(queue[n][r.id]).pkt
    <2>1. PICK ids \in InOrder(ts) : tcp' = [tcp EXCEPT ![n][h] = Written(n, h, ids)]
        BY DEF WriteHandler
    <2>2. PICK w : w = Written(n, h, ids)
        OBVIOUS
    <2>3. /\ w \in Seq(Packet)
          /\ \A p \in Range(w) : p \in Range(tcp[n][h]) \/
                 (p.id \in ts /\ p = Head(queue[n][p.id]).pkt)
          /\ \A p, r : Precedes(w, p, r) /\ p.id = r.id =>
                 \/ Precedes(tcp[n][h], p, r)
                 \/ /\ p \in Range(tcp[n][h])
                    /\ r.id \in ts /\ r = Head(queue[n][r.id]).pkt
        BY <2>2, WrittenView
    <2>4. tcp' = [tcp EXCEPT ![n][h] = w]
        BY <2>1, <2>2
    <2> QED BY <2>3, <2>4
<1>4. /\ tcp' \in [Routers -> [Routers -> Seq(Packet)]]
      /\ \A k, l \in Routers : tcp'[k][l] = IF k = n /\ l = h THEN w ELSE tcp[k][l]
    BY <1>1, <1>3 DEF Types
<1>5. \A k, l \in Routers : \A p, r :
          Precedes(tcp[k][l], p, r) => p \in Range(tcp[k][l]) /\ r \in Range(tcp[k][l])
    BY DEF Precedes, Range
<1>6. \A t \in Transfers \ ts : PacketsLeave(t)
    <2> SUFFICES ASSUME NEW t \in Transfers \ ts, NEW k \in Routers, NEW l \in Routers
                 PROVE  /\ Packets(k, l, t)' \subseteq Packets(k, l, t)
                        /\ \A p, r \in Packets(k, l, t)' :
                               Precedes(tcp'[k][l], p, r) => Precedes(tcp[k][l], p, r)
        BY DEF PacketsLeave
    <2>1. CASE k = n /\ l = h
        BY <1>3, <1>4, <2>1 DEF Packets
    <2>2. CASE ~(k = n /\ l = h)
        BY <1>4, <2>2 DEF Packets
    <2> QED BY <2>1, <2>2
<1>7. \A t \in ts, c \in Chunk : c = Head(queue[n][t]) => Sends(n, h, t, c.pkt)
    <2> SUFFICES ASSUME NEW t \in ts, NEW c \in Chunk, c = Head(queue[n][t]),
                        NEW k \in Routers, NEW l \in Routers
                 PROVE  /\ \A p \in Packets(k, l, t)' :
                               p \in Packets(k, l, t) \/ (k = n /\ l = h /\ p = c.pkt)
                        /\ \A p, r \in Packets(k, l, t)' : Precedes(tcp'[k][l], p, r) =>
                               \/ /\ p \in Packets(k, l, t) /\ r \in Packets(k, l, t)
                                  /\ Precedes(tcp[k][l], p, r)
                               \/ k = n /\ l = h /\ p \in Packets(n, h, t) /\ r = c.pkt
        BY DEF Sends
    <2>1. CASE k = n /\ l = h
        <3>1. \A p \in Packets(k, l, t)' : p \in Packets(k, l, t) \/ p = c.pkt
            BY <1>3, <1>4, <2>1 DEF Packets
        <3>2. ASSUME NEW p \in Packets(k, l, t)', NEW r \in Packets(k, l, t)', Precedes(w, p, r)
              PROVE  \/ /\ p \in Packets(k, l, t) /\ r \in Packets(k, l, t)
                        /\ Precedes(tcp[k][l], p, r)
                     \/ p \in Packets(n, h, t) /\ r = c.pkt
            <4>1. p.id = t /\ r.id = t
                BY DEF Packets
            <4>2. CASE Precedes(tcp[n][h], p, r)
                BY <1>5, <2>1, <4>1, <4>2 DEF Packets
            <4>3. CASE p \in Range(tcp[n][h]) /\ r = Head(queue[n][r.id]).pkt
                BY <4>1, <4>3 DEF Packets
            <4> QED BY <1>3, <3>2, <4>1, <4>2, <4>3
        <3> QED BY <1>4, <2>1, <3>1, <3>2
    <2>2. CASE ~(k = n /\ l = h)
        BY <1>4, <1>5, <2>2 DEF Packets
    <2> QED BY <2>1, <2>2
<1>8. /\ queue' \in [Routers -> [Transfers -> Seq(Chunk)]]
      /\ stats' \in [Routers -> [Transfers -> SUBSET ((0 .. MaxTTL) \X Nat)]]
      /\ answers' \in [Transfers -> Nat]
      /\ \A t \in Transfers : Flow(t)'
    BY <1>2, <1>6, <1>7, TakeChunksKeeps
<1>9. Types'
    BY <1>1, <1>2, <1>4, <1>8 DEF Types
<1> QED BY <1>8, <1>9 DEF FlowInv

\* What is lost with a router that goes down.
LEMMA GoesDownView ==
    ASSUME Types, NEW n \in Routers, GoesDown(n)
    PROVE  /\ down' \subseteq Routers
           /\ tcp' \in [Routers -> [Routers -> Seq(Packet)]]
           /\ \A t \in Transfers : PacketsLeave(t)
<1>1. \A k, l \in Routers : tcp'[k][l] = IF l = n THEN <<>> ELSE tcp[k][l]
    BY DEF GoesDown, Types
<1>2. tcp' \in [Routers -> [Routers -> Seq(Packet)]]
    BY DEF GoesDown, Types
<1>3. \A t \in Transfers : PacketsLeave(t)
    <2> SUFFICES ASSUME NEW t \in Transfers, NEW k \in Routers, NEW l \in Routers
                 PROVE  /\ Packets(k, l, t)' \subseteq Packets(k, l, t)
                        /\ \A p, r \in Packets(k, l, t)' :
                               Precedes(tcp'[k][l], p, r) => Precedes(tcp[k][l], p, r)
        BY DEF PacketsLeave
    <2>1. CASE l = n
        BY <1>1, <2>1 DEF Packets, Range
    <2>2. CASE l # n
        BY <1>1, <2>2 DEF Packets
    <2> QED BY <2>1, <2>2
<1> QED BY <1>2, <1>3 DEF GoesDown, Types

LEMMA BrokenKeeps ==
    ASSUME FlowInv, NEW n \in Routers, NEW h \in Routers, Broken(n, h)
    PROVE  FlowInv'
<1>1. Types /\ \A u \in Transfers : Flow(u)
    BY DEF FlowInv
<1>2. /\ UNCHANGED <<requested, route, connected, pin, writable, fileData, file, expired, reroutes>>
      /\ GoesDown(n)
    BY DEF Broken
<1>3. PICK ts \in SUBSET Sendable(n, h) : TakeChunks(n, ts)
    BY DEF Broken
<1>4. /\ down' \subseteq Routers
      /\ tcp' \in [Routers -> [Routers -> Seq(Packet)]]
      /\ \A t \in Transfers : PacketsLeave(t)
    BY <1>1, <1>2, GoesDownView
<1>5. \A t \in ts, c \in Chunk : c = Head(queue[n][t]) => Sends(n, h, t, c.pkt)
    <2>1. ts \subseteq Transfers
        BY DEF Sendable
    <2> QED BY <1>4, <2>1 DEF Sends, PacketsLeave
<1>6. /\ queue' \in [Routers -> [Transfers -> Seq(Chunk)]]
      /\ stats' \in [Routers -> [Transfers -> SUBSET ((0 .. MaxTTL) \X Nat)]]
      /\ answers' \in [Transfers -> Nat]
      /\ \A t \in Transfers : Flow(t)'
    BY <1>2, <1>3, <1>4, <1>5, TakeChunksKeeps
<1>7. Types'
    BY <1>1, <1>2, <1>4, <1>6 DEF Types
<1> QED BY <1>6, <1>7 DEF FlowInv

LEMMA CrashNowKeeps ==
    ASSUME FlowInv, NEW n \in Routers, CrashNow(n)
    PROVE  FlowInv'
<1>1. Types /\ \A u \in Transfers : Flow(u)
    BY DEF FlowInv
<1>2. /\ GoesDown(n)
      /\ UNCHANGED <<requested, route, connected, pin, queue, writable, stats,
                     fileData, file, answers, expired, reroutes>>
    BY DEF CrashNow
<1>3. /\ down' \subseteq Routers
      /\ tcp' \in [Routers -> [Routers -> Seq(Packet)]]
      /\ \A t \in Transfers : PacketsLeave(t)
    BY <1>1, <1>2, GoesDownView
<1>4. Types'
    BY <1>1, <1>2, <1>3 DEF Types
<1>5. \A t \in Transfers : Quiet(t)
    BY <1>2, <1>3 DEF Quiet, PinsStay
<1> QED BY <1>1, <1>2, <1>4, <1>5, QuietNoDrop DEF FlowInv

\* What moves nothing of any transfer.
LEMMA StillKeeps ==
    ASSUME FlowInv, Types',
           UNCHANGED <<requested, pin, queue, tcp, stats, fileData, file, answers, expired>>
    PROVE  FlowInv'
<1>1. \A t \in Transfers : Quiet(t)
    BY DEF Quiet, PinsStay, PacketsLeave, Packets
<1> QED BY <1>1, QuietNoDrop DEF FlowInv

LEMMA RerouteKeeps ==
    ASSUME FlowInv, NEW n \in Routers, NEW d \in Routers, Reroute(n, d)
    PROVE  FlowInv'
<1>1. Types
    BY DEF FlowInv
<1>2. PICK h \in RouteChoices[n][d] : route' = [route EXCEPT ![n][d] = h]
    BY DEF Reroute
<1>3. h \in Routers \cup {NoHop}
    BY RoutesAssumption
<1>4. route' \in [Routers -> [Routers -> Routers \cup {NoHop}]]
    BY <1>1, <1>2, <1>3 DEF Types
<1>5. reroutes' \in 0 .. MaxReroutes
    BY <1>1, DataBoundsAssumption DEF Types, Reroute
<1>6. Types'
    BY <1>1, <1>4, <1>5 DEF Types, Reroute
<1> QED BY <1>6, StillKeeps DEF Reroute

-------------------------------------------------------------------------------
(***************************************************************************)
(* The induction.                                                          *)
(***************************************************************************)

\* Nothing is anywhere, whatever is connected.
LEMMA FlowStart ==
    ASSUME Types,
           queue = [n \in Routers |-> [t \in Transfers |-> <<>>]],
           tcp = [n \in Routers |-> [h \in Routers |-> <<>>]],
           stats = [n \in Routers |-> [t \in Transfers |-> {}]],
           fileData = [t \in Transfers |-> <<>>],
           file = [t \in Transfers |-> <<>>],
           answers = [t \in Transfers |-> 0],
           expired = [t \in Transfers |-> {}]
    PROVE  FlowInv
<1>1. ASSUME NEW t \in Transfers
      PROVE  Flow(t)
    <2>1. /\ \A n \in Routers : queue[n][t] = <<>> /\ stats[n][t] = {}
          /\ \A m, n \in Routers : tcp[m][n] = <<>>
          /\ fileData[t] = <<>> /\ file[t] = <<>> /\ answers[t] = 0 /\ expired[t] = {}
        OBVIOUS
    <2>2. /\ \A n \in Routers : Chunks(n, t) = {}
          /\ \A m, n \in Routers : Packets(m, n, t) = {}
          /\ Range(fileData[t]) = {}
        BY <2>1 DEF Chunks, Packets, Range
    <2>3. /\ \A n \in Routers : \A x : ~Seen(n, t, x)
          /\ \A x, k : ~Counted(t, x, k)
        BY <2>1, <2>2 DEF Seen, Counted
    <2>4. NothingBefore(t) /\ WellFormed(t) /\ OnePath(t) /\ PathPinned(t) /\ InFlight(t)
        BY <2>1, <2>2, <2>3, HopFacts
           DEF NothingBefore, WellFormed, OnePath, PathPinned, InFlight
    <2>5. OwnChunks(t) /\ NoShortcut(t) /\ QueuedLater(t) /\ SentLater(t) /\ InSequence(t)
        BY <2>2, <2>3 DEF OwnChunks, NoShortcut, QueuedLater, SentLater, InSequence
    <2>6. StoredArrived(t) /\ DroppedLate(t) /\ AllSent(t)
        BY <2>1, <2>2, <2>3 DEF StoredArrived, DroppedLate, AllSent
    <2> QED BY <2>4, <2>5, <2>6 DEF Flow
<1> QED BY <1>1 DEF FlowInv

LEMMA FlowInit == Init => FlowInv
<1> SUFFICES ASSUME Init
             PROVE  FlowInv
    OBVIOUS
<1>1. Types
    BY RoutesAssumption, DataBoundsAssumption DEF Init, Types
<1> QED BY <1>1, FlowStart DEF Init

LEMMA FlowNext == FlowInv /\ [Next]_vars => FlowInv'
<1> SUFFICES ASSUME FlowInv, [Next]_vars
             PROVE  FlowInv'
    OBVIOUS
<1>1. ASSUME NEW t \in Transfers, SendFile(t)
      PROVE  FlowInv'
    BY <1>1, SendFileKeeps
<1>2. ASSUME NEW n \in Routers, NEW m \in Routers, Receive(m, n)
      PROVE  FlowInv'
    BY <1>2, ReceiveKeeps
<1>3. ASSUME NEW n \in Routers, NEW h \in Routers, WriteHandler(n, h)
      PROVE  FlowInv'
    BY <1>3, WriteHandlerKeeps
<1>4. ASSUME NEW n \in Routers, NEW h \in Routers, Broken(n, h)
      PROVE  FlowInv'
    BY <1>4, BrokenKeeps
<1>5. ASSUME NEW n \in Routers, CrashNow(n)
      PROVE  FlowInv'
    BY <1>5, CrashNowKeeps
<1>6. ASSUME NEW n \in Routers, NEW d \in Routers, Reroute(n, d)
      PROVE  FlowInv'
    BY <1>6, RerouteKeeps
<1>7. CASE UNCHANGED vars
    <2>1. Types'
        BY <1>7 DEF FlowInv, Types, vars
    <2> QED BY <1>7, <2>1, StillKeeps DEF vars
<1> QED BY <1>1, <1>2, <1>3, <1>4, <1>5, <1>6, <1>7 DEF Next

\* What the induction says holds in every reachable state.
THEOREM FlowHolds == Spec => []FlowInv
BY FlowInit, FlowNext, PTL DEF Spec

-------------------------------------------------------------------------------
(***************************************************************************)
(* What the runs check.                                                    *)
(***************************************************************************)

LEMMA FlowImpliesTypeOK == FlowInv => TypeOK
<1> SUFFICES ASSUME FlowInv
             PROVE  TypeOK
    OBVIOUS
<1>1. ASSUME NEW n \in Routers, NEW t \in Transfers
      PROVE  /\ \A i \in DOMAIN queue[n][t] : queue[n][t][i].pkt.id = t
             /\ \A e \in stats[n][t] : e[2] \in 1 .. Size[t]
    <2>1. WellFormed(t)
        BY DEF FlowInv, Flow
    <2>2. \A c \in Range(queue[n][t]) : c.pkt.id = t
        BY <2>1 DEF WellFormed, Chunks
    <2>3. \A i \in DOMAIN queue[n][t] : queue[n][t][i].pkt.id = t
        BY <2>2 DEF Range
    <2> QED BY <2>1, <2>3 DEF WellFormed
<1> QED BY <1>1 DEF FlowInv, Types, TypeOK

\* A count with the initial TTL is one of the origin.
LEMMA FirstHop ==
    ASSUME NEW t \in Transfers, Flow(t), NEW n \in Routers, Seen(n, t, InitTTL[t])
    PROVE  n = Origin[t]
<1>1. /\ InitTTL[t] \in Live(t) /\ Hops(t, InitTTL[t]) = 0
      /\ \A y \in Live(t) : Hops(t, y) \in Nat
    BY HopFacts
<1>2. \A y \in Live(t) : Hops(t, InitTTL[t]) # Hops(t, y) + 1
    BY <1>1
<1> QED BY <1>1, <1>2 DEF Flow, PathPinned

LEMMA FlowImpliesTTLSparesNone == FlowInv => TTLSparesNone
<1> SUFFICES ASSUME FlowInv, NEW t \in Transfers, expired[t] # {},
                    ~(fileData[t] = <<>> /\ file[t] = <<>>)
             PROVE  FALSE
    BY DEF TTLSparesNone
<1>1. Flow(t) /\ Types /\ Dest[t] \in Routers
    BY TransfersAssumption DEF FlowInv
<1>2. PICK m \in Routers, k \in Nat :
          <<1, k>> \in stats[m][t] /\ (m = Dest[t] => InitTTL[t] = 1)
    BY <1>1 DEF Flow, DroppedLate
<1>3. PICK j : Arrived(t, j)
    <2>1. CASE fileData[t] # <<>>
        <3>1. fileData[t] \in Seq(Nat)
            BY <1>1 DEF Types
        <3>2. Head(fileData[t]) \in Range(fileData[t])
            BY <2>1, <3>1, TailView
        <3> QED BY <1>1, <3>2 DEF Flow, StoredArrived
    <2>2. CASE file[t] # <<>>
        BY <1>1, <2>2 DEF Flow, StoredArrived
    <2> QED BY <2>1, <2>2
<1>4. PICK x \in Live(t) : x # InitTTL[t] /\ <<x, j>> \in stats[Dest[t]][t]
    BY <1>3 DEF Arrived
<1>5. 1 \in Live(t) /\ Hops(t, 1) \in Nat /\ Hops(t, x) \in Nat /\ Hops(t, x) <= Hops(t, 1)
    BY <1>1, <1>2, <1>4, FlowTypes, HopFacts
<1>6. Hops(t, 1) <= Hops(t, x)
    <2>1. Counted(t, 1, k)
        BY <1>2 DEF Counted
    <2> QED BY <1>1, <1>4, <1>5, <2>1, PathEnds
<1>7. x = 1
    BY <1>4, <1>5, <1>6, HopFacts
<1>8. m = Dest[t]
    <2>1. Seen(m, t, 1) /\ Seen(Dest[t], t, 1)
        BY <1>1, <1>2, <1>4, <1>7, FlowTypes
    <2> QED BY <1>1, <1>5, <2>1 DEF Flow, OnePath
<1> QED BY <1>2, <1>4, <1>7, <1>8

LEMMA FlowImpliesAnsweredOnceSent == FlowInv => AnsweredOnceSent
<1> SUFFICES ASSUME FlowInv, NEW t \in Transfers
             PROVE  /\ answers[t] <= 1
                    /\ answers[t] = 1 =>
                          /\ \A k \in 1 .. Size[t] : <<InitTTL[t], k>> \in stats[Origin[t]][t]
                          /\ \A i \in DOMAIN queue[Origin[t]][t] : ~queue[Origin[t]][t][i].own
    BY DEF AnsweredOnceSent
<1>1. Flow(t) /\ Origin[t] \in Routers /\ Size[t] \in Nat
    BY TransfersAssumption DEF FlowInv
<1>2. answers[t] <= 1
    BY <1>1 DEF Flow, AllSent
<1>3. ASSUME answers[t] = 1
      PROVE  /\ \A k \in 1 .. Size[t] : <<InitTTL[t], k>> \in stats[Origin[t]][t]
             /\ \A i \in DOMAIN queue[Origin[t]][t] : ~queue[Origin[t]][t][i].own
    <2>1. Counted(t, InitTTL[t], Size[t])
        BY <1>1, <1>3 DEF Flow, AllSent
    <2>2. PICK n \in Routers : Seen(n, t, InitTTL[t])
        BY <1>1, <2>1, FlowTypes DEF Counted
    <2>3. ASSUME NEW c \in Chunks(Origin[t], t), c.own
          PROVE  FALSE
        <3>1. c.pkt.ttl = InitTTL[t] /\ c.pkt.seq \in 1 .. Size[t]
            BY <1>1, <2>3 DEF Flow, OwnChunks, WellFormed
        <3>2. Hops(t, InitTTL[t]) >= Hops(t, c.pkt.ttl) /\ InitTTL[t] \in Live(t)
            BY <3>1, HopFacts
        <3>3. Size[t] < c.pkt.seq
            BY <1>1, <2>1, <3>2 DEF Flow, QueuedLater
        <3> QED BY <1>1, <3>1, <3>3
    <2>4. ASSUME NEW k \in 1 .. Size[t]
          PROVE  <<InitTTL[t], k>> \in stats[Origin[t]][t]
        <3>1. Counted(t, InitTTL[t], k)
            BY <1>1, <2>2, <2>3 DEF Flow, AllSent
        <3>2. PICK m \in Routers : <<InitTTL[t], k>> \in stats[m][t]
            BY <3>1 DEF Counted
        <3>3. m = Origin[t]
            BY <1>1, <3>2, FlowTypes, FirstHop
        <3> QED BY <3>2, <3>3
    <2>5. \A i \in DOMAIN queue[Origin[t]][t] : ~queue[Origin[t]][t][i].own
        BY <2>3 DEF Chunks, Range
    <2> QED BY <2>4, <2>5
<1> QED BY <1>2, <1>3

LEMMA FlowImpliesStatisticsAgree == FlowInv => StatisticsAgree
<1> SUFFICES ASSUME FlowInv, NEW n \in Routers, NEW t \in Transfers, NEW e \in stats[n][t]
             PROVE  \/ n = Origin[t] /\ e[1] = InitTTL[t]
                    \/ \E m \in Routers : <<(e[1] + 1) % (MaxTTL + 1), e[2]>> \in stats[m][t]
    BY DEF StatisticsAgree
<1>1. Flow(t) /\ Types
    BY DEF FlowInv
<1>2. PICK x \in 0 .. MaxTTL, k \in Nat : e = <<x, k>>
    BY <1>1 DEF Types
<1>3. x \in Live(t) /\ Seen(n, t, x) /\ Counted(t, x, k)
    BY <1>1, <1>2, FlowTypes DEF Counted
<1>4. CASE x = InitTTL[t]
    BY <1>1, <1>2, <1>3, <1>4, FirstHop
<1>5. CASE x # InitTTL[t]
    <2> DEFINE y == (x + 1) % (MaxTTL + 1)
    <2>1. y \in Live(t) /\ Hops(t, y) = Hops(t, x) - 1 /\ Hops(t, x) \in Nat
        BY <1>3, <1>5, HopFacts
    <2> HIDE DEF y
    <2>2. Hops(t, y) < Hops(t, x)
        BY <2>1
    <2>3. Counted(t, y, k)
        BY <1>1, <1>3, <2>1, <2>2 DEF Flow, NoShortcut
    <2> QED BY <1>2, <2>3 DEF Counted, y
<1> QED BY <1>4, <1>5

\* The variables keep their types: send buffers hold chunks of the transfer
\* they are for, and the statistics count packets a file has.
THEOREM TypeCorrect == Spec => []TypeOK
BY FlowHolds, FlowImpliesTypeOK, PTL

\* When the TTL of a packet runs out before the destination, no packet of its
\* file gets there, whatever recomputations, crashes and failing connections
\* come in between: the packets of a file take one path, so they run out at
\* the same hop.
THEOREM TTLSparesNoneHolds == Spec => []TTLSparesNone
BY FlowHolds, FlowImpliesTTLSparesNone, PTL

\* write_handler answers a SENDFILE once, and when it does every packet of the
\* file is in the statistics of the origin and none of its own chunks waits.
THEOREM AnsweredOnceSentHolds == Spec => []AnsweredOnceSent
BY FlowHolds, FlowImpliesAnsweredOnceSent, PTL

\* What a router counts was counted one TTL higher by another, back to the
\* origin, also where the TTL field wraps from 0 to 255.
THEOREM StatisticsAgreeHolds == Spec => []StatisticsAgree
BY FlowHolds, FlowImpliesStatisticsAgree, PTL

-------------------------------------------------------------------------------
(***************************************************************************)
(* The data plane implements FileTransfer.                                 *)
(***************************************************************************)

\* What stands for the variables of FileTransfer.
ArrivedMap ==
    [t \in Transfers |-> IF fileData[t] # <<>> THEN Last(fileData[t])
                         ELSE IF file[t] # <<>> THEN Size[t] ELSE 0]

StoredMap == {t \in Transfers : file[t] # <<>>}

AnsweredMap == {t \in Transfers : answers[t] # 0}

\* A packet that comes to the destination comes after all it has.
LEMMA ArrivesLater ==
    ASSUME FlowInv, NEW t \in Transfers, NEW m \in Routers, NEW p \in Packets(m, Dest[t], t)
    PROVE  /\ p.seq \in 1 .. Size[t] /\ t \in requested
           /\ file[t] = <<>>
           /\ ArrivedMap[t] < p.seq
<1>1. Flow(t) /\ Types /\ Dest[t] \in Routers /\ Size[t] \in Nat
    BY TransfersAssumption DEF FlowInv
<1>2. p.ttl \in Live(t) /\ p.seq \in 1 .. Size[t]
    BY <1>1, FlowTypes
<1>3. t \in requested
    BY <1>1 DEF Flow, NothingBefore
<1>4. ASSUME NEW k, Arrived(t, k)
      PROVE  k < p.seq
    <2>1. PICK x \in Live(t) : x # InitTTL[t] /\ <<x, k>> \in stats[Dest[t]][t]
        BY <1>4 DEF Arrived
    <2>2. Counted(t, x, k) /\ k \in Nat
        BY <1>1, <2>1, FlowTypes DEF Counted
    <2>3. Hops(t, x) > Hops(t, p.ttl)
        <3>1. Hops(t, p.ttl) < Hops(t, x)
            BY <1>1, <2>1, PathEnds
        <3> QED BY <3>1
    <2> QED BY <1>1, <2>1, <2>2, <2>3 DEF Flow, SentLater
<1>5. file[t] = <<>>
    <2> SUFFICES ASSUME file[t] # <<>>
                 PROVE  FALSE
        OBVIOUS
    <2>1. Size[t] < p.seq
        BY <1>1, <1>4 DEF Flow, StoredArrived
    <2> QED BY <1>1, <1>2, <2>1
<1>6. ArrivedMap[t] < p.seq
    <2>1. CASE fileData[t] # <<>>
        <3>1. fileData[t] \in Seq(Nat)
            BY <1>1 DEF Types
        <3>2. Last(fileData[t]) \in Range(fileData[t])
            <4>1. Len(fileData[t]) \in DOMAIN fileData[t]
                BY <2>1, <3>1, EmptySeq, LenProperties
            <4> QED BY <4>1 DEF Last, Range
        <3>3. Arrived(t, Last(fileData[t]))
            BY <1>1, <3>2 DEF Flow, StoredArrived
        <3> QED BY <1>4, <2>1, <3>3 DEF ArrivedMap
    <2>2. CASE fileData[t] = <<>>
        BY <1>1, <1>2, <1>5, <2>2 DEF ArrivedMap
    <2> QED BY <2>1, <2>2
<1> QED BY <1>2, <1>3, <1>5, <1>6

LEMMA DeliverArrives ==
    ASSUME FlowInv, NEW t \in Transfers, NEW m \in Routers, NEW p \in Packets(m, Dest[t], t),
           NEW pkt \in Packet, pkt.id = t, pkt.seq = p.seq, Deliver(Dest[t], pkt),
           UNCHANGED <<requested, answers>>
    PROVE  Promised!Arrive(t, p.seq)
<1> DEFINE k == p.seq
           data == Append(fileData[t], k)
<1>1. Types /\ Size[t] \in Nat
    BY TransfersAssumption DEF FlowInv
<1>2. k \in 1 .. Size[t] /\ k \in Nat /\ t \in requested /\ file[t] = <<>> /\ ArrivedMap[t] < k
    <2>1. p.seq \in 1 .. Size[t] /\ t \in requested /\ file[t] = <<>> /\ ArrivedMap[t] < p.seq
        BY ArrivesLater
    <2> QED BY <1>1, <2>1
<1>3. fileData[t] \in Seq(Nat) /\ data \in Seq(Nat) /\ data # <<>>
    <2>1. fileData[t] \in Seq(Nat)
        BY <1>1 DEF Types
    <2> QED BY <1>2, <2>1, AppendView
<1>4. Last(data) = k
    <2>1. Len(data) = Len(fileData[t]) + 1 /\ data[Len(fileData[t]) + 1] = k
        BY <1>2, <1>3, AppendProperties
    <2> QED BY <2>1 DEF Last
<1>5. /\ fileData' = [fileData EXCEPT ![t] = IF k = Size[t] THEN <<>> ELSE data]
      /\ file' = IF k = Size[t] THEN [file EXCEPT ![t] = data] ELSE file
    BY DEF Deliver, Fin
<1> HIDE DEF k, data
<1>6. ArrivedMap' = [ArrivedMap EXCEPT ![t] = k]
    <2>1. ArrivedMap'[t] = k
        <3>1. CASE k = Size[t]
            BY <1>1, <1>3, <1>5, <3>1 DEF ArrivedMap, Types
        <3>2. CASE k # Size[t]
            BY <1>1, <1>3, <1>4, <1>5, <3>2 DEF ArrivedMap, Types
        <3> QED BY <3>1, <3>2
    <2>2. \A u \in Transfers : u # t => fileData'[u] = fileData[u] /\ file'[u] = file[u]
        BY <1>1, <1>5 DEF Types
    <2>3. \A u \in Transfers : u # t => ArrivedMap'[u] = ArrivedMap[u]
        BY <2>2 DEF ArrivedMap
    <2> QED BY <2>1, <2>3 DEF ArrivedMap
<1>7. StoredMap' = IF k = Size[t] THEN StoredMap \cup {t} ELSE StoredMap
    <2>1. CASE k = Size[t]
        <3>1. file'[t] # <<>> /\ \A u \in Transfers : u # t => file'[u] = file[u]
            BY <1>1, <1>3, <1>5, <2>1 DEF Types
        <3> QED BY <2>1, <3>1 DEF StoredMap
    <2>2. CASE k # Size[t]
        BY <1>5, <2>2 DEF StoredMap
    <2> QED BY <2>1, <2>2
<1>8. t \notin StoredMap
    BY <1>2 DEF StoredMap
<1>9. ArrivedMap[t] < k => k > ArrivedMap[t]
    OBVIOUS
<1> QED BY <1>2, <1>6, <1>7, <1>8, <1>9
        DEF Promised!Arrive, ArrivedMap, StoredMap, AnsweredMap, k

LEMMA TakeChunksAnswers ==
    ASSUME FlowInv, FlowInv', NEW n \in Routers, NEW h \in Routers,
           NEW ts \in SUBSET Sendable(n, h), TakeChunks(n, ts),
           UNCHANGED <<requested, fileData, file>>
    PROVE  Promised!Next
<1>0. PICK told : told = {t \in ts : Answers(Head(queue[n][t]))}
    OBVIOUS
<1>1. /\ \A t \in Transfers : answers[t] \in Nat /\ answers'[t] <= 1
      /\ Types
    BY DEF FlowInv, Types, Flow, AllSent
<1>2. \A t \in Transfers : answers'[t] = IF t \in told THEN answers[t] + 1 ELSE answers[t]
    BY <1>0 DEF TakeChunks
<1>3. told \subseteq Transfers
    BY <1>0 DEF Sendable
<1>4. ASSUME NEW t \in told
      PROVE  t \in requested /\ t \notin AnsweredMap
    <2>1. t \in Transfers /\ queue[n][t] \in Seq(Chunk) /\ queue[n][t] # <<>>
        BY <1>0, <1>1 DEF Sendable, Types
    <2>2. Head(queue[n][t]) \in Chunks(n, t)
        BY <2>1, TailView DEF Chunks
    <2>3. t \in requested
        BY <2>1, <2>2 DEF FlowInv, Flow, NothingBefore
    <2>4. answers[t] = 0
        BY <1>1, <1>2, <1>4, <2>1
    <2> QED BY <2>3, <2>4 DEF AnsweredMap
<1>5. AnsweredMap' = AnsweredMap \cup told
    <2>1. \A t \in Transfers : answers'[t] # 0 <=> answers[t] # 0 \/ t \in told
        BY <1>1, <1>2
    <2> QED BY <1>3, <2>1 DEF AnsweredMap
<1>6. Promised!Answer(told)
    <2>1. told \subseteq requested \ AnsweredMap
        BY <1>4
    <2>2. requested' = requested /\ ArrivedMap' = ArrivedMap /\ StoredMap' = StoredMap
        BY DEF ArrivedMap, StoredMap
    <2> QED BY <1>5, <2>1, <2>2 DEF Promised!Answer, AnsweredMap, ArrivedMap, StoredMap
<1> QED BY <1>3, <1>6 DEF Promised!Next

LEMMA StepMaps ==
    ASSUME FlowInv, FlowInv', [Next]_vars
    PROVE  [Promised!Next]_(Promised!ftVars)
<1>1. ASSUME UNCHANGED <<requested, fileData, file, answers>>
      PROVE  UNCHANGED Promised!ftVars
    BY <1>1 DEF Promised!ftVars
<1>2. ASSUME NEW t \in Transfers, SendFile(t)
      PROVE  Promised!Next
    <2>1. Promised!Request(t)
        BY <1>2 DEF SendFile, Promised!Request
    <2> QED BY <2>1 DEF Promised!Next
<1>3. ASSUME NEW n \in Routers, NEW m \in Routers, Receive(m, n)
      PROVE  Promised!Next \/ UNCHANGED Promised!ftVars
    <2>1. PICK p : p = Head(tcp[m][n])
        OBVIOUS
    <2>2. Types /\ tcp[m][n] # <<>> /\ tcp' = [tcp EXCEPT ![m][n] = Tail(tcp[m][n])]
        BY <1>3 DEF FlowInv, Receive
    <2>3. p \in Packet /\ p \in Packets(m, n, p.id)
        BY <2>1, <2>2, ReceiveView
    <2> DEFINE pkt == [p EXCEPT !.ttl = Decremented(p.ttl)]
               q == [Head(tcp[m][n]) EXCEPT !.ttl = Decremented(Head(tcp[m][n]).ttl)]
    <2>4. /\ pkt \in Packet /\ pkt.id = p.id /\ pkt.seq = p.seq
          /\ p.id \in Transfers
        <3>1. p.ttl \in 0 .. MaxTTL
            BY <2>3 DEF Packet
        <3>2. Decremented(p.ttl) \in 0 .. MaxTTL
            BY <3>1, DataBoundsAssumption DEF Decremented
        <3> QED BY <2>3, <3>2 DEF Packet
    <2>5. \/ Drop(q)
          \/ n = Dest[q.id] /\ Deliver(n, q)
          \/ Forward(n, q)
        BY <1>3 DEF Receive
    <2>6. UNCHANGED <<requested, answers>>
        BY <1>3 DEF Receive
    <2>7. q = pkt
        BY <2>1
    <2> HIDE DEF q, pkt
    <2>8. CASE n = Dest[q.id] /\ Deliver(n, q)
        <3>1. n = Dest[p.id] /\ Deliver(Dest[p.id], pkt)
            BY <2>4, <2>7, <2>8 DEF Deliver
        <3>2. Promised!Arrive(p.id, p.seq)
            BY <2>3, <2>4, <2>6, <3>1, DeliverArrives
        <3>3. p.seq \in 1 .. Size[p.id]
            BY <2>3, <2>4, <3>1, ArrivesLater
        <3> QED BY <2>4, <3>2, <3>3 DEF Promised!Next
    <2>9. CASE Drop(q) \/ Forward(n, q)
        BY <1>1, <2>6, <2>9 DEF Drop, Forward
    <2> QED BY <2>5, <2>8, <2>9
<1>4. ASSUME NEW n \in Routers, NEW h \in Routers, WriteHandler(n, h)
      PROVE  Promised!Next
    <2>1. TakeChunks(n, Sendable(n, h)) /\ UNCHANGED <<requested, fileData, file>>
        BY <1>4 DEF WriteHandler
    <2> QED BY <2>1, TakeChunksAnswers
<1>5. ASSUME NEW n \in Routers, NEW h \in Routers, Broken(n, h)
      PROVE  Promised!Next
    <2>1. UNCHANGED <<requested, fileData, file>>
        BY <1>5 DEF Broken
    <2>2. PICK ts \in SUBSET Sendable(n, h) : TakeChunks(n, ts)
        BY <1>5 DEF Broken
    <2> QED BY <2>1, <2>2, TakeChunksAnswers
<1>6. ASSUME NEW n \in Routers, CrashNow(n)
      PROVE  UNCHANGED Promised!ftVars
    BY <1>1, <1>6 DEF CrashNow
<1>7. ASSUME NEW n \in Routers, NEW d \in Routers, Reroute(n, d)
      PROVE  UNCHANGED Promised!ftVars
    BY <1>1, <1>7 DEF Reroute
<1>8. CASE UNCHANGED vars
    BY <1>1, <1>8 DEF vars
<1> QED BY <1>2, <1>3, <1>4, <1>5, <1>6, <1>7, <1>8 DEF Next

\* The data plane keeps what FileTransfer promises: the packets of a file reach
\* its destination in sequence order and at most once, nothing comes after the
\* file is stored, and each SENDFILE is answered once, although the packets go
\* through queues and connections that transfers share.
THEOREM RefinesFileTransfer == Spec => KeepsPromises
<1>1. Init => Promised!Init
    BY DEF Init, Promised!Init
<1>2. FlowInv /\ FlowInv' /\ [Next]_vars => [Promised!Next]_(Promised!ftVars)
    BY StepMaps
<1> QED BY <1>1, <1>2, FlowHolds, PTL DEF Spec, KeepsPromises, Promised!Spec

-------------------------------------------------------------------------------
(***************************************************************************)
(* Waiting chunks have their socket watched, as long as the routes stay,   *)
(* lead nowhere twice, and no two keys at a router name one next hop.      *)
(***************************************************************************)

\* place[t][n] numbers the routers on the way of t from 1, and is 0 at others.
\* The way of t goes on over the first routes and comes nowhere twice.
ComesOnce(place) ==
    /\ place \in [Transfers -> [Routers -> Nat]]
    /\ \A t \in Transfers : place[t][Origin[t]] = 1
    /\ \A t \in Transfers, n \in Routers :
          LET h == FirstRoute[n][Dest[t]]
          IN  place[t][n] # 0 /\ h \notin {NoHop, Dest[t]} => place[t][h] = place[t][n] + 1

\* Keys are those of the first routes, and a key with chunks is watched as long
\* as no two keys meet.
KeysWatched(place) ==
    \A n \in Routers, t \in Transfers :
        /\ pin[n][t] # NoHop => pin[n][t] = FirstRoute[n][Dest[t]] /\ place[t][n] # 0
        /\ queue[n][t] # <<>> => pin[n][t] # NoHop
        /\ queue[n][t] # <<>> /\ Untangled => pin[n][t] \in writable[n]

\* The hops behind a packet are its router's place.
InPlace(place) ==
    \A n \in Routers, t \in Transfers :
        /\ \A c \in Chunks(n, t) : place[t][n] = Hops(t, c.pkt.ttl) + 1
        /\ \A m \in Routers : \A p \in Packets(n, m, t) : place[t][n] = Hops(t, p.ttl) + 1

\* Keys that meet do so for good, because a key keeps its next hop.
LEMMA UntangledBefore ==
    ASSUME \A n \in Routers, t \in Transfers : pin[n][t] # NoHop => pin'[n][t] = pin[n][t],
           Untangled'
    PROVE  Untangled
BY DEF Untangled

WatchInv(place) == route = FirstRoute /\ KeysWatched(place) /\ InPlace(place)

\* What is queued at n goes to the first route's next hop.
LEMMA RouteWatches ==
    ASSUME NEW place, ComesOnce(place), FlowInv, WatchInv(place),
           NEW n \in Routers, NEW t \in Transfers, place[t][n] # 0,
           NEW chunks \in Seq(Chunk), Route(n, t, chunks),
           \A c \in Range(chunks) : place[t][n] = Hops(t, c.pkt.ttl) + 1
    PROVE  /\ KeysWatched(place)'
           /\ \A l \in Routers, u \in Transfers : \A c \in Chunks(l, u)' :
                  place[u][l] = Hops(u, c.pkt.ttl) + 1
<1>1. Types /\ KeysWatched(place) /\ InPlace(place) /\ route = FirstRoute
    BY DEF FlowInv, WatchInv
<1>2. CASE NoPush
    <2>1. UNCHANGED <<pin, queue, writable>>
        BY <1>2 DEF NoPush
    <2> QED BY <1>1, <2>1 DEF KeysWatched, InPlace, Chunks, Untangled
<1>3. ASSUME NEW h \in Routers, h = FirstRoute[n][Dest[t]], Push(n, t, chunks, h)
      PROVE  /\ KeysWatched(place)'
             /\ \A l \in Routers, u \in Transfers : \A c \in Chunks(l, u)' :
                    place[u][l] = Hops(u, c.pkt.ttl) + 1
    <2>1. /\ \A l \in Routers, u \in Transfers : l # n \/ u # t => queue'[l][u] = queue[l][u]
          /\ Chunks(n, t)' = Chunks(n, t) \cup Range(chunks)
        BY <1>1, <1>3, PushView
    <2>2. \A l \in Routers, u \in Transfers : \A c \in Chunks(l, u)' :
              place[u][l] = Hops(u, c.pkt.ttl) + 1
        <3> SUFFICES ASSUME NEW l \in Routers, NEW u \in Transfers, NEW c \in Chunks(l, u)'
                     PROVE  place[u][l] = Hops(u, c.pkt.ttl) + 1
            OBVIOUS
        <3>1. CASE l = n /\ u = t
            BY <1>1, <2>1, <3>1 DEF InPlace
        <3>2. CASE l # n \/ u # t
            BY <1>1, <2>1, <3>2 DEF InPlace, Chunks
        <3> QED BY <3>1, <3>2
    <2>3. /\ pin' = [pin EXCEPT ![n][t] = IF pin[n][t] = NoHop THEN h ELSE pin[n][t]]
          /\ writable' = [writable EXCEPT ![n] = writable[n] \cup {h}]
          /\ h # NoHop
        BY <1>3, HopAssumption DEF Push
    <2>4. /\ \A l \in Routers, u \in Transfers : l # n \/ u # t => pin'[l][u] = pin[l][u]
          /\ \A l \in Routers : writable[l] \subseteq writable'[l]
          /\ h \in writable'[n]
        BY <1>1, <2>3 DEF Types
    <2>5. pin'[n][t] = h
        BY <1>1, <1>3, <2>3 DEF Types, KeysWatched
    <2>6. Untangled' => Untangled
        <3>1. \A l \in Routers, u \in Transfers : pin[l][u] # NoHop => pin'[l][u] = pin[l][u]
            BY <1>1, <1>3, <2>4, <2>5 DEF KeysWatched
        <3> QED BY <3>1, UntangledBefore
    <2>7. KeysWatched(place)'
        <3> SUFFICES ASSUME NEW l \in Routers, NEW u \in Transfers
                     PROVE  /\ pin'[l][u] # NoHop =>
                                  pin'[l][u] = FirstRoute[l][Dest[u]] /\ place[u][l] # 0
                            /\ queue'[l][u] # <<>> => pin'[l][u] # NoHop
                            /\ queue'[l][u] # <<>> /\ Untangled' => pin'[l][u] \in writable'[l]
            BY DEF KeysWatched
        <3>1. CASE l = n /\ u = t
            BY <1>3, <2>3, <2>4, <2>5, <3>1
        <3>2. CASE l # n \/ u # t
            BY <1>1, <2>1, <2>4, <2>6, <3>2 DEF KeysWatched
        <3> QED BY <3>1, <3>2
    <2> QED BY <2>2, <2>7
<1>4. CASE ~NoPush
    <2>1. LET h == route[n][Dest[t]] IN h # NoHop /\ Push(n, t, chunks, h)
        BY <1>4 DEF Route
    <2>2. FirstRoute[n][Dest[t]] \in Routers
        BY <1>1, <2>1, TransfersAssumption, RoutesAssumption
    <2> QED BY <1>1, <1>3, <2>1, <2>2
<1> QED BY <1>2, <1>4

LEMMA SendFileWatches ==
    ASSUME NEW place, ComesOnce(place), FlowInv, WatchInv(place), NEW t \in Transfers, SendFile(t)
    PROVE  WatchInv(place)'
<1> DEFINE n == Origin[t]
<1>1. /\ n \in Routers /\ place[t][n] = 1 /\ Size[t] \in Nat /\ InitTTL[t] \in 0 .. MaxTTL
      /\ Types /\ KeysWatched(place) /\ InPlace(place) /\ route = FirstRoute
    BY TransfersAssumption DEF FlowInv, WatchInv, ComesOnce
<1>2. UNCHANGED <<route, tcp>>
    BY DEF SendFile
<1>3. Packetised(t) \in Seq(Chunk) /\ \A c \in Range(Packetised(t)) : c.pkt.ttl = InitTTL[t]
    BY PacketisedView
<1>4. Hops(t, InitTTL[t]) = 0
    BY HopFacts
<1>5. /\ KeysWatched(place)'
      /\ \A l \in Routers, u \in Transfers : \A c \in Chunks(l, u)' :
             place[u][l] = Hops(u, c.pkt.ttl) + 1
    <2>1. CASE Route(n, t, Packetised(t))
        <3>1. place[t][n] # 0 /\ \A c \in Range(Packetised(t)) : place[t][n] = Hops(t, c.pkt.ttl) + 1
            BY <1>1, <1>3, <1>4
        <3> QED BY <1>1, <1>3, <2>1, <3>1, RouteWatches
    <2>2. CASE NoChunks(n, route[n][Dest[t]])
        <3>1. pin' = pin /\ queue' = queue
            BY <2>2 DEF NoChunks
        <3>2. PICK h : h = route[n][Dest[t]]
            OBVIOUS
        <3>3. \/ writable' = writable
              \/ writable' = [writable EXCEPT ![n] = writable[n] \cup {h}]
            BY <2>2, <3>2 DEF NoChunks
        <3>4. \A l \in Routers : writable[l] \subseteq writable'[l]
            BY <1>1, <3>3 DEF Types
        <3>5. KeysWatched(place)'
            BY <1>1, <3>1, <3>4 DEF KeysWatched, Untangled
        <3> QED BY <1>1, <3>1, <3>5 DEF InPlace, Chunks
    <2> QED BY <2>1, <2>2 DEF SendFile
<1> QED BY <1>1, <1>2, <1>5 DEF WatchInv, InPlace, Packets

LEMMA ReceiveWatches ==
    ASSUME NEW place, ComesOnce(place), FlowInv, WatchInv(place),
           NEW m \in Routers, NEW n \in Routers, Receive(m, n)
    PROVE  WatchInv(place)'
<1>1. Types /\ KeysWatched(place) /\ InPlace(place) /\ route = FirstRoute
    BY DEF FlowInv, WatchInv
<1>2. /\ route' = route /\ tcp[m][n] # <<>>
      /\ tcp' = [tcp EXCEPT ![m][n] = Tail(tcp[m][n])]
    BY DEF Receive
<1>3. PICK p \in Packet :
          /\ p = Head(tcp[m][n]) /\ p \in Packets(m, n, p.id)
          /\ \A r \in Packets(m, n, p.id)' : Precedes(tcp[m][n], p, r)
    BY <1>1, <1>2, ReceiveView
<1>4. \A l, k \in Routers, u \in Transfers : Packets(l, k, u)' \subseteq Packets(l, k, u)
    BY <1>1, <1>2, ReceiveView DEF PacketsLeave
<1>5. p.id \in Transfers /\ p.ttl \in 0 .. MaxTTL /\ Flow(p.id)
    BY DEF Packet, FlowInv
<1> DEFINE t == p.id
           q == [p EXCEPT !.ttl = Decremented(p.ttl)]
           chunks == <<[pkt |-> q, own |-> FALSE]>>
<1>6. /\ KeysWatched(place)'
      /\ \A l \in Routers, u \in Transfers : \A c \in Chunks(l, u)' :
             place[u][l] = Hops(u, c.pkt.ttl) + 1
    <2>1. CASE NoPush
        <3>1. UNCHANGED <<pin, queue, writable>>
            BY <2>1 DEF NoPush
        <3> QED BY <1>1, <3>1 DEF KeysWatched, InPlace, Chunks, Untangled
    <2>2. CASE q.ttl # 0 /\ n # Dest[t] /\ Route(n, t, chunks)
        <3>1. q \in Packet /\ q.ttl = Decremented(p.ttl) /\ q.id = t
            <4>1. Decremented(p.ttl) \in 0 .. MaxTTL
                BY <1>5, DataBoundsAssumption DEF Decremented
            <4> QED BY <4>1 DEF Packet
        <3>2. /\ p.ttl \in Live(t) /\ Hops(t, p.ttl) \in Nat
              /\ Hops(t, q.ttl) = Hops(t, p.ttl) + 1
            BY <1>3, <1>5, <2>2, <3>1, FlowTypes, HopFacts
        <3>3. pin[m][t] = n
            BY <1>3, <1>5 DEF Flow, InFlight
        <3>4. place[t][m] = Hops(t, p.ttl) + 1
            BY <1>1, <1>3, <1>5 DEF InPlace
        <3>5. n = FirstRoute[m][Dest[t]] /\ place[t][m] # 0 /\ n # NoHop
            BY <1>1, <1>5, <3>2, <3>3, <3>4, HopAssumption DEF KeysWatched
        <3>6. place[t][n] = place[t][m] + 1
            BY <1>5, <2>2, <3>5 DEF ComesOnce
        <3>7. place[t][n] # 0 /\ place[t][n] = Hops(t, q.ttl) + 1
            BY <3>2, <3>4, <3>6
        <3> HIDE DEF q
        <3>8. chunks \in Seq(Chunk) /\ \A c \in Range(chunks) : c.pkt = q
            BY <3>1 DEF Chunk, Range
        <3>9. \A c \in Range(chunks) : place[t][n] = Hops(t, c.pkt.ttl) + 1
            BY <3>7, <3>8
        <3> HIDE DEF chunks
        <3> QED BY <1>5, <2>2, <3>7, <3>8, <3>9, RouteWatches
    <2>3. q = [Head(tcp[m][n]) EXCEPT !.ttl = Decremented(Head(tcp[m][n]).ttl)]
        BY <1>3
    <2> HIDE DEF q
    <2>4. NoPush \/ (q.ttl # 0 /\ n # Dest[q.id] /\ Forward(n, q))
        BY <2>3 DEF Receive, Drop, Deliver
    <2>5. q.id = t
        BY DEF q
    <2> QED BY <2>1, <2>2, <2>4, <2>5 DEF Forward
<1> QED BY <1>1, <1>2, <1>4, <1>6 DEF WatchInv, InPlace

\* Chunks are taken from the front.
LEMMA TakeChunksWatches ==
    ASSUME NEW place, FlowInv, WatchInv(place), NEW n \in Routers, NEW h \in Routers,
           NEW ts \in SUBSET Sendable(n, h), TakeChunks(n, ts)
    PROVE  /\ \A l \in Routers, u \in Transfers :
                  /\ Chunks(l, u)' \subseteq Chunks(l, u)
                  /\ queue'[l][u] # <<>> => queue[l][u] # <<>>
           /\ \A l \in Routers, u \in Transfers : \A c \in Chunks(l, u)' :
                  place[u][l] = Hops(u, c.pkt.ttl) + 1
<1>1. Types /\ InPlace(place)
    BY DEF FlowInv, WatchInv
<1>2. ASSUME NEW l \in Routers, NEW u \in Transfers
      PROVE  /\ Chunks(l, u)' \subseteq Chunks(l, u)
             /\ queue'[l][u] # <<>> => queue[l][u] # <<>>
    <2>1. queue[l][u] \in Seq(Chunk)
        BY <1>1 DEF Types
    <2>2. CASE l = n /\ u \in ts
        <3>1. queue'[l][u] = Tail(queue[l][u]) /\ queue[l][u] # <<>>
            BY <1>1, <2>2 DEF TakeChunks, Sendable, Types
        <3> QED BY <2>1, <3>1, TailView DEF Chunks
    <2>3. CASE ~(l = n /\ u \in ts)
        <3>1. queue'[l][u] = queue[l][u]
            BY <1>1, <2>3 DEF TakeChunks, Types
        <3> QED BY <3>1 DEF Chunks
    <2> QED BY <2>2, <2>3
<1> QED BY <1>1, <1>2 DEF InPlace

\* Behind the last chunk of a file no other waits.
LEMMA NothingBehindLast ==
    ASSUME NEW place, FlowInv, WatchInv(place), NEW n \in Routers, NEW t \in Transfers,
           queue[n][t] # <<>>, Fin(Head(queue[n][t]).pkt)
    PROVE  Tail(queue[n][t]) = <<>>
<1>1. Types /\ InPlace(place) /\ Flow(t) /\ Size[t] \in Nat
    BY TransfersAssumption DEF FlowInv, WatchInv
<1>2. PICK s \in Seq(Chunk) : s = queue[n][t]
    BY <1>1 DEF Types
<1>3. SUFFICES ASSUME Tail(s) # <<>>
               PROVE  FALSE
    BY <1>2
<1>4. /\ Head(s) \in Range(s) /\ Tail(s) \in Seq(Chunk) /\ Range(Tail(s)) \subseteq Range(s)
      /\ \A b \in Range(Tail(s)) : Precedes(s, Head(s), b)
    BY <1>2, TailView
<1>5. PICK c \in Range(Tail(s)) : TRUE
    BY <1>3, <1>4, TailView
<1>6. /\ Head(s) \in Chunks(n, t) /\ c \in Chunks(n, t)
      /\ Precedes(queue[n][t], Head(s), c)
    BY <1>2, <1>4 DEF Chunks
<1>7. Head(s).pkt.ttl = c.pkt.ttl
    <2>1. /\ Head(s).pkt.ttl \in Live(t) /\ c.pkt.ttl \in Live(t)
          /\ Hops(t, Head(s).pkt.ttl) \in Nat /\ Hops(t, c.pkt.ttl) \in Nat
        BY <1>1, <1>6, FlowTypes, HopFacts
    <2>2. Hops(t, Head(s).pkt.ttl) = Hops(t, c.pkt.ttl)
        <3>1. Hops(t, Head(s).pkt.ttl) + 1 = Hops(t, c.pkt.ttl) + 1
            BY <1>1, <1>6 DEF InPlace
        <3> QED BY <2>1, <3>1
    <2> QED BY <2>1, <2>2, HopFacts
<1>8. Head(s).pkt.seq = Size[t] /\ c.pkt.seq \in 1 .. Size[t]
    <2>1. Head(s).pkt.id = t /\ c.pkt.seq \in 1 .. Size[t]
        BY <1>1, <1>6 DEF Flow, WellFormed
    <2>2. Head(s).pkt.seq = Size[Head(s).pkt.id]
        BY <1>2 DEF Fin
    <2> QED BY <2>1, <2>2
<1>9. Head(s).pkt.seq < c.pkt.seq
    BY <1>1, <1>6, <1>7 DEF Flow, InSequence
<1> QED BY <1>1, <1>8, <1>9

LEMMA WriteHandlerWatches ==
    ASSUME NEW place, ComesOnce(place), FlowInv, WatchInv(place),
           NEW n \in Routers, NEW h \in Routers, WriteHandler(n, h)
    PROVE  WatchInv(place)'
<1> DEFINE S == Sendable(n, h)
           last == {t \in S : Fin(Head(queue[n][t]).pkt)}
           clear == S = {} \/ last # {}
<1>1. Types /\ KeysWatched(place) /\ InPlace(place) /\ route = FirstRoute
    BY DEF FlowInv, WatchInv
<1>2. /\ TakeChunks(n, S) /\ UNCHANGED <<route, pin>>
      /\ writable' = [writable EXCEPT ![n] = IF clear THEN writable[n] \ {h} ELSE writable[n]]
    <2>1. DisableWrite(n, h) = [writable EXCEPT ![n] = writable[n] \ {h}]
        BY DEF DisableWrite
    <2>2. writable' = IF clear THEN DisableWrite(n, h) ELSE writable
        BY DEF WriteHandler
    <2>3. writable = [writable EXCEPT ![n] = writable[n]]
        BY <1>1 DEF Types
    <2>4. TakeChunks(n, S) /\ UNCHANGED <<route, pin>>
        BY DEF WriteHandler
    <2> HIDE DEF clear, S
    <2> QED BY <2>1, <2>2, <2>3, <2>4
<1>3. PICK ids \in InOrder(S) : tcp' = [tcp EXCEPT ![n][h] = Written(n, h, ids)]
    BY DEF WriteHandler
<1>4. S \in SUBSET Sendable(n, h) /\ S \subseteq Transfers
    BY DEF Sendable
<1> HIDE DEF S, last
<1>5. /\ \A l \in Routers, u \in Transfers :
            queue'[l][u] # <<>> => queue[l][u] # <<>>
      /\ \A l \in Routers, u \in Transfers : \A c \in Chunks(l, u)' :
            place[u][l] = Hops(u, c.pkt.ttl) + 1
    BY <1>2, <1>4, TakeChunksWatches
<1>6. ASSUME NEW l \in Routers, NEW u \in Transfers, queue'[l][u] # <<>>, Untangled
      PROVE  pin[l][u] \in writable'[l]
    <2>1. queue[l][u] # <<>> /\ pin[l][u] # NoHop /\ pin[l][u] \in writable[l]
        BY <1>1, <1>5, <1>6 DEF KeysWatched
    <2>2. CASE ~(l = n /\ pin[l][u] = h /\ clear)
        BY <1>1, <1>2, <2>1, <2>2 DEF Types
    <2>3. CASE l = n /\ pin[l][u] = h /\ clear
        <3>1. u \in S
            BY <2>1, <2>3 DEF S, Sendable
        <3>2. PICK t \in last : TRUE
            BY <2>3, <3>1
        <3>3. t \in Transfers /\ pin[n][t] = h /\ queue[n][t] # <<>> /\ Fin(Head(queue[n][t]).pkt)
            BY <3>2 DEF last, S, Sendable
        <3>4. t = u
            BY <1>6, <2>1, <2>3, <3>3 DEF Untangled
        <3>5. Tail(queue[n][u]) = <<>>
            BY <3>3, <3>4, NothingBehindLast
        <3>6. queue'[n][u] = Tail(queue[n][u])
            BY <1>1, <1>2, <3>1 DEF TakeChunks, Types
        <3> QED BY <1>6, <2>3, <3>5, <3>6
    <2> QED BY <2>2, <2>3
<1>7. KeysWatched(place)'
    <2>1. Untangled' = Untangled
        BY <1>2 DEF Untangled
    <2> QED BY <1>1, <1>2, <1>5, <1>6, <2>1 DEF KeysWatched
<1>8. ASSUME NEW l \in Routers, NEW m \in Routers, NEW u \in Transfers, NEW p \in Packets(l, m, u)'
      PROVE  place[u][l] = Hops(u, p.ttl) + 1
    <2>1. CASE p \in Packets(l, m, u)
        BY <1>1, <2>1 DEF InPlace
    <2>2. CASE p \notin Packets(l, m, u)
        <3>1. PICK w : w = Written(n, h, ids)
            OBVIOUS
        <3>2. \A r \in Range(w) : r \in Range(tcp[n][h]) \/
                  (r.id \in Sendable(n, h) /\ r = Head(queue[n][r.id]).pkt)
            BY <1>3, <3>1, WrittenView DEF S
        <3>3. p \in Range(tcp'[l][m]) /\ p \notin Range(tcp[l][m]) /\ p.id = u
            BY <2>2 DEF Packets
        <3>4. l = n /\ m = h /\ p \in Range(w)
            BY <1>1, <1>3, <3>1, <3>3 DEF Types
        <3>5. u \in Sendable(n, h) /\ p = Head(queue[n][u]).pkt
            BY <3>2, <3>3, <3>4
        <3>6. Head(queue[n][u]) \in Chunks(n, u)
            <4>1. queue[n][u] \in Seq(Chunk) /\ queue[n][u] # <<>>
                BY <1>1, <3>5 DEF Types, Sendable
            <4> QED BY <4>1, TailView DEF Chunks
        <3>7. place[u][n] = Hops(u, Head(queue[n][u]).pkt.ttl) + 1
            BY <1>1, <3>6 DEF InPlace
        <3> QED BY <3>4, <3>5, <3>7
    <2> QED BY <2>1, <2>2
<1> QED BY <1>1, <1>2, <1>5, <1>7, <1>8 DEF WatchInv, InPlace

\* The end of a process loses packets and moves no socket.
LEMMA GoesDownWatches ==
    ASSUME NEW place, FlowInv, WatchInv(place), NEW n \in Routers, GoesDown(n),
           UNCHANGED <<route, pin, writable>>,
           \A l \in Routers, u \in Transfers :
                  /\ queue'[l][u] # <<>> => queue[l][u] # <<>>
                  /\ Chunks(l, u)' \subseteq Chunks(l, u)
    PROVE  WatchInv(place)'
<1>1. Types /\ KeysWatched(place) /\ InPlace(place) /\ route = FirstRoute
    BY DEF FlowInv, WatchInv
<1>2. \A l, m \in Routers : tcp'[l][m] = IF m = n THEN <<>> ELSE tcp[l][m]
    BY <1>1 DEF GoesDown, Types
<1>3. \A l, m \in Routers : \A u \in Transfers : Packets(l, m, u)' \subseteq Packets(l, m, u)
    BY <1>2 DEF Packets, Range
<1>4. KeysWatched(place)'
    BY <1>1 DEF KeysWatched, Untangled
<1>5. InPlace(place)'
    BY <1>1, <1>3 DEF InPlace
<1> QED BY <1>1, <1>4, <1>5 DEF WatchInv

LEMMA WatchNext ==
    ASSUME NEW place, ComesOnce(place), MaxReroutes = 0, FlowInv, WatchInv(place), [Next]_vars
    PROVE  WatchInv(place)'
<1>1. ASSUME NEW n \in Routers, NEW h \in Routers, Broken(n, h)
      PROVE  WatchInv(place)'
    <2>1. GoesDown(n) /\ UNCHANGED <<route, pin, writable>>
        BY <1>1 DEF Broken
    <2>2. PICK ts \in SUBSET Sendable(n, h) : TakeChunks(n, ts)
        BY <1>1 DEF Broken
    <2>3. \A l \in Routers, u \in Transfers :
              /\ queue'[l][u] # <<>> => queue[l][u] # <<>>
              /\ Chunks(l, u)' \subseteq Chunks(l, u)
        BY <2>2, TakeChunksWatches
    <2> QED BY <2>1, <2>3, GoesDownWatches
<1>2. ASSUME NEW n \in Routers, CrashNow(n)
      PROVE  WatchInv(place)'
    <2>1. GoesDown(n) /\ UNCHANGED <<route, pin, writable, queue>>
        BY <1>2 DEF CrashNow
    <2>2. \A l \in Routers, u \in Transfers :
              /\ queue'[l][u] # <<>> => queue[l][u] # <<>>
              /\ Chunks(l, u)' \subseteq Chunks(l, u)
        BY <2>1 DEF Chunks
    <2> QED BY <2>1, <2>2, GoesDownWatches
<1>3. \A n, d \in Routers : ~Reroute(n, d)
    BY DEF Reroute, FlowInv, Types
<1>4. CASE UNCHANGED vars
    BY <1>4 DEF vars, WatchInv, KeysWatched, Untangled, InPlace, Chunks, Packets
<1> QED BY <1>1, <1>2, <1>3, <1>4, SendFileWatches, ReceiveWatches, WriteHandlerWatches DEF Next

LEMMA WatchInit ==
    ASSUME NEW place, Init
    PROVE  WatchInv(place)
<1>1. \A n \in Routers, t \in Transfers :
          /\ pin[n][t] = NoHop /\ queue[n][t] = <<>> /\ Chunks(n, t) = {}
          /\ \A m \in Routers : Packets(n, m, t) = {}
    BY DEF Init, Chunks, Packets, Range
<1> QED BY <1>1 DEF Init, WatchInv, KeysWatched, InPlace

\* Whatever waits for a socket has it watched for writing, as long as routes do
\* not change, no route comes back, and no two transfers have left a router for
\* the same next hop: a socket leaves data_write_fds only when it has sent the
\* last packet of a file, and then nothing else waits for it. Routers may crash
\* and connections fail.
THEOREM QueuedIsWatchedHolds ==
    ASSUME NEW place, ComesOnce(place), MaxReroutes = 0
    PROVE  Spec => []QueuedIsWatched
<1>1. Init => FlowInv /\ WatchInv(place)
    BY FlowInit, WatchInit
<1>2. FlowInv /\ WatchInv(place) /\ [Next]_vars => FlowInv' /\ WatchInv(place)'
    BY FlowNext, WatchNext
<1>3. WatchInv(place) => QueuedIsWatched
    BY DEF WatchInv, KeysWatched, QueuedIsWatched
<1> QED BY <1>1, <1>2, <1>3, PTL DEF Spec

===============================================================================
