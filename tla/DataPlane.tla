------------------------------- MODULE DataPlane -------------------------------
(***************************************************************************)
(* File transfers over a network of routers: the code of                   *)
(* src/src/data_routing.cpp at every router, and enable_write and          *)
(* disable_write of src/src/Router.cpp.                                    *)
(*                                                                         *)
(* The routing tables are an input: Reroute changes one entry the way a    *)
(* recomputation may. The socket of a router n towards next hop h is the   *)
(* pair <<n, h>>, and TCP delivers what is written to it, in order. A      *)
(* router that is down answers nothing: connecting to it fails, what is    *)
(* written to it first is lost, and once its kernel has refused that, a    *)
(* further write ends the process of the writer, because nothing in src/   *)
(* handles SIGPIPE.                                                        *)
(***************************************************************************)
EXTENDS Naturals, Sequences, FiniteSets, SequencesExt

CONSTANTS
    Routers,      \* the router ids
    NoHop,        \* the next hop of a route of cost INF
    Transfers,    \* transfer ids; the controller uses each for one file
    Origin,       \* Origin[t]: the router that gets the SENDFILE of t
    Dest,         \* Dest[t]: the router its dest_ip names
    Size,         \* Size[t]: the packets in its file
    InitTTL,      \* InitTTL[t]: init_ttl of its SENDFILE
    MaxTTL,       \* the largest value of the TTL field, 255 in the code
    FirstRoute,   \* FirstRoute[n][d]: next hop of n towards d at the start
    RouteChoices, \* RouteChoices[n][d]: the next hops Reroute may set
    MayFail,      \* TRUE: connecting may fail, and files may be missing
    MaxReroutes,  \* bound: recomputations that change a next hop
    MaxCrashes,   \* bound: CRASH comes while fewer routers than this are down
    MaxBuffered   \* bound: packets a connection holds before it is full

ASSUME HopAssumption == NoHop \notin Routers

ASSUME TransfersAssumption ==
    /\ Transfers \subseteq Nat /\ IsFiniteSet(Transfers)
    /\ Origin \in [Transfers -> Routers]
    /\ Dest \in [Transfers -> Routers]
    /\ Size \in [Transfers -> Nat \ {0}]
    /\ InitTTL \in [Transfers -> 0 .. MaxTTL]

ASSUME RoutesAssumption ==
    /\ FirstRoute \in [Routers -> [Routers -> Routers \cup {NoHop}]]
    /\ RouteChoices \in [Routers -> [Routers -> SUBSET (Routers \cup {NoHop})]]

ASSUME DataBoundsAssumption ==
    /\ MaxTTL \in Nat \ {0}
    /\ MayFail \in BOOLEAN
    /\ MaxReroutes \in Nat
    /\ MaxCrashes \in Nat
    /\ MaxBuffered \in Nat \ {0}

VARIABLES
    requested, \* the transfers whose SENDFILE was received
    route,     \* route[n][d]: next hop in n's routing table
    connected, \* connected[n]: the next hops whose data_socket_fd is set at n
    pin,       \* pin[n][t]: next_hop of the key of t in n's send_buffer
    queue,     \* queue[n][t]: the chunks queued under that key
    writable,  \* writable[n]: the sockets in n's data_write_fds
    tcp,       \* tcp[n][h]: the packets written by n that h has not read
    stats,     \* stats[n][t]: n's statistics for t
    fileData,  \* fileData[t]: file_data of t at its destination
    file,      \* file[t]: the file-<t> the destination has written
    answers,   \* answers[t]: SENDFILE responses sent to the controller
    expired,   \* expired[t]: the packets of t dropped at end of TTL
    down,      \* the routers whose process has ended
    reroutes   \* counter behind MaxReroutes

vars == <<requested, route, connected, pin, queue, writable, tcp, stats,
          fileData, file, answers, expired, down, reroutes>>

Up == Routers \ down

\* A data packet; dest_ip and fin follow from the transfer and the number.
Packet == [id : Transfers, seq : Nat, ttl : 0 .. MaxTTL]

\* A queued chunk: whether n packetised it itself (is_origin) comes along.
Chunk == [pkt : Packet, own : BOOLEAN]

\* Mutant of Fin: the packet before the last is taken for the last.
FinEarly(pkt) == pkt.seq = Size[pkt.id] - 1

Fin(pkt) == pkt.seq = Size[pkt.id]

\* Mutant of Decremented: reading and writing a packet both decrement.
DecrementedTwice(ttl) == IF ttl < 2 THEN 0 ELSE ttl - 2

\* uint8_t decrement.
Decremented(ttl) == IF ttl = 0 THEN MaxTTL ELSE ttl - 1

Init ==
    /\ requested = {}
    /\ route = FirstRoute
    /\ connected = [n \in Routers |-> {}]
    /\ pin = [n \in Routers |-> [t \in Transfers |-> NoHop]]
    /\ queue = [n \in Routers |-> [t \in Transfers |-> <<>>]]
    /\ writable = [n \in Routers |-> {}]
    /\ tcp = [n \in Routers |-> [h \in Routers |-> <<>>]]
    /\ stats = [n \in Routers |-> [t \in Transfers |-> {}]]
    /\ fileData = [t \in Transfers |-> <<>>]
    /\ file = [t \in Transfers |-> <<>>]
    /\ answers = [t \in Transfers |-> 0]
    /\ expired = [t \in Transfers |-> {}]
    /\ down = {}
    /\ reroutes = 0

-------------------------------------------------------------------------------

\* Mutants of Push: a key that follows the route, chunks queued at the front,
\* and a socket watched only from its connection on.
PushRepinned(n, t, chunks, h) ==
    /\ connected' = [connected EXCEPT ![n] = connected[n] \cup {h}]
    /\ pin' = [pin EXCEPT ![n][t] = h]
    /\ queue' = [queue EXCEPT ![n][t] = queue[n][t] \o chunks]
    /\ writable' = [writable EXCEPT ![n] = writable[n] \cup {h}]

PushFront(n, t, chunks, h) ==
    /\ connected' = [connected EXCEPT ![n] = connected[n] \cup {h}]
    /\ pin' = [pin EXCEPT ![n][t] = IF pin[n][t] = NoHop THEN h ELSE pin[n][t]]
    /\ queue' = [queue EXCEPT ![n][t] = chunks \o queue[n][t]]
    /\ writable' = [writable EXCEPT ![n] = writable[n] \cup {h}]

PushUnwatched(n, t, chunks, h) ==
    /\ connected' = [connected EXCEPT ![n] = connected[n] \cup {h}]
    /\ pin' = [pin EXCEPT ![n][t] = IF pin[n][t] = NoHop THEN h ELSE pin[n][t]]
    /\ queue' = [queue EXCEPT ![n][t] = queue[n][t] \o chunks]
    /\ writable' = [writable EXCEPT ![n] =
                        IF h \in connected[n] THEN writable[n] ELSE writable[n] \cup {h}]

\* Chunks of t go into n's send_buffer. A transfer_key compares by transfer id
\* alone, so the key of the first push stays, with its next hop; writing is
\* enabled on the socket to the next hop h of now.
Push(n, t, chunks, h) ==
    /\ connected' = [connected EXCEPT ![n] = connected[n] \cup {h}]
    /\ pin' = [pin EXCEPT ![n][t] = IF pin[n][t] = NoHop THEN h ELSE pin[n][t]]
    /\ queue' = [queue EXCEPT ![n][t] = queue[n][t] \o chunks]
    /\ writable' = [writable EXCEPT ![n] = writable[n] \cup {h}]

NoPush == UNCHANGED <<connected, pin, queue, writable>>

\* Without a connection one is opened, which a router that is down refuses.
Reaches(n, h) == h \in connected[n] \cup Up

\* Chunks of t on their way from n: lost without a route, or when connect fails.
Route(n, t, chunks) ==
    LET h == route[n][Dest[t]]
    IN  \/ h # NoHop /\ Reaches(n, h) /\ Push(n, t, chunks, h)
        \/ (h = NoHop \/ ~Reaches(n, h)) /\ NoPush
        \/ MayFail /\ h \notin connected[n] /\ NoPush

\* The file cannot be opened, or is shorter than a payload: nothing is queued,
\* after the connection is there. For a short file writing is enabled.
NoChunks(n, h) ==
    /\ MayFail
    /\ h # NoHop /\ Reaches(n, h)
    /\ connected' = [connected EXCEPT ![n] = connected[n] \cup {h}]
    /\ \/ UNCHANGED writable
       \/ writable' = [writable EXCEPT ![n] = writable[n] \cup {h}]
    /\ UNCHANGED <<pin, queue>>

\* Mutant of Packetised: numbers from zero.
PacketisedFromZero(t) ==
    [k \in 1 .. Size[t] |->
        [pkt |-> [id |-> t, seq |-> k - 1, ttl |-> InitTTL[t]], own |-> TRUE]]

Packetised(t) ==
    [k \in 1 .. Size[t] |->
        [pkt |-> [id |-> t, seq |-> k, ttl |-> InitTTL[t]], own |-> TRUE]]

\* SENDFILE for t reaches its origin.
SendFile(t) ==
    LET n == Origin[t]
    IN  /\ n \in Up
        /\ t \notin requested
        /\ requested' = requested \cup {t}
        /\ Route(n, t, Packetised(t)) \/ NoChunks(n, route[n][Dest[t]])
        /\ UNCHANGED <<route, tcp, stats, fileData, file, answers, expired, down, reroutes>>

Drop(pkt) ==
    /\ expired' = [expired EXCEPT ![pkt.id] = expired[pkt.id] \cup {pkt.seq}]
    /\ NoPush
    /\ UNCHANGED <<stats, fileData, file>>

Deliver(n, pkt) ==
    LET t    == pkt.id
        data == Append(fileData[t], pkt.seq)
    IN  /\ stats' = [stats EXCEPT ![n][t] = stats[n][t] \cup {<<pkt.ttl, pkt.seq>>}]
        /\ fileData' = [fileData EXCEPT ![t] = IF Fin(pkt) THEN <<>> ELSE data]
        /\ file' = IF Fin(pkt) THEN [file EXCEPT ![t] = data] ELSE file
        /\ NoPush
        /\ UNCHANGED expired

Forward(n, pkt) ==
    /\ Route(n, pkt.id, <<[pkt |-> pkt, own |-> FALSE]>>)
    /\ UNCHANGED <<stats, fileData, file, expired>>

\* n reads a packet from the connection m opened to it; what m wrote before it
\* went down still arrives.
Receive(m, n) ==
    LET read == Head(tcp[m][n])
        pkt  == [read EXCEPT !.ttl = Decremented(read.ttl)]
    IN  /\ n \in Up
        /\ tcp[m][n] # <<>>
        /\ tcp' = [tcp EXCEPT ![m][n] = Tail(tcp[m][n])]
        /\ \/ pkt.ttl = 0 /\ Drop(pkt)
           \/ pkt.ttl # 0 /\ n = Dest[pkt.id] /\ Deliver(n, pkt)
           \/ pkt.ttl # 0 /\ n # Dest[pkt.id] /\ Forward(n, pkt)
        /\ UNCHANGED <<requested, route, answers, down, reroutes>>

\* Mutant of Answers: any chunk of its own makes the origin answer.
AnswersEarly(chunk) == chunk.own

\* The chunk whose transmission the controller is told of.
Answers(chunk) == chunk.own /\ Fin(chunk.pkt)

\* The transfers write_handler finds something of to send to h, by id.
Sendable(n, h) == {t \in Transfers : pin[n][t] = h /\ queue[n][t] # <<>>}

\* The first chunk of each transfer in ts is taken from its queue at n.
TakeChunks(n, ts) ==
    LET chunk == [t \in ts |-> Head(queue[n][t])]
    IN  /\ queue' = [queue EXCEPT ![n] =
                        [t \in Transfers |-> IF t \in ts THEN Tail(queue[n][t]) ELSE queue[n][t]]]
        /\ stats' = [stats EXCEPT ![n] =
                        [t \in Transfers |->
                            stats[n][t] \cup {<<chunk[u].pkt.ttl, chunk[u].pkt.seq>> : u \in ts \cap {t}}]]
        /\ answers' = [t \in Transfers |->
                        IF t \in ts /\ Answers(chunk[t]) THEN answers[t] + 1 ELSE answers[t]]

\* The transfers of ts in the order of their ids, which send_buffer is sorted by.
InOrder(ts) ==
    {ids \in [1 .. Cardinality(ts) -> ts] : \A i, j \in DOMAIN ids : i < j => ids[i] < ids[j]}

\* The socket from n to h after the first chunks of those transfers. A router
\* that is down reads nothing: whether anything was written to it is all that
\* counts.
Written(n, h, ids) ==
    IF h \in down /\ tcp[n][h] # <<>>
    THEN tcp[n][h]
    ELSE tcp[n][h] \o [i \in DOMAIN ids |-> Head(queue[n][ids[i]]).pkt]

\* Mutant of DisableWrite: FD_ZERO for FD_CLR.
DisableAll(n, h) == [writable EXCEPT ![n] = {}]

DisableWrite(n, h) == [writable EXCEPT ![n] = writable[n] \ {h}]

\* n's socket to h can be written: one chunk of each transfer goes out. A last
\* chunk, or nothing to send, clears the socket from the write set.
WriteHandler(n, h) ==
    LET last  == {t \in Sendable(n, h) : Fin(Head(queue[n][t]).pkt)}
        clear == Sendable(n, h) = {} \/ last # {}
    IN  /\ n \in Up /\ h \in writable[n]
        /\ h \in down \/ Len(tcp[n][h]) < MaxBuffered
        /\ \E ids \in InOrder(Sendable(n, h)) :
              tcp' = [tcp EXCEPT ![n][h] = Written(n, h, ids)]
        /\ TakeChunks(n, Sendable(n, h))
        /\ writable' = IF clear THEN DisableWrite(n, h) ELSE writable
        /\ UNCHANGED <<requested, route, connected, pin, fileData, file, expired, down, reroutes>>

\* The process of n ends; what had come for it and was not read is lost.
GoesDown(n) ==
    /\ down' = down \cup {n}
    /\ tcp' = [m \in Routers |-> [tcp[m] EXCEPT ![n] = <<>>]]

\* write_handler is killed by SIGPIPE: something was written to h after it went
\* down, perhaps by the same call.
Broken(n, h) ==
    /\ n \in Up /\ h \in writable[n] \cap down
    /\ \E ts \in SUBSET Sendable(n, h) :
          /\ \A t \in ts, u \in Sendable(n, h) \ ts : t < u
          /\ ts # Sendable(n, h)
          /\ tcp[n][h] # <<>> \/ ts # {}
          /\ TakeChunks(n, ts)
    /\ GoesDown(n)
    /\ UNCHANGED <<requested, route, connected, pin, writable, fileData, file, expired, reroutes>>

\* CRASH at n.
CrashNow(n) ==
    /\ n \in Up
    /\ Cardinality(down) < MaxCrashes
    /\ GoesDown(n)
    /\ UNCHANGED <<requested, route, connected, pin, queue, writable, stats,
                   fileData, file, answers, expired, reroutes>>

\* A recomputation of n's table gives d another next hop, or none.
Reroute(n, d) ==
    /\ n \in Up
    /\ reroutes < MaxReroutes
    /\ reroutes' = reroutes + 1
    /\ \E h \in RouteChoices[n][d] \ {route[n][d]} : route' = [route EXCEPT ![n][d] = h]
    /\ UNCHANGED <<requested, connected, pin, queue, writable, tcp, stats,
                   fileData, file, answers, expired, down>>

-------------------------------------------------------------------------------

Next ==
    \/ \E t \in Transfers : SendFile(t)
    \/ \E n, m \in Routers : Receive(m, n)
    \/ \E n, h \in Routers : WriteHandler(n, h)
    \/ \E n, h \in Routers : Broken(n, h)
    \/ \E n \in Routers : CrashNow(n)
    \/ \E n, d \in Routers : Reroute(n, d)

Spec == Init /\ [][Next]_vars

\* A router reads what has arrived and writes what select lets it write.
Fairness ==
    \A n, m \in Routers : WF_vars(Receive(m, n)) /\ WF_vars(WriteHandler(n, m))

FairSpec == Spec /\ Fairness

-------------------------------------------------------------------------------

TypeOK ==
    /\ requested \subseteq Transfers
    /\ route \in [Routers -> [Routers -> Routers \cup {NoHop}]]
    /\ connected \in [Routers -> SUBSET Routers]
    /\ pin \in [Routers -> [Transfers -> Routers \cup {NoHop}]]
    /\ queue \in [Routers -> [Transfers -> Seq(Chunk)]]
    /\ stats \in [Routers -> [Transfers -> SUBSET ((0 .. MaxTTL) \X Nat)]]
    /\ \A n \in Routers, t \in Transfers :
          /\ \A i \in DOMAIN queue[n][t] : queue[n][t][i].pkt.id = t
          /\ \A e \in stats[n][t] : e[2] \in 1 .. Size[t]
    /\ writable \in [Routers -> SUBSET Routers]
    /\ tcp \in [Routers -> [Routers -> Seq(Packet)]]
    /\ fileData \in [Transfers -> Seq(Nat)]
    /\ file \in [Transfers -> Seq(Nat)]
    /\ answers \in [Transfers -> Nat]
    /\ expired \in [Transfers -> SUBSET Nat]
    /\ down \subseteq Routers
    /\ reroutes \in 0 .. MaxReroutes

\* The packets of a transfer keep their order and none comes twice, although
\* routes change under way and connections are shared.
Promised == INSTANCE FileTransfer WITH
    arrived  <- [t \in Transfers |->
                    IF fileData[t] # <<>> THEN Last(fileData[t])
                    ELSE IF file[t] # <<>> THEN Size[t] ELSE 0],
    stored   <- {t \in Transfers : file[t] # <<>>},
    answered <- {t \in Transfers : answers[t] # 0}

KeepsPromises == Promised!Spec

\* The packets of a transfer share the fate of their TTL: when it runs out for
\* one of them before the destination, no packet of the file gets there.
TTLSparesNone ==
    \A t \in Transfers : expired[t] # {} => fileData[t] = <<>> /\ file[t] = <<>>

\* The controller is answered once, and only when every packet of the file has
\* left the origin.
AnsweredOnceSent ==
    \A t \in Transfers :
        /\ answers[t] <= 1
        /\ answers[t] = 1 =>
              /\ \A k \in 1 .. Size[t] : <<InitTTL[t], k>> \in stats[Origin[t]][t]
              /\ \A i \in DOMAIN queue[Origin[t]][t] : ~queue[Origin[t]][t][i].own

\* The statistics of the routers tell the same story: every packet a router
\* counts left the origin with the initial TTL, and every router that saw it
\* counts it one lower than some other router.
StatisticsAgree ==
    \A n \in Routers, t \in Transfers : \A e \in stats[n][t] :
        \/ n = Origin[t] /\ e[1] = InitTTL[t]
        \/ \E m \in Routers : <<(e[1] + 1) % (MaxTTL + 1), e[2]>> \in stats[m][t]

\* The keys two transfers have at one router name different next hops.
Untangled ==
    \A n \in Routers : \A t, u \in Transfers :
        pin[n][t] = pin[n][u] /\ pin[n][t] # NoHop => t = u

\* Whatever waits for a socket has that socket watched for writing, while no two
\* transfers share one.
QueuedIsWatched ==
    Untangled =>
        \A n \in Routers, t \in Transfers :
            queue[n][t] # <<>> => pin[n][t] \in writable[n]

Stored(t) == file[t] = [k \in 1 .. Size[t] |-> k] /\ answers[t] = 1

\* A file that was accepted reaches its destination whole and in order, and the
\* controller is answered, whatever is under way over the other sockets, as long
\* as no router ends and no two transfers share a next hop.
Completes ==
    \A t \in Transfers :
        t \in requested ~> Stored(t) \/ ~Untangled \/ down # {}

\* The same of transfers that share a next hop: "Supports multiple file transfer
\* flows." It does not hold, because fin of one clears the socket of all.
SupportsFlows ==
    \A t \in Transfers :
        t \in requested ~> Stored(t) \/ down # {}

\* All of t waits at its origin, for a destination that is its next hop.
Ready(t) ==
    LET n == Origin[t]
    IN  /\ {n, Dest[t]} \subseteq Up
        /\ Len(queue[n][t]) = Size[t]
        /\ pin[n][t] = Dest[t]

\* No router has more than one chunk to write to one that is down.
NoneBreaks ==
    \A n \in Up, h \in down, t \in Transfers :
        pin[n][t] = h => Len(queue[n][t]) + Len(tcp[n][h]) <= 1

\* The routers that are down are those sent CRASH, as many as the bound lets.
OnlyCrashed == down # {} /\ Cardinality(down) = MaxCrashes

\* After a crash, once a route leads round the router that is gone, the next file
\* arrives whole and is answered for, and no further router ends, although an
\* earlier file is stuck half way to the one that is gone: with one chunk left of
\* it, nothing of that stands in the way.
Recovers ==
    LET Recovered == requested = Transfers /\ Untangled /\ OnlyCrashed /\ NoneBreaks
    IN  \A t \in Transfers :
            (Recovered /\ Ready(t)) ~> (Stored(t) /\ OnlyCrashed)

=============================================================================
