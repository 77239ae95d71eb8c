------------------------------ MODULE EventLoop ------------------------------
(***************************************************************************)
(* One router process, its descriptors and its select loop:                *)
(* src/src/Router.cpp, the connections of src/src/controller.cpp and of    *)
(* src/src/data_routing.cpp, connect_data_ports, connect_to of             *)
(* src/src/Util.cpp and recvALL of src/src/network_util.cpp.               *)
(*                                                                         *)
(* What a message means is left to DistanceVector and DataPlane; here it   *)
(* matters what it does to descriptors. Numbers are given out lowest       *)
(* first, and again after a close, as POSIX does.                          *)
(***************************************************************************)
EXTENDS Naturals, FiniteSets, Sequences, FiniteSetsExt

CONSTANTS
    LastFd,       \* the largest descriptor number
    ControlConns, \* connections the controller may open, one after another or at once
    DataConns,    \* connections other routers may open to the data port
    Neighbours,   \* the ids of the neighbours
    Cuts,         \* where a peer may end a connection in the middle of a message:
                  \* inside header or payload (torn), between them (unfinished)
    MaxQueued     \* bound: no chunk is queued while this many wait for one neighbour

\* There is always a number left: accept and socket never fail for want of one.
ASSUME FdsAssumption ==
    /\ LastFd \in Nat
    /\ LastFd >= 3 + Cardinality(ControlConns \cup DataConns) + Cardinality(Neighbours)
    /\ MaxQueued \in Nat \ {0}
    /\ Cuts \subseteq {"torn", "unfinished"}

\* 0 stands for no descriptor, as data_socket_fd has it.
Fd == 1 .. LastFd

Conns == ControlConns \cup DataConns

ASSUME NamesAssumption ==
    /\ Neighbours \subseteq Nat \ {0}
    /\ ControlConns \subseteq Nat \ {0}
    /\ DataConns \subseteq Nat \ {0}
    /\ ControlConns \cap DataConns = {}
    /\ IsFiniteSet(Neighbours) /\ IsFiniteSet(Conns)

VARIABLES
    thread,        \* in the loop, in an endless recvALL, or at its end
    readFd,        \* read_fd: bits of this round of the loop not handled yet
    writeFd,       \* write_fd, likewise
    table,         \* table[f]: what the kernel has under number f
    watched,       \* all_fd
    writing,       \* data_write_fds
    maxFd,         \* max_fd
    controllerFds, \* controller_fds
    dataFds,       \* data_fds
    hop,           \* hop[m]: data_socket_fd of the entry of m
    queue,         \* queue[m]: the chunks queued under the key with next hop m
    inactive,      \* the neighbours whose status is INACTIVE
    refused,       \* neighbours connect_data_ports has failed to connect to
    life,          \* life[c]: a connection to this router, as its opener sees it
    inbox,         \* inbox[c]: what the next recv of c finds
    port           \* port[m]: the data port of m: not there yet, open, gone, and
                   \* reset once something was written to it then

round  == <<readFd, writeFd>>
kernel == <<table, watched, writing, maxFd, controllerFds, dataFds>>
hops   == <<hop, queue, inactive, refused>>
peers  == <<life, inbox, port>>
vars   == <<thread, round, kernel, hops, peers>>

Kinds == {"free", "control", "router", "data", "controller", "inbound", "outbound"}

Free == [kind |-> "free", who |-> 0]

Outbound(m) == [kind |-> "outbound", who |-> m]

Open == {f \in Fd : table[f].kind # "free"}

Unused(tab) == {f \in Fd : tab[f].kind = "free"}

Lowest(tab) == Min(Unused(tab))

Init ==
    /\ thread = "select"
    /\ readFd = {}
    /\ writeFd = {}
    /\ table = [f \in Fd |-> IF f = 1 THEN [kind |-> "control", who |-> 0] ELSE Free]
    /\ watched = {1}
    /\ writing = {}
    /\ maxFd = 1
    /\ controllerFds = {}
    /\ dataFds = {}
    /\ hop = [m \in Neighbours |-> 0]
    /\ queue = [m \in Neighbours |-> <<>>]
    /\ inactive = {}
    /\ refused = {}
    /\ life = [c \in Conns |-> "none"]
    /\ inbox = [c \in Conns |-> "empty"]
    /\ port = [m \in Neighbours |-> "closed"]

Initialised == \E f \in Fd : table[f].kind = "data"

-------------------------------------------------------------------------------
(***************************************************************************)
(* The select call. One round of the loop handles what it reports, lowest  *)
(* number first, whatever its handlers do to the sets meanwhile.           *)
(***************************************************************************)

Waiting(kind) ==
    {c \in IF kind = "control" THEN ControlConns ELSE DataConns : life[c] = "waiting"}

\* A neighbour's end of a connection shows on this side too, as something to read.
Readable(f) ==
    \/ table[f].kind \in {"control", "data"} /\ Waiting(table[f].kind) # {}
    \/ table[f].kind \in {"controller", "inbound"} /\ inbox[table[f].who] # "empty"
    \/ table[f].kind = "outbound" /\ port[table[f].who] \in {"gone", "reset"}

\* A connection whose other side is there may have no room.
MayBeFull(f) ==
    \/ table[f].kind \in {"controller", "inbound"}
    \/ table[f].kind = "outbound" /\ port[table[f].who] = "open"

\* The next select: the last round is over, and no set has a closed number, with
\* which select fails, now and ever after.
Selecting ==
    /\ thread = "select"
    /\ readFd = {} /\ writeFd = {}
    /\ watched \cup writing \subseteq Open

ToRead == {f \in watched : f <= maxFd /\ Readable(f)}

ToWrite == {f \in writing : f <= maxFd}

\* Mutant of Select: all that is watched is taken for ready.
SelectAll ==
    /\ Selecting
    /\ readFd' = watched
    /\ UNCHANGED <<thread, writeFd, kernel, hops, peers>>

\* select reports something. A number with something to read is not looked at for
\* writing.
Select ==
    /\ Selecting
    /\ \E full \in SUBSET {f \in ToWrite : MayBeFull(f)} :
          /\ readFd' = ToRead
          /\ writeFd' = ToWrite \ (full \cup ToRead)
          /\ ToRead \cup writeFd' # {}
    /\ UNCHANGED <<thread, kernel, hops, peers>>

\* f is the next number of the round.
Turn(f) == \A g \in readFd \cup writeFd : f <= g

ReadTurn(f) ==
    /\ thread = "select"
    /\ f \in readFd /\ Turn(f)
    /\ readFd' = readFd \ {f}
    /\ UNCHANGED writeFd

WriteTurn(f) ==
    /\ thread = "select"
    /\ f \in writeFd /\ Turn(f)
    /\ writeFd' = writeFd \ {f}
    /\ UNCHANGED readFd

\* Mutants of Watch: max_fd stays as it is, or is what select is given.
WatchOnly(new) ==
    /\ watched' = watched \cup new
    /\ UNCHANGED maxFd

WatchPastEnd(new) ==
    /\ watched' = watched \cup new
    /\ maxFd' = Max(new \cup {maxFd}) + 1

Watch(new) ==
    /\ watched' = watched \cup new
    /\ maxFd' = Max(new \cup {maxFd})

\* A listening descriptor is readable: accept.
Accept(f) ==
    LET k == Lowest(table)
    IN  /\ ReadTurn(f)
        /\ table[f].kind \in {"control", "data"}
        /\ \E c \in Waiting(table[f].kind) :
              /\ life' = [life EXCEPT ![c] = "open"]
              /\ table' = [table EXCEPT ![k] =
                    [kind |-> IF c \in ControlConns THEN "controller" ELSE "inbound", who |-> c]]
              /\ controllerFds' = IF c \in ControlConns THEN controllerFds \cup {k} ELSE controllerFds
              /\ dataFds' = IF c \in DataConns THEN dataFds \cup {k} ELSE dataFds
        /\ Watch({k})
        /\ UNCHANGED <<thread, writing, hops, inbox, port>>

\* Mutants of Close: close_fd leaves the number in its own set, and receive
\* returns true.
CloseOnly(f) ==
    /\ table' = [table EXCEPT ![f] = Free]
    /\ watched' = watched \ {f}
    /\ UNCHANGED <<controllerFds, dataFds, writing, maxFd>>

CloseWatched(f) ==
    /\ table' = [table EXCEPT ![f] = Free]
    /\ controllerFds' = controllerFds \ {f}
    /\ dataFds' = dataFds \ {f}
    /\ UNCHANGED <<watched, writing, maxFd>>

\* close_fd, and FD_CLR as the receive that called it returns false.
Close(f) ==
    /\ table' = [table EXCEPT ![f] = Free]
    /\ watched' = watched \ {f}
    /\ controllerFds' = controllerFds \ {f}
    /\ dataFds' = dataFds \ {f}
    /\ UNCHANGED <<writing, maxFd>>

\* The first recv of a header finds the end of the connection; so does, on a
\* data connection, the first recv of a payload.
AtEnd(f) ==
    LET c == table[f].who
    IN  \/ inbox[c] = "closed"
        \/ inbox[c] = "unfinished" /\ f \in dataFds

ReceiveEnd(f) ==
    /\ ReadTurn(f)
    /\ f \in controllerFds \cup dataFds
    /\ AtEnd(f)
    /\ Close(f)
    /\ life' = [life EXCEPT ![table[f].who] = "done"]
    /\ inbox' = [inbox EXCEPT ![table[f].who] = "empty"]
    /\ UNCHANGED <<thread, hops, port>>

\* The connection ends inside a header or a payload: recvALL adds zero for ever.
ReceiveTorn(f) ==
    /\ ReadTurn(f)
    /\ f \in controllerFds \cup dataFds
    /\ inbox[table[f].who] = "torn"
    /\ thread' = "spinning"
    /\ UNCHANGED <<kernel, hops, peers>>

\* An outgoing connection in all_fd, under a number that was left there: it is
\* reported in every round once its neighbour is gone, and never read.
UnknownIndex(f) ==
    /\ ReadTurn(f)
    /\ table[f].kind = "outbound"
    /\ UNCHANGED <<thread, kernel, hops, peers>>

-------------------------------------------------------------------------------
(***************************************************************************)
(* Handlers of whole messages, as far as they touch descriptors.           *)
(***************************************************************************)

Receives(f, fds) ==
    /\ ReadTurn(f)
    /\ f \in fds
    /\ inbox[table[f].who] = "message"
    /\ inbox' = [inbox EXCEPT ![table[f].who] = "empty"]
    /\ UNCHANGED <<life, port>>

\* INIT, the first one: the UDP socket and the listening data socket.
ReceiveInit(f) ==
    LET u == Lowest(table)
        d == Lowest([table EXCEPT ![u] = [kind |-> "router", who |-> 0]])
    IN  /\ Receives(f, controllerFds)
        /\ ~Initialised
        /\ table' = [table EXCEPT ![u] = [kind |-> "router", who |-> 0],
                                  ![d] = [kind |-> "data", who |-> 0]]
        /\ Watch({u, d})
        /\ UNCHANGED <<thread, writing, controllerFds, dataFds, hops>>

\* CRASH: the process exits.
ReceiveCrash(f) ==
    /\ Receives(f, controllerFds)
    /\ thread' = "exited"
    /\ UNCHANGED <<kernel, hops>>

\* A message that opens no descriptor and queues nothing.
ReceiveOther(f) ==
    /\ Receives(f, controllerFds \cup dataFds)
    /\ UNCHANGED <<thread, kernel, hops>>

Accepts(m) == port[m] = "open"

\* Mutant of Connected: the number is stored whether connect succeeds or not.
ConnectedInPlace(tab, m) ==
    IF hop[m] # 0 THEN [table |-> tab, hop |-> hop]
    ELSE [table |-> IF Accepts(m)
                    THEN [tab EXCEPT ![Lowest(tab)] = Outbound(m)]
                    ELSE tab,
          hop |-> [hop EXCEPT ![m] = Lowest(tab)]]

\* Tables after a handler that finds tab made sure of a connection to m: a number
\* in the entry counts as one, and a failed connect leaves no trace.
Connected(tab, m) ==
    IF hop[m] # 0 \/ ~Accepts(m) THEN [table |-> tab, hop |-> hop]
    ELSE [table |-> [tab EXCEPT ![Lowest(tab)] = Outbound(m)],
          hop |-> [hop EXCEPT ![m] = Lowest(tab)]]

\* Chunks for m, if there is a connection or what counts as one; a file that
\* cannot be opened or is too short queues none.
Enqueue(tab, m, chunks) ==
    LET after == Connected(tab, m)
        k     == after.hop[m]
    IN  /\ table' = after.table
        /\ hop' = after.hop
        /\ \/ /\ k # 0
              /\ \A l \in Neighbours : Len(queue[l]) < MaxQueued
              /\ queue' = [queue EXCEPT ![m] = @ \o chunks]
              /\ writing' = writing \cup {k}
              /\ maxFd' = Max({k, maxFd})
           \/ (k = 0 \/ chunks = <<>>) /\ UNCHANGED <<queue, writing, maxFd>>

\* What is queued of a file ends in the chunk with fin, which names the
\* descriptor the request came from.
Chunks(f) == {<<>>, <<[asker |-> f, conn |-> table[f].who]>>}

\* SENDFILE over neighbour m.
ReceiveSendFile(f, m) ==
    /\ Receives(f, controllerFds)
    /\ Initialised
    /\ \E chunks \in Chunks(f) : Enqueue(table, m, chunks)
    /\ UNCHANGED <<thread, watched, controllerFds, dataFds, inactive, refused>>

\* A data packet to forward over neighbour m.
ReceiveForward(f, m) ==
    /\ Receives(f, dataFds)
    /\ Enqueue(table, m, <<[asker |-> 0, conn |-> 0]>>)
    /\ UNCHANGED <<thread, watched, controllerFds, dataFds, inactive, refused>>

\* The connection of a controller ends between header and payload. The payload is
\* freed and the number closed, but left in all_fd; then the message is handled.
\* INIT finds no entry of its own in what it reads and dereferences a null
\* pointer, CRASH exits, SENDFILE may find a route and a file (f is its asker
\* still), the rest touches no descriptor. The allocator may end the process when
\* the payload is freed again.
ReceiveUnfinished(f) ==
    LET closed == [table EXCEPT ![f] = Free]
    IN  /\ ReadTurn(f)
        /\ f \in controllerFds
        /\ inbox[table[f].who] = "unfinished"
        /\ \/ thread' \in {"aborted", "exited"} /\ UNCHANGED <<kernel, hops, peers>>
           \/ /\ controllerFds' = controllerFds \ {f}
              /\ life' = [life EXCEPT ![table[f].who] = "cut"]
              /\ inbox' = [inbox EXCEPT ![table[f].who] = "empty"]
              /\ \/ table' = closed /\ UNCHANGED <<writing, maxFd, hop, queue>>
                 \/ /\ Initialised
                    /\ \E m \in Neighbours, chunks \in Chunks(f) : Enqueue(closed, m, chunks)
              /\ UNCHANGED <<thread, watched, dataFds, inactive, refused, port>>

\* write_handler takes a chunk from every queue whose entry names the number f.
Served(f) == {m \in Neighbours : hop[m] = f /\ queue[m] # <<>>}

\* A chunk with fin, or nothing to write, takes f out of data_write_fds. What a
\* neighbour that has exited is sent first is lost, and answered with a reset.
WriteHandler(f) ==
    /\ WriteTurn(f)
    /\ queue' = [m \in Neighbours |-> IF m \in Served(f) THEN Tail(queue[m]) ELSE queue[m]]
    /\ \/ writing' = writing \ {f}
       \/ /\ Served(f) # {} /\ \A m \in Served(f) : Head(queue[m]).asker = 0
          /\ UNCHANGED writing
    /\ port' = [m \in Neighbours |->
                   IF Served(f) # {} /\ table[f] = Outbound(m) /\ port[m] = "gone"
                   THEN "reset" ELSE port[m]]
    /\ UNCHANGED <<thread, table, watched, maxFd, controllerFds, dataFds>>
    /\ UNCHANGED <<hop, inactive, refused, life, inbox>>

\* SIGPIPE, which nothing catches: a write after that reset.
WriteBroken(f) ==
    /\ WriteTurn(f) /\ Served(f) # {}
    /\ \E m \in Neighbours : table[f] = Outbound(m) /\ port[m] = "reset"
    /\ thread' = "killed"
    /\ UNCHANGED <<kernel, hops, peers>>

-------------------------------------------------------------------------------
(***************************************************************************)
(* timeout_handler.                                                        *)
(***************************************************************************)

\* connect_data_ports, for the entries not in gone that have no number, in their
\* order: connect_to puts the lowest number into the entry before it connects, and
\* closes it, but leaves it there, if that fails.
ConnectDataPorts(gone) ==
    LET due           == {m \in Neighbours \ gone : hop[m] = 0}
        kept          == {m \in due : Accepts(m)}
        Taken(new, m) == {new[l] : l \in {x \in kept : x < m}}
    IN  /\ \E new \in [due -> Unused(table)] :
              /\ \A m \in due : new[m] = Min(Unused(table) \ Taken(new, m))
              /\ hop' = [m \in Neighbours |-> IF m \in due THEN new[m] ELSE hop[m]]
              /\ table' = [f \in Fd |->
                    IF \E m \in kept : new[m] = f
                    THEN Outbound(CHOOSE m \in kept : new[m] = f)
                    ELSE table[f]]
        /\ refused' = refused \cup (due \ kept)

\* select reports nothing for a whole tick: mark_inactive, for the neighbours that
\* are due, and connect_data_ports at the end of an interval.
TimeoutHandler ==
    /\ Selecting
    /\ ToRead = {} /\ \A f \in ToWrite : MayBeFull(f)
    /\ Initialised
    /\ \E due \in SUBSET (Neighbours \ inactive) :
          /\ inactive' = inactive \cup due
          /\ \/ UNCHANGED <<table, hop, refused>>
             \/ ConnectDataPorts(inactive \cup due)
    /\ UNCHANGED <<thread, round, watched, writing, maxFd, controllerFds, dataFds>>
    /\ UNCHANGED <<queue, peers>>

-------------------------------------------------------------------------------
(***************************************************************************)
(* Controller and neighbours.                                              *)
(***************************************************************************)

OpenConn(c) ==
    /\ life[c] = "none"
    /\ c \in DataConns => Initialised
    /\ life' = [life EXCEPT ![c] = "waiting"]
    /\ UNCHANGED <<thread, round, kernel, hops, inbox, port>>

SendOn(c) ==
    /\ life[c] = "open" /\ inbox[c] = "empty"
    /\ \E what \in {"message", "closed"} \cup Cuts : inbox' = [inbox EXCEPT ![c] = what]
    /\ UNCHANGED <<thread, round, kernel, hops, life, port>>

\* A neighbour gets its INIT, or exits.
PortChanges(m) ==
    /\ \/ port[m] = "closed" /\ port' = [port EXCEPT ![m] = "open"]
       \/ port[m] = "open" /\ port' = [port EXCEPT ![m] = "gone"]
    /\ UNCHANGED <<thread, round, kernel, hops, life, inbox>>

ReadEvent(f) ==
    \/ Accept(f)
    \/ ReceiveEnd(f)
    \/ ReceiveTorn(f)
    \/ UnknownIndex(f)
    \/ ReceiveUnfinished(f)
    \/ ReceiveInit(f)
    \/ ReceiveCrash(f)
    \/ ReceiveOther(f)
    \/ \E m \in Neighbours : ReceiveSendFile(f, m) \/ ReceiveForward(f, m)

WriteEvent(f) == WriteHandler(f) \/ WriteBroken(f)

\* Once the thread has stopped, what the others do makes no difference to it.
Environment ==
    /\ thread = "select"
    /\ \/ \E c \in Conns : OpenConn(c) \/ SendOn(c)
       \/ \E m \in Neighbours : PortChanges(m)

Loop == Select \/ \E f \in Fd : ReadEvent(f) \/ WriteEvent(f)

Next == Loop \/ TimeoutHandler \/ Environment

Spec == Init /\ [][Next]_vars

\* The thread goes on while it can, and a round handles every bit it was given.
\* Nothing is promised of the other side.
FairSpec == Spec /\ WF_vars(Loop)

-------------------------------------------------------------------------------

Waiters == [asker : Fd \cup {0}, conn : ControlConns \cup {0}]

TypeOK ==
    /\ thread \in {"select", "spinning", "aborted", "killed", "exited"}
    /\ readFd \subseteq Fd
    /\ writeFd \subseteq Fd
    /\ table \in [Fd -> [kind : Kinds, who : Neighbours \cup Conns \cup {0}]]
    /\ watched \subseteq Fd
    /\ writing \subseteq Fd
    /\ maxFd \in Fd
    /\ controllerFds \subseteq Fd
    /\ dataFds \subseteq Fd
    /\ hop \in [Neighbours -> Fd \cup {0}]
    /\ queue \in [Neighbours -> Seq(Waiters)]
    /\ \A m \in Neighbours : Len(queue[m]) <= MaxQueued
    /\ inactive \subseteq Neighbours
    /\ refused \subseteq Neighbours
    /\ life \in [Conns -> {"none", "waiting", "open", "done", "cut"}]
    /\ inbox \in [Conns -> {"empty", "message", "closed", "torn", "unfinished"}]
    /\ port \in [Neighbours -> {"closed", "open", "gone", "reset"}]

\* However numbers are given out again, what arrives on a data connection is
\* never read as a control message, nor the other way round: controller_fds and
\* data_fds name the open connections of their kind and nothing else.
Triage ==
    /\ controllerFds = {f \in Fd : table[f].kind = "controller"}
    /\ dataFds = {f \in Fd : table[f].kind = "inbound"}

\* No listening socket and no open connection to this router is left out of the
\* select call, neither by the watched set nor by max_fd.
AllWatched ==
    \A f \in Open : table[f].kind # "outbound" => f \in watched /\ f <= maxFd

\* Whatever the handlers before it in the round did to descriptors, the number
\* whose turn comes is still what select found ready: the thread never blocks in
\* accept or recv over a bit that is out of date.
NeverBlocks == thread = "select" => \A f \in readFd : Readable(f)

\* Numbers in all_fd that no handler reads, closed or given to a connection to a
\* neighbour, are at most as many as the controllers that left between a header
\* and its payload; closed numbers in data_write_fds are those a failed
\* connect_data_ports left in an entry. Nothing else makes select fail.
StraysAreCuts ==
    /\ Cardinality({f \in watched : table[f].kind \in {"free", "outbound"}})
          <= Cardinality({c \in ControlConns : life[c] = "cut"})
    /\ writing \ Open \subseteq {hop[m] : m \in refused}

\* The number in a neighbour's entry is a connection to that neighbour. The
\* entries connect_data_ports has failed on are the exception: theirs may name
\* any accepted connection or other neighbour, but never a listening or UDP socket.
HopIsPeer ==
    \A m \in Neighbours :
        hop[m] # 0 =>
            \/ table[hop[m]] = Outbound(m)
            \/ m \in refused /\ table[hop[m]].kind \notin {"control", "router", "data"}

\* A controller that connects to a router that was not told to crash is
\* accepted, whatever the controllers before it and the other routers did.
ReadyForControllers ==
    \A c \in ControlConns :
        life[c] = "waiting" ~> life[c] # "waiting" \/ thread = "exited"

==============================================================================
