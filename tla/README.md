# Verification of the distance-vector router

TLA+ models of the router in `src/`, TLC configurations that check them on small
networks, and TLAPS proofs, for any network, of the safety properties the runs check
(section 4 says under which hypotheses, and names the one that is not proved).
`PROJECT.json` maps each definition to the lines it models and lists runs, mutants,
hazards, findings and theorems.

## 1. The system

One router is one process with one thread. `Router::select_loop`
(`src/src/Router.cpp:28-86`) waits 10 ms at most and runs one handler per ready
descriptor, or `timeout_handler` when nothing was ready. Several routers, one per
host, are configured and driven by a controller over TCP.

| Component | State | Operations | Interacts through | Correct when |
|---|---|---|---|---|
| Route computation (`routing.cpp:158-183`, `238-303`) | `distance_vectors`, `routing_table` | `parse_init`, `recompute_routing_table` | called by every handler that changes a vector | the table is the Bellman-Ford step over the vectors, sums do not wrap |
| Control plane (`routing.cpp`, `controller.cpp:106-124`, `148-177`) | `rs.routers` (type, status, cost, last update) | INIT, UPDATE, CRASH, `send_routing_updates`, `receive_update` | UDP updates to all neighbours, controller messages | tables settle on loop-free shortest paths, dead routers leave the tables |
| Failure detection (`routing.cpp:125-156`) | `last_update`, `update_counter` | `timeout_handler`, `mark_inactive` | the clock, received updates | exactly the crashed neighbours are given up, after three intervals |
| Data plane (`data_routing.cpp`) | `send_buffer`, `file_data`, `stats`, `last`, `penultimate` | SENDFILE, `receive`, `write_handler` | TCP connections to next hops, `route_for_destination`, the write set | files arrive whole and in order, TTL and statistics agree, requests are answered |
| Event loop (`Router.cpp`) | `all_fd`, `data_write_fds`, remaining timeout | `select_loop`, `enable_write`, `disable_write` | calls all handlers | whatever has something to write is watched, ticks come in time |
| Controller protocol (`controller.cpp`) | `controller_fds` | `accept`, `receive`, `close_fd`, responses | TCP from the controller | each request is handled once and answered on its own connection |
| Framing (`network_util.cpp`) | none | `recvALL`, `sendALL`, datagram forms | every socket | whole messages or an error |
| Socket helpers (`Util.cpp`), AUTHOR, `main` | none | socket set-up, constants, logging | | |

What is hard to test here: UDP updates that are lost, duplicated or late; a timeout
racing a late update; two ends of a link told of a cost at different times; counting
towards infinity; UPDATE after a timeout; several transfers that share a next hop and
its one write event; routes that change in the middle of a file; TTL shared by a
source, relays and a destination; descriptor numbers that are closed, left over and given
out again; a peer that breaks off in the middle of a message; timers that starve while
there is I/O; a crash whose SIGPIPE takes the neighbours along. `PROJECT.json` "hazards" lists each at its line,
with the properties that cover it or the reason none does yet.

## 2. Modules

| Module | What it models |
|---|---|
| `RouteTable` | one recomputation of one router's table, as operators, with 16-bit sums: what it leaves, and the code's loop |
| `DistanceVector` | the control plane of a network: every router, the controller, UDP, time |
| `MCDistanceVector` | networks and bounds for TLC, true shortest paths |
| `FileTransfer` | what the data plane promises of a transfer (abstract specification) |
| `FailureDetector` | what the control plane's timers promise (abstract specification) |
| `Timers` | the same timers at two neighbours, in ticks and seconds of the clock |
| `DataPlane` | file transfers at every router over given, changing routes, with crashes |
| `MCDataPlane` | networks for TLC |
| `EventLoop` | one process: descriptor numbers, the select loop, the connections |
| `System` | `DistanceVector` and `DataPlane` in one process at every router |
| `MCSystem` | a network for TLC |
| `RouteTableProofs`, `DistanceVectorProofs`, `TimersProofs`, `DataPlaneProofs`, `EventLoopProofs` | lemmas and theorems about each |
| `SystemProofs`, `SystemFlowProofs` | theorems about the composition: its routes, its transfers |

### RouteTable

`TableOf(v, n)` says declaratively what `recompute_routing_table` leaves: for every
destination the candidate neighbour with the least sum, the first of equals in the
order of `rs.routers` (`Index`), or `NoRoute`. `INF` is 65535 in the code (gcc folds
the conversion of `INFINITY` to `uint16_t` to it); instances use 3 or 7, and `WordSum`
wraps modulo `INF + 1`. The code walks over the entries with a running minimum
instead: `LoopRoute` is that loop, a recursive function of the position of the entry
(`Entry`), and `TableAsComputed` compares the two, in the runs on every vector they reach
and by a theorem on all.

### DistanceVector

An action is what one router does between two calls of select: `InitResponse`
(`controller.cpp:156-177` with `parse_init` and the first updates), `UpdateCost`,
`CrashNow`, `ReceiveUpdate`, and `ClockTick` and `IntervalTick`, the two outcomes of
`timeout_handler`. `mark_inactive`, the recomputation and the sending are parts of the
action that calls them, in the code's order. `distance_vectors[self]` is
`vectors[n][n]`: it holds link costs, while updates carry the costs of the table.

- *Time.* `age[n][m]` is the number of update intervals since n last heard m. With
  `Timely = FALSE` time passes freely, and `Elapse` jumps to the timeout. With
  `Timely = TRUE` an interval passes between n and m only after m has sent its update
  for it (`sent`) and the network has delivered or lost it: clocks and delays are small
  against the interval. Ticks and seconds are finer than this clock, see `Timers`. The
  interval is not 0 (0 switches the timers off).
- *Network.* A set of datagrams. A datagram to a router that is not running reaches
  nobody and is dropped when sent. Without `Timely` any number may be lost, be
  delivered again, or overtake each other; with it at most `MaxLosses` are lost.
- *Bounds.* `MaxUpdates`, `MaxCrashes`, `MaxLosses` count what the environment does.
  `MaxInFlight[n]` is the number of datagrams of n in flight to one router; with 1 an
  interval's updates are delivered or lost before the next are sent, with 2 the
  datagrams of the first router can overtake each other.
- *UPDATE.* The code writes `rs.routers[id].cost`, at the position `id`, and
  `distance_vectors[self][id]`, by id; the model does both. For the largest id the
  position is one past the end, where the write is undefined; the model takes it as
  changing nothing. No later code reads the misplaced field.
- *Fairness.* INIT reaches every router; both ticks, the passing of an interval and,
  for each pair, the delivery of a datagram happen when they stay possible. The loop has
  no other place to stay; how late a tick may come is the subject of `Timers`. UPDATE, CRASH and
  loss are never forced.

`FailureDetector` has phases and statuses only: `Start`, `Crash`, `Hear` (the first
update of a neighbour that has started) and `GiveUp` (of neighbours that have crashed).
`DetectsPerfectly` says that with bounded delays `DistanceVector` implements it; the
refinement mapping is the identity on `phase` and `status`.

### Timers

`s` sends an update every `IntervalTicks` ticks of its own loop, `r` compares seconds of
the clock. A unit of time is one `CLOCK_TICK`. `counter` counts the ticks of `s` that took
place, as `update_counter` does, `late` and `wait` the time that passed without being
counted: `timeout_handler` runs only when select has waited a full tick with nothing to
do. `fraction` is the `tv_usec` of `last_update`, so `Expired` is line 144's comparison of
`tv_sec` alone. `r` is watched from its INIT on; that of `s` may come up to `Lag` later
(`phase = "new"`), or earlier.

`Slack` (how late an interval may end), `MaxWait` (between two ticks of `r`), `Delay`,
`Lag` and `MaxLosses` are assumptions about the environment; the code bounds none of
them. `Punctual` says when they are small enough: the longest silence of a live
neighbour has to end a second before three intervals do, since up to a second is cut off.
The instance sits exactly on that bound (with `Lag`, `Slack` or `Delay` one larger TLC
finds a live neighbour given up).

### DataPlane

A connection is the pair of a router and its next hop, `tcp[n][h]` the packets in it;
TCP between two routers neither loses nor reorders. A packet is transfer, number and
TTL; destination and `fin` follow from the transfer, and the numbers stand for
`init_seq_no` onwards. Transfer ids are unique, as the assignment says. `pin` is the
next hop in the key of `send_buffer` (keys compare by id alone, so the first push
decides), `writable` the write set. `SendFile` queues a whole file; `Receive` reads one
packet and drops, stores or forwards it; `WriteHandler` sends one chunk of every
transfer queued for a socket, in the order of the ids (`InOrder`, `Written`), with the
answers and the statistics, and clears the write event as the code does. One call may
send the last packets of several files, so `FileTransfer` answers a set of transfers. `NoChunks` is a file that is
missing or shorter than a packet: it leaves a connection behind, and a write event. `Reroute` is
the interface to the control plane: one entry gets another next hop, or none. `MayFail`
lets opening a connection fail, which loses the packets at hand.

A router that is `down` reads nothing. Its neighbours are not told (they never read from
the sockets they write to): the first thing written to it is lost, the reset that answers
it makes the next write raise SIGPIPE, nothing in `src/` handles that, and `Broken` ends
the writer too, perhaps in the middle of one call of `write_handler`. Several chunks
written before the reset comes back are the same loss; `tcp` keeps only that something
was written. What a router wrote before it went down still arrives.

A destination whose decremented TTL is 0 drops the packet too, so a file needs a TTL of
one more than its hops.

`MaxBuffered` is the number of packets a connection holds before select no longer
reports it writable, `MaxReroutes` bounds the route changes, `MaxCrashes` the routers that
are down when CRASH comes. Fairness: a router reads
what has arrived and writes what select lets it write; nothing else.

`Untangled` is the state in which no two keys of a router name the same next hop. While it
lasts, `QueuedIsWatched` and `Completes` hold; when two files do share one, `fin` of one
clears the socket of both, and `data_flows` shows what becomes of `SupportsFlows`.
`Recovers` is about a crash: one file is stuck with one chunk at a relay or source whose next
hop is gone (`NoneBreaks`: no second write is due there, so nobody gets SIGPIPE), another is
sent over the route that replaced it, and arrives.

### EventLoop

One router process. `table` is the kernel's descriptor table; `accept` and `socket` take
the lowest free number, as POSIX has it, so numbers come back. `watched`, `writing`,
`maxFd`, `controllerFds`, `dataFds` and `hop` are `all_fd`, `data_write_fds`, `max_fd`,
the two `std::set<int>` and `data_socket_fd`. What messages mean is left to the other
modules; here they open, use and close numbers.

- `Select` is one call of select: it copies what it finds ready into `readFd` and `writeFd`
  (`read_fd`, `write_fd`), and fails for good once `all_fd` or `data_write_fds` has a closed
  number. Each ready descriptor is then one action, lowest number first (`Turn`), whatever the
  handlers before it did to the tables: a number closed by one of them can be given out again
  by the next, in the same round. A number that is both readable and writable is read only.
- A connection with somebody at the other end may be full (`MayBeFull`), so a watched
  socket need not be reported; `TimeoutHandler` runs when nothing is, also with such sockets
  in the write set. What is modelled of it is `mark_inactive` and `connect_data_ports`.
- A peer ends a connection between messages (`closed`), inside a header or payload
  (`torn`: `recvALL` adds 0 for ever, `thread = "spinning"`), or between the two
  (`unfinished`). For `controller::receive` the last one frees the payload twice: the
  allocator may abort, or the number is closed but stays in `all_fd`, and the switch runs on
  the freed payload (`ReceiveUnfinished`): INIT and CRASH end the process, SENDFILE may open
  a connection, under the number just closed too, and queue a file.
- A number left in `all_fd` may come to be an outgoing connection. Once that neighbour is
  gone it is readable for ever, reported as `UnknownIndex`, never read, never written, and
  `timeout_handler` does not run again: no update is sent any more. The model has this; it is
  one of the states behind `StraysAreCuts`.
- `Connected` is `sendfile`'s and `receive`'s use of `connect_to`, on a local variable;
  `ConnectDataPorts` is all of `connect_data_ports`, which passes `data_socket_fd` itself,
  entry after entry: each that is due takes the lowest number not kept by those before it.
- `port[m]` is `reset` once something was written to a neighbour that is gone; the next
  write is SIGPIPE, as in `DataPlane`.
- A neighbour's chunks are one queue: transfers that share a next hop differ in nothing
  the descriptors depend on. `MaxQueued` bounds it.

Fairness (`FairSpec`): the loop takes a step when it can (`WF(Loop)`), because it is the
only thing the thread does; since a round handles each bit once and then calls select again,
that serves every descriptor. Nothing is assumed of peers, or of ticks.

### System

The composition: `DistanceVector`'s variables and actions, with `DataPlane` instantiated
over the routing tables (`route <- NextHops`) and the exited routers (`down <- Gone`).
`CRASH` and SIGPIPE end both halves. An action of one half leaves the variables of the
other alone, except that the data plane reads `table`.

The initial state is a settled network: every router initialised, tables at the shortest
paths, all neighbours connected. `DistanceVector` reaches its part of that state from
`Init` (checked with TLC for the triangle of the run), and `connect_data_ports` connects
every neighbour at the next completed interval. `SettledAssumption` is when a network can
settle on its cheapest paths: each begins with a link, and no link and path together pass
INF, so that no sum wraps. The instance of the run, like any with small costs, satisfies it;
with links as heavy as those of `dv_wrap` the tables of `SettledVectors` would be wrong.
UPDATE is a disjunct of `Control` and is switched off in the run, as `dv_revive` shows what
it does after a timeout.

The composition is checked for safety only. A `Recovers` of the composition, with two
transfers, is beyond TLC's reach; `DataPlane` has it over routes that change.

Deadlock is not checked for the data plane and the event loop alone: the first stops
when every file has arrived, the second when the process has ended. The control plane,
the timers and the composition never stop, and TLC checks that.

## 3. Runs

| Run | Instance | Shows |
|---|---|---|
| `dv_untimely` | line of 3, INF = 3, any loss, duplicate, delay | `TypeOK`; `NoRouteViaInactive`: no route over a neighbour given up; `NoUnderestimate`: no table or datagram below the shortest path; `TimeoutIsFinal` |
| `dv_update` | line of 3, links of cost 2 and 1, INF = 9, one UPDATE to 1, 4 or INF at one end of a link | `TableCurrent`, `TableAsComputed`, `RouteWellFormed`; `NextHopsDescend`: no loops as long as nothing gets worse; `SettlesAfterUpdate`: all tables end up agreeing with each other |
| `dv_converge` | line of 3, INF = 7, one crash, one loss, bounded delays | `NoFalseTimeout`, `DetectsPerfectly` (refines `FailureDetector`), `CrashDetected`, `Converges`: loop-free shortest paths among the survivors, and INF for the router that is gone |
| `timers` | 3 ticks to a second, interval 3 s, slack, wait and delay of 2 ticks, one loss, INIT 11 ticks late | `TypeOK`, `KeptInTime`: no live neighbour given up; `GivenUpInTime`: silence noticed within three intervals and a wait |
| `data_reroute` | triangle, files of 3 and 2 packets, 3 route changes, one crash, failing connections, missing files | `TypeOK`, `KeepsPromises` (refines `FileTransfer`), `TTLSparesNone`, `AnsweredOnceSent`, `StatisticsAgree` |
| `data_steady` | line of 3 whose ends may get a direct link, files both ways and a third, connections that hold one packet, one crash | `QueuedIsWatched`, `Completes`: every file arrives while no two share a next hop and no router ends; `Recovers`: after a crash, over the new link, too |
| `loop` | 7 numbers, two controllers, one peer, one neighbour, all ways to break off, one chunk queued | `TypeOK`, `Triage`: the two protocols are never confused; `AllWatched`; `NeverBlocks`: no handler is called for a number that is no longer ready; `StraysAreCuts`: what stays in the sets by mistake, and why; `HopIsPeer` |
| `system` | triangle with one link of cost 2, INF = 3, a file of 2 packets over the relay, which may crash | `PinsAreLive`: no new transfer over a neighbour given up |

A line of three routers has a relay, two routers that only know each other through it,
and, after a crash at one end, the two-router counting towards infinity, each of the survivors
taking the other for the way to the one that is gone; INF = 7 gives it several rounds. In
`dv_update` an UPDATE to INF, or to 4, at one end of a link starts the same; costs of 1 and 2
leave room for a lower one. With links of cost 1 every path costs less than INF = 3, the word that
wraps soonest and so keeps `dv_untimely` small. The triangle of `data_reroute` has routes over the
other router from both sides, that is a routing loop, and TTLs of 2 and 3 let it end
both before and after the destination. Three route changes suffice to send packets of
one file around, back, and into a hole; a router that crashes meanwhile can take each of
its neighbours with it. In `loop` the lowest numbers go to a listener, then to whatever
comes first, so each number is had by a controller, a peer and a neighbour in turn, and
two controllers suffice for one to get the number of the other in the same round of select.
In `data_steady` the third file is asked for before or after the crash of the relay and the
new route, so that it meets what the first left behind.
Seven numbers are as many as can be in use at once. In `system` the
direct link costs as much as the way over the relay, which comes first among equals: so
the transfer starts over the relay, and after its crash the survivors have each other's
stale vectors and one route left, at cost INF - 1.

Four runs end in a counterexample; each is a disagreement of the code with what a
comment or document says of it (`PROJECT.json` "findings"):

| Run | Property | Where | What happens |
|---|---|---|---|
| `dv_wrap` | `NoWrapAround` | `routing.cpp:171` | links of cost 2, one crash: counting up reaches 2 + 6 = 8, which is 0 in the word |
| `dv_revive` | `NoRouteViaInactive` | `routing.cpp:356` | an UPDATE restores the link to a router that was given up |
| `data_flows` | `SupportsFlows` | `data_routing.cpp:341` | `fin` of one transfer silences another's socket |
| `loop_serves` | `ReadyForControllers` | `network_util.cpp:36` | a controller that breaks off inside a message stops the router |

Three more disagreements take one step and no run: UPDATE writes the cost field at the
position of the id (`routing.cpp:355`), which nothing reads later; the timer of a
neighbour starts at this router's INIT (`routing.cpp:262`), where `src/PA3.pdf` section
6.1 has it start at the first update (`Timers` says how much later the neighbour's INIT
may come); and a destination keeps a payload without its header as its last packet
(`data_routing.cpp:180`).

Every property of a passing run has a mutant of the code, an operator next to the one
it replaces (for example `ExpiredEarly`: a timeout of two intervals), under which the
same run finds it violated.

## 4. Proofs

Every invariant and every action property of a passing run but `NextHopsDescend` is also a
theorem, and so are both refinements. Proofs assume only what the modules assume of their constants, by name,
which TLC evaluates on every run: routers are a finite set of naturals other than INF,
links have two ends, the positions of each router's entries fill its vector, `Shortest`
obeys the triangle inequality over links, the bounds are naturals. A hypothesis beyond
those stands in the theorem's statement and in the second column below.

`RouteTableProofs`: a non-empty set of naturals has a least element, ranked by
`Index` a unique one (`NatMinimum`, `RankedMinimum`), so `BestHop` is well defined
(`BestHopExists`), its route is a candidate with its cost (`RouteFacts`), and tables and
initial vectors have their types. `LoopIsRoute`: what the first i entries leave is the
best candidate among them, so the whole loop leaves `RouteTo`. The library's induction
theorems are out of reach (they take an operator), so the induction is by a least
counterexample: `NatMinimum` on the positions at which the loop would have gone wrong.

`DistanceVectorProofs`, for any set of routers, links, INF, bounds and timing:

| Theorem | Further assumption | Argument |
|---|---|---|
| `TypeCorrect` | | `TypeOK` is inductive, one step per action |
| `TablesCurrent` | | `TypeOK /\ TableCurrent` is inductive: every change of a vector is followed by its recomputation in the same action |
| `RoutesWellFormed` | | `TableCurrent` makes every entry a `RouteTo`, then `RouteFacts` |
| `TablesAsComputed` | | the same with `LoopIsRoute`: every entry is what the code's loop computes |
| `TimeoutsAreFinal` | | strengthened by `OnlyNeighbours` (only neighbours send to a router, only neighbours are given up): a router never gives itself up, so what UPDATE and timeouts write, its own row, is never the row of one it gave up |
| `DeadNeighboursUnused` | no UPDATE | strengthened by `InactiveCut`: the link to a neighbour given up is INF; with UPDATE it is false, which `dv_revive` shows |
| `NoFalseTimeouts` | `Timely`, at most one loss | strengthened by `AgesBounded`: between living neighbours the age is at most the number of losses plus one, and at most the number of losses once the update of the interval was sent and is no longer in flight; so one loss leaves it below three |
| `TimersDetectPerfectly` | `Timely`, at most one loss | `AgesBounded`, and `SendersStarted`: a datagram in flight has a sender that is not new; then each action maps to `Start`, `Crash`, `Hear`, `GiveUp` or a stutter, and `GiveUp` finds only crashed neighbours because an expired age contradicts `AgesBounded` for a running one |
| `NeverUnderestimates` | links of cost 1, UPDATE only to 1 or INF | strengthened by `CostsBounded`: no vector held or in flight is below the shortest path, and own links cost 1 or INF; then a candidate's sum cannot pass INF, and the triangle inequality bounds it. With other costs the sum wraps, which `dv_wrap` shows |

`TimersProofs`, for any interval, slack, wait, delay, loss bound and lag within
`TimesAssumption`:

| Theorem | Argument |
|---|---|
| `TypeCorrect` | `TypeOK` is inductive once it says how far the counters lag: `Sane` bounds `late + wait` by `Slack + 1`, has a datagram in flight no older than `Delay`, and makes everything of a sender that is new zero |
| `SilenceNoticed` | `r`'s elapsed time can pass the timeout only between two ticks, and each tick that finds it passed ends the timing |
| `LiveNeighboursKept` | `SilenceBounded`: while `s` is not gone, `elapsed` is at most the longest wait for an update (`Longest`: a period, or the lag), one `Period` for each update missed since, and the time since the last was sent; `Punctual` puts that a second below three intervals, so `Expired`, which cuts off less than a second, is false; `Kept` follows with it |

`DataPlaneProofs`, for any network, files, TTLs (0 included), route changes, failing
connections, missing files and crashes. All but the last rest on one invariant, `FlowInv`:

| Theorem | Further assumption | Argument |
|---|---|---|
| `TypeCorrect` | | follows from `FlowInv` |
| `TTLSparesNoneHolds`, `AnsweredOnceSentHolds`, `StatisticsAgreeHolds` | | follow from `FlowInv` |
| `RefinesFileTransfer` | | `SendFile`, `Receive` and `WriteHandler` map to `Request`, `Arrive` and `Answer` or a stutter (`ArrivedMap`, `StoredMap`, `AnsweredMap` are the refinement mapping's terms); that a packet arrives with a number above the last is `FlowInv` |
| `QueuedIsWatchedHolds` | no route changes, `ComesOnce` | `WatchInv`: a key with chunks is that of the first route and its socket is watched |

Why `FlowInv`: a destination appends what comes without looking at its number, so order is
a property of everything between source and destination. The code has it because the key of
a send buffer keeps the next hop of its first push (keys compare by id alone,
`data_routing.cpp:40`):
whatever routes do later, a file's packets go one way (`OnePath`, `PathPinned`). The way may
go in circles, so a router does not say how far a packet has come; its TTL does (`Hops`,
which also counts a TTL of 0 that wraps to the largest at the first relay). For each hop
`FlowInv` then says: what is at a hop was counted at all before (`NoShortcut`), what waits
for or is under way to a hop comes after all that was counted there or further on
(`QueuedLater`, `SentLater`), queues and sockets keep the order of packets that have come
equally far (`InSequence`), a destination stores only what it has counted
(`StoredArrived`), drops leave their mark in the statistics (`DroppedLate`), and while one
packet of a file is to be sent by its source every other was or is (`AllSent`). None is
inductive alone; they are one conjunction for each transfer, and each action has a lemma.

`QueuedIsWatched` is false in general, also of a state that is `Untangled`: with a route
change, or a way that comes to a router twice, a later chunk joins the queue of the key while
the write event is set on another socket. `ComesOnce(place)` excludes the second: `place`
numbers the routers along each way. In the run one route does change, for a transfer that is
queued whole at its source, where a key is pushed to once. That keys meet is excluded by
`Untangled`, which once false stays so (`UntangledBefore`), since a key keeps its next hop.

`EventLoopProofs`, for any number of descriptors, controllers, peers and neighbours within
`FdsAssumption` (there are more numbers than things that can have one):

| Theorem | Argument |
|---|---|
| `TypeCorrect`, `TriageHolds` | `Numbers` is inductive: no two numbers stand for the same thing (`Distinct`), each accepted one for a connection that is open (`LiveConns`), each outgoing one for the neighbour whose entry has it (`HopKnown`). There are more numbers than things to stand for, so by the pigeonhole principle a number is free for each thing that has none yet (`NumberLeft`), and what is entered there names nothing twice |
| `AllWatchedHolds`, `NeverBlocksHolds`, `StraysAreCutsHolds`, `HopIsPeerHolds` | `LoopInv`: with `Numbers`, what is written to is a neighbour's (`WritingIsHop`), and connections are refused only after INIT, so the listeners have their numbers before one is left in an entry (`RefusedLate`). A bit of `readFd` stays true, because a handler takes its own bit out, closes only its own number, and what select found to be read at another number is read by that number's handler alone (`BitsKept`, `BitsReceived`). A cut adds at most one number to those nobody reads, and nothing else adds one, an accept, a socket and a connect included: they take a number that is free, so at most turn a stray into another kind (`StraysCounted`) |

`SystemProofs` and `SystemFlowProofs`, about the composition:

| Theorem | Further assumption | Argument |
|---|---|---|
| `PinsAreLiveHolds` | no UPDATE | `ControlInv`, the control plane's invariants, is kept by every step of the composition, SIGPIPE included; a next hop is a candidate, whose link is not INF |
| `NoLoopsInPeaceHolds` | no UPDATE, `Timely`, at most one loss, `TTLsSuffice(hops)` | `Peaceful`: while all are there the timers find nobody late (`AgesBounded`), so vectors and tables stay the settled ones and datagrams repeat them (`Calm`), so every packet has a TTL above the hops it has before it (`Lasting`) |
| `NoLoopsOnCheapestPaths` | the same, but of links and TTLs only: no free link, each TTL above the cost of the cheapest path | the cost bounds the hops of the settled tables (`CheapestSuffices`). A transfer to its own router counts as one hop |
| `TransfersSafe` | | the assumptions of `DataPlane` hold of `System`'s instance of it, each data step is one of `DataPlane`'s, and a step of the control plane moves the routes, which `FlowInv` does not mention: `FlowInv` holds over tables that UPDATE, timeouts and crashes move, and so do the three invariants |
| `SystemKeepsPromises` | | from that, the composition implements `FileTransfer` |

Proofs changed the models in four places. Answers had to become a set
(`FileTransfer!Answer`): one `write_handler` can send the last packets of several files.
`connect_data_ports` and the writes of `write_handler` were recursive and are now stated by
what they leave. `System` needed `SettledAssumption`, without which its initial tables are not
those a network settles on. And `FlowInv` had to hold from any set of open connections
(`FlowStart`), since the composition starts connected.

`NoLoopsInPeace` (no TTL runs out while all routers are there) is proved and not run: its
hypotheses leave the tables constant until a crash, and what makes it false, an UPDATE to a
higher cost, is excluded by them. It is the base from which a TTL can be chosen, not a
promise that tables which change have no loops; `NextHopsDescend` says how far that goes.

What stays with TLC: the liveness properties (`Converges`, `CrashDetected`,
`SettlesAfterUpdate`, `Completes`, `Recovers`, and the two that are violated,
`SupportsFlows` and `ReadyForControllers`), which the prover cannot do; `NextHopsDescend`; that `Shortest` is the length of paths, where the proofs take the triangle
inequality (and, for `System`, `SettledAssumption`); and that `DistanceVector` reaches the
state `System` starts in.


## 5. Not modelled

- `sendALL`: partial writes, and a send that blocks the only thread in the middle of a
  packet because the peer reads nothing. The models write only to sockets with room for a
  whole packet. `recvALL` is modelled by what it does at the end of a connection, not by
  byte counts;
- the reading of a UDP datagram in pieces (`receive_update`, `recvFromALL`), and failures
  of `socket`, `bind`, `getaddrinfo` and `accept`;
- responses that change no state (ROUTING-TABLE, SENDFILE-STATS, the last packets, with
  their buffers), messages before INIT other than INIT;
- controllers that leave while their answer is being written, and SIGPIPE from that;
- UPDATE and INIT in the composition, which starts settled; UPDATE at both ends of a link in
  one run of the control plane;
- restarts: a process that has exited is not started again by anything in `src/`;
- files that are not a multiple of 1024 bytes (the rest is not sent);
- lists in INIT messages that differ between routers, or two routers on one address:
  the assignment rules them out, and `find_by_port_ip` and `route_for_destination`
  rely on it;
- byte order, memory management but for the double free above, logging, AUTHOR and
  `main`: no behaviour of their own.

## 6. Plan

Done, in this order: route computation, control plane, its properties and proofs, data
plane and its abstract specification, the failure detector and the clock, descriptors
and the event loop, crashes in the data plane, the composition, proofs of the safety of
each plane, of both refinements and of the composition, and of the code's loop. Next:

1. `QueuedIsWatched` in the composition while all routers are there: `Calm` gives it the
   constant routes it needs, and `ComesOnce` is a condition on the settled tables.
2. Lemmas on the way to liveness that are safety: that each step of a settled network
   either leaves a packet where it is or brings it closer, as a measure that never grows.
3. `StatisticsAgree` as a path: every packet a router counts was counted at every hop
   back to the origin (`PathPinned` and `NoShortcut` hold it already).
4. `Framing`: `recvALL` and `sendALL` over a byte stream that may fill up, and two
   routers that write to each other with full buffers.
