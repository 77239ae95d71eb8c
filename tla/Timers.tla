-------------------------------- MODULE Timers --------------------------------
(***************************************************************************)
(* The timers of routing.cpp at two neighbours: s sends updates, counted   *)
(* in ticks of its own loop, and r times s out by the clock. Here time is  *)
(* measured, in units of CLOCK_TICK; DistanceVector has whole intervals.   *)
(*                                                                         *)
(* timeout_handler runs only when select has waited a tick without         *)
(* anything else to do, so ticks come late, and those that were missed are *)
(* not made up for. Slack and MaxWait bound how late they are.             *)
(***************************************************************************)
EXTENDS Naturals

CONSTANTS
    TicksPerSecond, \* 100 in the code, CLOCK_TICK being 10 ms
    Interval,       \* rs.update_interval, in seconds
    Slack,          \* how much later than its ticks an interval of s may end
    MaxWait,        \* the longest time from one tick of r to the next
    Delay,          \* the longest time from a send of s to r's recvfrom
    MaxLosses,      \* updates the network may lose in a row
    Lag             \* how long after the INIT of r that of s may come

IntervalTicks == Interval * TicksPerSecond

\* The longest time from one update to the next.
Period == IntervalTicks + Slack

\* An interval of 0 switches the timers off; from 2148 s on line 130 overflows.
\* An update arrives, or is lost, before the next one is sent.
ASSUME TimesAssumption ==
    /\ TicksPerSecond \in Nat \ {0}
    /\ Interval \in 1 .. 2147
    /\ Slack \in Nat
    /\ MaxWait \in Nat \ {0}
    /\ Delay \in Nat /\ Delay < IntervalTicks
    /\ MaxLosses \in Nat
    /\ Lag \in Nat

VARIABLES
    phase,     \* phase of s: before its INIT, running, gone
    counter,   \* update_counter of s, in ticks
    late,      \* by how much the ticks of this interval of s were late
    wait,      \* time since the last tick of s, while it matters
    latest,    \* the last update of s: under way to r, or received or lost
    missed,    \* updates lost in a row
    status,    \* what r thinks of s
    fraction,  \* last_update of s at r: its tv_usec, in ticks
    elapsed,   \* time since that last_update, as long as r times s
    rest       \* time since the last tick of r

sender   == <<phase, counter, late, wait>>
receiver == <<status, fraction, elapsed, rest>>
vars     == <<sender, latest, missed, receiver>>

SinceSent == counter + late + wait

\* r has just been initialised. s is still to be, or was some time before; its
\* updates so far found no socket.
Init ==
    /\ \/ phase = "new" /\ counter = 0 /\ late = 0
       \/ phase = "running" /\ counter \in 0 .. IntervalTicks - 1 /\ late \in 0 .. Slack
    /\ wait = 0
    /\ latest = "over"
    /\ missed = 0
    /\ status = "INITIALIZED"
    /\ fraction \in 0 .. TicksPerSecond - 1
    /\ elapsed = 0
    /\ rest = 0

-------------------------------------------------------------------------------

\* A tick's time passes, unless something cannot wait that long.
Pass ==
    /\ phase = "new" => elapsed < Lag
    /\ phase = "running" => late + wait <= Slack
    /\ latest = "flying" => SinceSent < Delay
    /\ rest < MaxWait
    /\ wait' = IF phase = "running" \/ latest = "flying" THEN wait + 1 ELSE wait
    /\ elapsed' = IF status = "INACTIVE" THEN elapsed ELSE elapsed + 1
    /\ rest' = rest + 1
    /\ UNCHANGED <<phase, counter, late, latest, missed, status, fraction>>

\* INIT at s, with the first updates.
InitResponse ==
    /\ phase = "new"
    /\ phase' = "running"
    /\ latest' = "flying"
    /\ UNCHANGED <<counter, late, wait, missed, receiver>>

\* Mutant of SendTick: update_counter is not set back.
SendTickOnly ==
    /\ phase = "running" /\ wait > 0
    /\ counter' = counter + 1
    /\ IF counter' = IntervalTicks
       THEN late' = 0 /\ latest' = "flying"
       ELSE late' = late + wait - 1 /\ UNCHANGED latest
    /\ wait' = 0
    /\ UNCHANGED <<phase, missed, receiver>>

\* timeout_handler at s: a tick, however long it took, counts as one.
SendTick ==
    /\ phase = "running" /\ wait > 0
    /\ IF counter + 1 = IntervalTicks
       THEN counter' = 0 /\ late' = 0 /\ latest' = "flying"
       ELSE counter' = counter + 1 /\ late' = late + wait - 1 /\ UNCHANGED latest
    /\ wait' = 0
    /\ UNCHANGED <<phase, missed, receiver>>

\* CRASH at s.
CrashNow ==
    /\ phase = "running"
    /\ phase' = "gone"
    /\ UNCHANGED <<counter, late, wait, latest, missed, receiver>>

\* process_update at r.
ReceiveUpdate ==
    /\ latest = "flying"
    /\ latest' = "over"
    /\ missed' = 0
    /\ IF status = "INACTIVE"
       THEN UNCHANGED <<status, fraction, elapsed>>
       ELSE /\ status' = "ACTIVE"
            /\ fraction' = (fraction + elapsed) % TicksPerSecond
            /\ elapsed' = 0
    /\ UNCHANGED <<sender, rest>>

Lose ==
    /\ latest = "flying" /\ missed < MaxLosses
    /\ latest' = "over"
    /\ missed' = missed + 1
    /\ UNCHANGED <<sender, receiver>>

\* Mutants of Expired: seconds rounded up, and a comparison that is strict.
ExpiredRoundedUp ==
    (fraction + elapsed + TicksPerSecond - 1) \div TicksPerSecond >= 3 * Interval

ExpiredLater == (fraction + elapsed) \div TicksPerSecond > 3 * Interval

\* The comparison of mark_inactive looks at whole seconds of the clock.
Expired == (fraction + elapsed) \div TicksPerSecond >= 3 * Interval

\* timeout_handler at r, as far as it concerns s.
WatchTick ==
    /\ rest > 0
    /\ rest' = 0
    /\ status' = IF Expired THEN "INACTIVE" ELSE status
    /\ UNCHANGED <<sender, latest, missed, fraction, elapsed>>

-------------------------------------------------------------------------------

Next ==
    \/ Pass
    \/ InitResponse
    \/ SendTick
    \/ CrashNow
    \/ ReceiveUpdate
    \/ Lose
    \/ WatchTick

Spec == Init /\ [][Next]_vars

-------------------------------------------------------------------------------

TypeOK ==
    /\ phase \in {"new", "running", "gone"}
    /\ counter \in 0 .. IntervalTicks - 1
    /\ late \in 0 .. Slack
    /\ wait \in Nat
    /\ latest \in {"flying", "over"}
    /\ missed \in 0 .. MaxLosses
    /\ status \in {"INITIALIZED", "ACTIVE", "INACTIVE"}
    /\ fraction \in 0 .. TicksPerSecond - 1
    /\ elapsed \in Nat
    /\ rest \in 0 .. MaxWait

\* The delays leave room: the longest silence of a live neighbour is a second
\* shorter than three intervals.
Punctual ==
    /\ Lag + MaxLosses * Period + Delay <= 3 * IntervalTicks - TicksPerSecond
    /\ Period + MaxLosses * Period + Delay <= 3 * IntervalTicks - TicksPerSecond

\* When they do, a neighbour that runs, or is still to be initialised, is never
\* given up: not for ticks lost to I/O, updates lost or late, seconds rounded
\* down, or an INIT that comes after this router's.
KeptInTime == Punctual /\ status = "INACTIVE" => phase = "gone"

\* Silence is noticed: three intervals after the last update, and one wait for
\* the next tick, no neighbour is timed any more.
GivenUpInTime ==
    status # "INACTIVE" => fraction + elapsed < 3 * IntervalTicks + MaxWait

===============================================================================
