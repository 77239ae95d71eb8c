----------------------------- MODULE TimersProofs -----------------------------
(***************************************************************************)
(* Theorems about Timers: for every tick rate, interval, delay, number of  *)
(* losses and lateness of the ticks.                                       *)
(***************************************************************************)
EXTENDS Timers, TLAPS

LEMMA IntervalFacts ==
    /\ IntervalTicks \in Nat
    /\ IntervalTicks >= TicksPerSecond
    /\ Period \in Nat
    /\ Period = IntervalTicks + Slack
    /\ TicksPerSecond \in Nat \ {0}
<1>1. Interval \in Nat /\ Interval >= 1 /\ TicksPerSecond \in Nat \ {0} /\ Slack \in Nat
    BY TimesAssumption
<1>2. Interval * TicksPerSecond >= TicksPerSecond /\ Interval * TicksPerSecond \in Nat
    BY <1>1
<1> QED BY <1>1, <1>2 DEF IntervalTicks, Period

\* An expired timer has run for three intervals, less what its seconds lack.
LEMMA ExpiredAfter ==
    ASSUME TypeOK
    PROVE  Expired <=> fraction + elapsed >= 3 * IntervalTicks
<1> DEFINE x == fraction + elapsed
           k == 3 * Interval
<1>1. x \in Nat /\ k \in Nat /\ TicksPerSecond \in Nat \ {0}
    BY TimesAssumption DEF TypeOK
<1>2. 3 * IntervalTicks = k * TicksPerSecond
    BY TimesAssumption DEF IntervalTicks
<1> HIDE DEF x, k
<1>3. x \div TicksPerSecond >= k <=> x >= k * TicksPerSecond
    BY <1>1, Z3
<1> QED BY <1>2, <1>3 DEF Expired, x, k

-------------------------------------------------------------------------------
(***************************************************************************)
(* Type correctness.                                                       *)
(***************************************************************************)

LEMMA TypeInit == Init => TypeOK
BY IntervalFacts, TimesAssumption DEF Init, TypeOK

\* Lateness within an interval never exceeds its bound: late + wait is at most
\* one tick beyond it, and the tick that ends the wait is not late.
SlackKept == phase = "running" => late + wait <= Slack + 1

\* The last update is under way for Delay at most.
DelayKept == latest = "flying" => SinceSent <= Delay

\* Before INIT the sender's timer stands still.
NewIsZero == phase = "new" => counter = 0 /\ late = 0 /\ wait = 0 /\ latest = "over"

Sane == TypeOK /\ SlackKept /\ DelayKept /\ NewIsZero

LEMMA SaneInit == Init => Sane
BY TypeInit, TimesAssumption DEF Init, Sane, SlackKept, DelayKept, NewIsZero

LEMMA SaneStep == Sane /\ [Next]_vars => Sane'
<1> SUFFICES ASSUME Sane, [Next]_vars PROVE Sane'
    OBVIOUS
<1> USE IntervalFacts, TimesAssumption DEF Sane, TypeOK, SlackKept, DelayKept, NewIsZero, SinceSent
<1>1. CASE Pass
    BY <1>1 DEF Pass
<1>2. CASE InitResponse
    BY <1>2 DEF InitResponse, receiver
<1>3. CASE SendTick
    BY <1>3 DEF SendTick, receiver
<1>4. CASE CrashNow
    BY <1>4 DEF CrashNow, receiver
<1>5. CASE ReceiveUpdate
    <2>1. (fraction + elapsed) % TicksPerSecond \in 0 .. TicksPerSecond - 1
        OBVIOUS
    <2> QED BY <1>5, <2>1 DEF ReceiveUpdate, sender
<1>6. CASE Lose
    BY <1>6 DEF Lose, sender, receiver
<1>7. CASE WatchTick
    BY <1>7 DEF WatchTick, sender
<1>8. CASE UNCHANGED vars
    BY <1>8 DEF vars, sender, receiver
<1> QED BY <1>1, <1>2, <1>3, <1>4, <1>5, <1>6, <1>7, <1>8 DEF Next

\* Every counter stays in its range: update_counter starts over at the end of
\* each interval, however late its ticks come.
THEOREM TypeCorrect == Spec => []TypeOK
<1>1. Sane => TypeOK
    BY DEF Sane
<1> QED BY <1>1, SaneInit, SaneStep, PTL DEF Spec

-------------------------------------------------------------------------------
(***************************************************************************)
(* Silence is noticed.                                                     *)
(***************************************************************************)

\* At its last tick r found the timer running.
TimedSoFar == status # "INACTIVE" => fraction + elapsed < 3 * IntervalTicks + rest

LEMMA TimedSoFarStep == Sane /\ TimedSoFar /\ [Next]_vars => TimedSoFar'
<1> SUFFICES ASSUME Sane, TimedSoFar, [Next]_vars PROVE TimedSoFar'
    OBVIOUS
<1> USE IntervalFacts DEF TimedSoFar, Sane, TypeOK
<1>1. CASE Pass
    BY <1>1 DEF Pass
<1>2. CASE InitResponse \/ SendTick \/ CrashNow \/ Lose \/ UNCHANGED vars
    BY <1>2 DEF InitResponse, SendTick, CrashNow, Lose, vars, receiver
<1>3. CASE ReceiveUpdate
    <2>1. (fraction + elapsed) % TicksPerSecond < TicksPerSecond
        OBVIOUS
    <2> QED BY <1>3, <2>1 DEF ReceiveUpdate, sender
<1>4. CASE WatchTick
    <2>1. Expired <=> fraction + elapsed >= 3 * IntervalTicks
        BY ExpiredAfter
    <2> QED BY <1>4, <2>1 DEF WatchTick, sender
<1> QED BY <1>1, <1>2, <1>3, <1>4 DEF Next

\* A neighbour that falls silent is given up three intervals and one wait for a
\* tick after its last update, at the latest.
THEOREM SilenceNoticed == Spec => []GivenUpInTime
<1>1. Init => TimedSoFar
    BY IntervalFacts DEF Init, TimedSoFar
<1>2. Sane /\ TimedSoFar => GivenUpInTime
    BY IntervalFacts, TimesAssumption DEF TimedSoFar, GivenUpInTime, Sane, TypeOK
<1> QED BY <1>1, <1>2, SaneInit, SaneStep, TimedSoFarStep, PTL DEF Spec

-------------------------------------------------------------------------------
(***************************************************************************)
(* Live neighbours are kept.                                               *)
(***************************************************************************)

\* The time k updates take.
Periods(k) == k * Period

LEMMA PeriodsFacts ==
    /\ Periods(0) = 0
    /\ \A k \in Nat : Periods(k) \in Nat /\ Periods(k + 1) = Periods(k) + Period
    /\ \A j, k \in Nat : j <= k => Periods(j) <= Periods(k)
<1>1. Period \in Nat
    BY IntervalFacts
<1>2. ASSUME NEW j \in Nat, NEW k \in Nat, j <= k PROVE Periods(j) <= Periods(k)
    <2>1. PICK i \in Nat : k = j + i
        <3>1. k - j \in Nat /\ k = j + (k - j)
            BY <1>2
        <3> QED BY <3>1
    <2>2. (j + i) * Period = j * Period + i * Period /\ i * Period \in Nat
        BY <1>1
    <2> QED BY <1>1, <2>1, <2>2 DEF Periods
<1> QED BY <1>1, <1>2 DEF Periods

\* The longest r waits for an update of which none before was lost: from its own
\* INIT, or from the update before.
Longest == IF Lag > Period THEN Lag ELSE Period

LEMMA LongestFacts ==
    /\ Longest \in Nat
    /\ Longest >= Lag
    /\ Longest >= Period
    /\ Punctual => Longest + Periods(MaxLosses) + Delay <= 3 * IntervalTicks - TicksPerSecond
BY IntervalFacts, TimesAssumption DEF Longest, Punctual, Periods

\* How long the neighbour has been silent, by the updates r missed since.
SilenceBounded ==
    /\ phase = "new" => elapsed <= Lag /\ missed = 0
    /\ phase = "running" /\ latest = "over" /\ missed = 0 => elapsed <= SinceSent
    /\ phase = "running" /\ latest = "over" /\ missed > 0 =>
          elapsed <= Longest + Periods(missed - 1) + SinceSent
    /\ phase = "running" /\ latest = "flying" =>
          elapsed <= Longest + Periods(missed) + SinceSent

Kept == phase # "gone" => status # "INACTIVE"

LEMMA SinceSentFacts ==
    ASSUME Sane
    PROVE  /\ SinceSent \in Nat
           /\ phase = "running" => SinceSent <= Period
           /\ latest = "flying" => SinceSent <= Delay
BY IntervalFacts, TimesAssumption DEF Sane, TypeOK, SlackKept, DelayKept, SinceSent

\* A live neighbour's silence leaves the timer running.
LEMMA SilenceShort ==
    ASSUME Sane, SilenceBounded, Punctual, phase # "gone"
    PROVE  ~Expired
<1>1. /\ missed \in Nat /\ missed <= MaxLosses
      /\ elapsed \in Nat /\ fraction \in Nat /\ fraction < TicksPerSecond
      /\ phase \in {"new", "running"} /\ latest \in {"flying", "over"}
    BY TimesAssumption DEF Sane, TypeOK
<1>2. /\ MaxLosses \in Nat /\ Delay \in Nat
      /\ Period \in Nat /\ IntervalTicks \in Nat /\ TicksPerSecond \in Nat
    BY TimesAssumption, IntervalFacts
<1>3. /\ Longest \in Nat /\ Longest >= Lag /\ Longest >= Period
      /\ Longest + Periods(MaxLosses) + Delay <= 3 * IntervalTicks - TicksPerSecond
    BY LongestFacts
<1>4. /\ Periods(missed) \in Nat /\ Periods(MaxLosses) \in Nat
      /\ Periods(missed) <= Periods(MaxLosses)
    BY <1>1, <1>2, PeriodsFacts
<1>5. elapsed <= 3 * IntervalTicks - TicksPerSecond
    <2>1. CASE phase = "new"
        <3>1. elapsed <= Longest
            BY <1>1, <1>2, <1>3, <2>1, TimesAssumption DEF SilenceBounded
        <3> QED BY <1>1, <1>2, <1>3, <1>4, <3>1
    <2>2. CASE phase = "running" /\ latest = "over" /\ missed = 0
        <3>1. elapsed <= SinceSent
            BY <2>2 DEF SilenceBounded
        <3> QED BY <1>1, <1>2, <1>3, <1>4, <2>2, <3>1, SinceSentFacts
    <2>3. CASE phase = "running" /\ latest = "flying"
        <3>1. elapsed <= Longest + Periods(missed) + SinceSent
            BY <2>3 DEF SilenceBounded
        <3> QED BY <1>1, <1>2, <1>3, <1>4, <2>3, <3>1, SinceSentFacts
    <2>4. CASE phase = "running" /\ latest = "over" /\ missed > 0
        <3>1. elapsed <= Longest + Periods(missed - 1) + SinceSent
            BY <2>4 DEF SilenceBounded
        <3>2. missed - 1 \in Nat /\ (missed - 1) + 1 = missed
            BY <1>1, <2>4
        <3>3. Periods(missed) = Periods(missed - 1) + Period /\ Periods(missed - 1) \in Nat
            BY <3>2, PeriodsFacts
        <3> QED BY <1>1, <1>2, <1>3, <1>4, <2>4, <3>1, <3>3, SinceSentFacts
    <2> QED BY <1>1, <2>1, <2>2, <2>3, <2>4
<1>6. ~(fraction + elapsed >= 3 * IntervalTicks)
    BY <1>1, <1>2, <1>5
<1> QED BY <1>6, ExpiredAfter DEF Sane

LEMMA SilenceBoundedStep ==
    ASSUME Sane, SilenceBounded, Kept, Punctual, [Next]_vars
    PROVE  SilenceBounded' /\ Kept'
<1>1. /\ missed \in Nat /\ elapsed \in Nat /\ counter \in Nat /\ late \in Nat /\ wait \in Nat
      /\ counter <= IntervalTicks - 1 /\ IntervalTicks \in Nat /\ Lag \in Nat
      /\ SinceSent \in Nat
    BY IntervalFacts, TimesAssumption, SinceSentFacts DEF Sane, TypeOK
<1>2. /\ Periods(0) = 0 /\ Periods(missed) \in Nat
      /\ Longest \in Nat /\ Longest >= Lag /\ Longest >= Period /\ Period \in Nat
    BY <1>1, PeriodsFacts, LongestFacts, IntervalFacts
<1>3. missed > 0 =>
         Periods(missed) = Periods(missed - 1) + Period /\ Periods(missed - 1) \in Nat
    <2> SUFFICES ASSUME missed > 0
                 PROVE  Periods(missed) = Periods(missed - 1) + Period /\ Periods(missed - 1) \in Nat
        OBVIOUS
    <2>1. missed - 1 \in Nat /\ (missed - 1) + 1 = missed
        BY <1>1
    <2> QED BY <2>1, PeriodsFacts
<1>4. CASE Pass
    <2>1. /\ missed' = missed /\ phase' = phase /\ latest' = latest /\ status' = status
          /\ elapsed' \in {elapsed, elapsed + 1}
          /\ phase = "new" => elapsed' <= Lag
          /\ phase = "running" => SinceSent' = SinceSent + 1
        BY <1>1, <1>4 DEF Pass, SinceSent
    <2> QED BY <1>1, <1>2, <1>3, <2>1 DEF SilenceBounded, Kept
<1>5. CASE InitResponse
    <2>1. /\ latest' = "flying" /\ phase' = "running" /\ phase = "new"
          /\ missed' = missed /\ elapsed' = elapsed /\ status' = status
          /\ SinceSent' = SinceSent
        BY <1>5 DEF InitResponse, receiver, SinceSent
    <2>2. elapsed <= Lag /\ missed = 0
        BY <2>1 DEF SilenceBounded
    <2>3. elapsed' <= Longest + Periods(missed') + SinceSent'
        BY <1>1, <1>2, <2>1, <2>2
    <2> QED BY <2>1, <2>3 DEF SilenceBounded, Kept
<1>6. CASE SendTick
    <2>1. /\ phase = "running" /\ phase' = phase /\ missed' = missed
          /\ elapsed' = elapsed /\ status' = status
        BY <1>6 DEF SendTick, receiver
    <2>2. CASE counter + 1 # IntervalTicks
        <3>1. SinceSent' = SinceSent /\ latest' = latest
            BY <1>1, <1>6, <2>2 DEF SendTick, SinceSent
        <3> QED BY <2>1, <3>1 DEF SilenceBounded, Kept
    <2>3. CASE counter + 1 = IntervalTicks
        <3>1. SinceSent' = 0 /\ latest' = "flying" /\ SinceSent >= IntervalTicks
            BY <1>1, <1>6, <2>3 DEF SendTick, SinceSent
        <3>2. latest = "over" /\ SinceSent <= Period
            <4>1. latest = "flying" => SinceSent <= Delay
                BY SinceSentFacts
            <4> QED BY <1>1, <2>1, <3>1, <4>1, TimesAssumption, SinceSentFacts DEF Sane, TypeOK
        <3>3. elapsed <= Longest + Periods(missed)
            <4>1. CASE missed = 0
                BY <1>1, <1>2, <2>1, <3>2, <4>1 DEF SilenceBounded
            <4>2. CASE missed > 0
                BY <1>1, <1>2, <1>3, <2>1, <3>2, <4>2 DEF SilenceBounded
            <4> QED BY <1>1, <4>1, <4>2
        <3>4. elapsed' <= Longest + Periods(missed') + SinceSent'
            BY <1>1, <1>2, <2>1, <3>1, <3>3
        <3> QED BY <2>1, <3>1, <3>4 DEF SilenceBounded, Kept
    <2> QED BY <2>2, <2>3
<1>7. CASE CrashNow
    BY <1>7 DEF CrashNow, SilenceBounded, Kept
<1>8. CASE ReceiveUpdate
    <2>1. /\ latest' = "over" /\ missed' = 0 /\ phase' = phase /\ SinceSent' = SinceSent
          /\ status # "INACTIVE" => elapsed' = 0 /\ status' # "INACTIVE"
        BY <1>8 DEF ReceiveUpdate, SinceSent, sender
    <2>2. phase # "gone" => elapsed' = 0 /\ status' # "INACTIVE"
        BY <2>1 DEF Kept
    <2> QED BY <1>1, <2>1, <2>2 DEF SilenceBounded, Kept
<1>9. CASE Lose
    <2>1. /\ latest = "flying" /\ latest' = "over" /\ missed' = missed + 1 /\ phase' = phase
          /\ SinceSent' = SinceSent /\ elapsed' = elapsed /\ status' = status
          /\ phase # "new"
        BY <1>9 DEF Lose, SinceSent, sender, receiver, Sane, NewIsZero
    <2>2. missed' > 0 /\ missed' - 1 = missed
        BY <1>1, <2>1
    <2> QED BY <2>1, <2>2 DEF SilenceBounded, Kept
<1>10. CASE WatchTick
    <2>1. /\ phase' = phase /\ latest' = latest /\ missed' = missed /\ elapsed' = elapsed
          /\ SinceSent' = SinceSent
          /\ ~Expired => status' = status
        BY <1>10 DEF WatchTick, SinceSent, sender
    <2>2. phase # "gone" => ~Expired
        BY SilenceShort
    <2> QED BY <2>1, <2>2 DEF SilenceBounded, Kept
<1>11. CASE UNCHANGED vars
    BY <1>11 DEF vars, sender, receiver, SilenceBounded, Kept, SinceSent
<1> QED BY <1>4, <1>5, <1>6, <1>7, <1>8, <1>9, <1>10, <1>11 DEF Next

\* A neighbour that runs is never given up, as long as the delays leave a second
\* of the three intervals.
THEOREM LiveNeighboursKept == Spec => []KeptInTime
<1>1. Init => SilenceBounded /\ Kept
    <2> SUFFICES ASSUME Init PROVE SilenceBounded /\ Kept
        OBVIOUS
    <2>1. SinceSent \in Nat
        BY SaneInit, SinceSentFacts
    <2> QED BY <2>1, TimesAssumption DEF Init, SilenceBounded, Kept
<1>2. Sane /\ SilenceBounded /\ Kept /\ Punctual /\ [Next]_vars => SilenceBounded' /\ Kept'
    BY SilenceBoundedStep
<1>3. Kept => KeptInTime
    BY DEF Kept, KeptInTime
<1>4. ~Punctual => KeptInTime
    BY DEF KeptInTime
<1>5. Punctual => Punctual'
    BY DEF Punctual, Period, IntervalTicks
<1>6. ~Punctual => ~Punctual'
    BY DEF Punctual, Period, IntervalTicks
<1> QED BY <1>1, <1>2, <1>3, <1>4, <1>5, <1>6, SaneInit, SaneStep, PTL DEF Spec

===============================================================================
