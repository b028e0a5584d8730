---------------------------- MODULE DeviceProofs ----------------------------
(***************************************************************************)
(* The devices around the interrupt controller, for any number of lines,   *)
(* targets and ticks: the SP805 watchdog, the CLINT timer and the UARTs    *)
(* behind the PLIC.  What they share comes first: a signal a device emits  *)
(* changes its line when it arrives, and the last one under way decides.   *)
(***************************************************************************)
EXTENDS Sp805Watchdog, ClintTimer, UartInterrupts, SplitQueue, SequenceTheorems,
        FiniteSetTheorems, TLAPS

-----------------------------------------------------------------------------
(* The controller and the signals                                          *)

Signals == {"Assert", "Deassert"}

Sources == InterruptLines \union {NoInterrupt}

Controllers ==
    [priority : [InterruptLines -> Nat], pending : [InterruptLines -> Sources],
     claimed : [InterruptTargets -> Sources]]

\* a line is pending for its own device
OwnSource(c, line) == c.pending[line] \in {NoInterrupt, line}

\* the state of a line once the signals under way have arrived
Settled(signalled, pending) ==
    \/ signalled = <<>> /\ pending
    \/ signalled # <<>> /\ signalled[Len(signalled)] = "Assert"

\* A new controller has no line pending.
LEMMA NewControllerFacts ==
    /\ NewController \in Controllers
    /\ \A l \in InterruptLines : OwnSource(NewController, l) /\ ~Pending(NewController, l)
BY DEF NewController, Controllers, OwnSource, Pending, Sources, DefaultPriority

\* Whatever the line was before, the signal that arrives decides what it is, and it touches no
\* other line, no priority and no claim (apply_delivery).
LEMMA DeliveryDecides ==
    ASSUME NEW c \in Controllers, NEW line \in InterruptLines, OwnSource(c, line),
           NEW kind \in Signals
    PROVE  LET d == ApplyDelivery(c, line, line, kind)
           IN  /\ d \in Controllers
               /\ OwnSource(d, line)
               /\ Pending(d, line) <=> kind = "Assert"
               /\ \A other \in InterruptLines \ {line} : d.pending[other] = c.pending[other]
               /\ d.priority = c.priority /\ d.claimed = c.claimed
<1>1. NoInterrupt # line
  BY RouteAssumption
<1>2. CASE kind = "Assert"
  BY <1>1, <1>2 DEF Controllers, OwnSource, ApplyDelivery, AssertLine, Pending, Sources
<1>3. CASE kind = "Deassert"
  BY <1>1, <1>3 DEF Controllers, OwnSource, ApplyDelivery, DeassertLine, Pending, Sources
<1> QED BY <1>2, <1>3 DEF Signals

\* A signal that is emitted decides what the line will be.
LEMMA EmittedDecides ==
    ASSUME NEW signalled \in Seq(Signals), NEW kind \in Signals, NEW pending \in BOOLEAN
    PROVE  /\ Append(signalled, kind) \in Seq(Signals)
           /\ Append(signalled, kind) # <<>>
           /\ Settled(Append(signalled, kind), pending) <=> kind = "Assert"
BY DEF Settled

\* An arrival does not change what the line will be.
LEMMA ArrivalSettles ==
    ASSUME NEW signalled \in Seq(Signals), signalled # <<>>, NEW pending \in BOOLEAN
    PROVE  /\ Head(signalled) \in Signals
           /\ Tail(signalled) \in Seq(Signals)
           /\ Settled(Tail(signalled), Head(signalled) = "Assert") <=> Settled(signalled, pending)
<1>1. /\ Len(signalled) \in Nat /\ Len(signalled) # 0
      /\ Head(signalled) \in Signals
      /\ Tail(signalled) \in Seq(Signals)
  OBVIOUS
<1>2. CASE Len(signalled) = 1
  <2>1. Len(Tail(signalled)) = 0 /\ Head(signalled) = signalled[1]
    BY <1>2
  <2>2. Tail(signalled) = <<>>
    BY <1>1, <2>1, EmptySeq, Zenon
  <2> QED BY <1>1, <1>2, <2>1, <2>2 DEF Settled
<1>3. CASE Len(signalled) > 1
  <2>1. /\ Tail(signalled) # <<>>
        /\ Len(Tail(signalled)) = Len(signalled) - 1
        /\ Tail(signalled)[Len(signalled) - 1] = signalled[Len(signalled)]
    BY <1>3
  <2> QED BY <1>1, <2>1 DEF Settled
<1>4. Len(signalled) = 1 \/ Len(signalled) > 1
  <2>1. \A n \in Nat : n # 0 => n = 1 \/ n > 1
    OBVIOUS
  <2> QED BY <1>1, <2>1, Zenon
<1> QED BY <1>2, <1>3, <1>4, Zenon

-----------------------------------------------------------------------------
(* The SP805 watchdog                                                      *)

Watchdogs ==
    [interval : Nat, start : Nat, persisted : Int, enabled : BOOLEAN, reset : BOOLEAN,
     writable : BOOLEAN, raw : BOOLEAN, generation : Nat]

Timeout(w) == [tick |-> w.start + Interval(w), generation |-> w.generation]

(***************************************************************************)
(* A counting watchdog has its timeout in the scheduler, a full interval   *)
(* after its start; any other event of it is of an earlier generation.     *)
(* The counter was started no sooner than the interrupt was raised.        *)
(***************************************************************************)
WatchInv ==
    /\ watchTick \in 0..MaxWatchTick
    /\ watchdog \in Watchdogs
    /\ timeouts \subseteq [tick : Nat, generation : Nat]
    /\ IF watchdog.enabled
         THEN watchdog.start <= watchTick /\ Timeout(watchdog) \in timeouts
         ELSE watchdog.start = NotCounting
    /\ \A event \in timeouts :
          /\ event.tick >= watchTick
          /\ event.generation <= watchdog.generation
          /\ event.generation = watchdog.generation =>
                 watchdog.enabled /\ event = Timeout(watchdog)
    /\ raisedAt \in 0..watchTick
    /\ watchdog.raw => raisedAt <= watchdog.start
    /\ NoEarlyReset

\* the interrupt line of the watchdog
WatchLineInv ==
    /\ watchdog.raw \in BOOLEAN
    /\ watchEdges \in Seq(Signals)
    /\ watchLines \in Controllers
    /\ OwnSource(watchLines, WatchdogLine)
    /\ Settled(watchEdges, Pending(watchLines, WatchdogLine)) <=> watchdog.raw

\* A counter that is restarted has a later generation than any event and starts now.
LEMMA RestartFacts ==
    ASSUME watchTick \in 0..MaxWatchTick, NEW w \in Watchdogs
    PROVE  LET v == RestartCounter(w)
           IN  /\ v \in Watchdogs
               /\ v.start = watchTick /\ v.generation = w.generation + 1
               /\ v.interval = w.interval /\ v.enabled = w.enabled /\ v.raw = w.raw
               /\ Interval(v) = Interval(w)
               /\ Timeout(v) \in [tick : Nat, generation : Nat]
               /\ Timeout(v).tick > watchTick
               /\ Timeout(v).generation = w.generation + 1
<1> DEFINE v == RestartCounter(w)
<1>0. watchTick \in Nat
  BY WatchAssumption
<1>1. /\ v \in Watchdogs
      /\ v.start = watchTick /\ v.generation = w.generation + 1
      /\ v.interval = w.interval /\ v.enabled = w.enabled /\ v.raw = w.raw
  <2>1. w.interval \in Nat /\ w.interval \in Int /\ w.generation + 1 \in Nat
    BY DEF Watchdogs
  <2> QED BY <1>0, <2>1, Zenon DEF RestartCounter, Watchdogs
<1>2. Interval(v) = Interval(w)
  BY <1>1 DEF Interval
<1>3. Interval(w) \in Nat \ {0}
  <2>1. \A m, n \in Nat : m # 0 /\ n # 0 => m * n \in Nat \ {0}
    OBVIOUS
  <2>2. WatchClock \in Nat /\ WatchClock # 0 /\ w.interval \in Nat
    BY WatchAssumption DEF Watchdogs
  <2> QED BY <2>1, <2>2 DEF Interval
<1>4. /\ Timeout(v) = [tick |-> watchTick + Interval(w), generation |-> w.generation + 1]
  BY <1>1, <1>2 DEF Timeout
<1> HIDE DEF v
<1>5. w.generation \in Nat /\ watchTick \in Nat
  BY DEF Watchdogs
<1> QED BY <1>1, <1>2, <1>3, <1>4, <1>5 DEF v

\* The invariant holds of a watchdog that was just built.
LEMMA WatchInitially == WatchInit => WatchInv /\ WatchLineInv
<1> SUFFICES ASSUME WatchInit PROVE WatchInv /\ WatchLineInv
  OBVIOUS
<1>1. WatchInv
  BY WatchAssumption DEF WatchInit, WatchInv, Watchdogs, NoEarlyReset, NotCounting
<1>2. WatchLineInv
  BY NewControllerFacts, WatchAssumption DEF WatchInit, WatchLineInv, Settled
<1> QED BY <1>1, <1>2


\* A restart leaves the watchdog with one timeout that counts, a full interval from now: every
\* write that restarts the counter and a timeout that counts do (restart_counter,
\* schedule_timeout_generation); other events may be dropped.
LEMMA RestartKeeps ==
    ASSUME WatchInv, NEW w \in Watchdogs, w.enabled, w.generation = watchdog.generation,
           watchTick' = watchTick, watchdog' = RestartCounter(w),
           timeouts' \subseteq timeouts \union {Timeout(RestartCounter(w))},
           Timeout(RestartCounter(w)) \in timeouts',
           raisedAt' \in 0..watchTick, NoEarlyReset'
    PROVE  WatchInv'
<1> DEFINE v == RestartCounter(w)
<1>1. /\ watchTick \in 0..MaxWatchTick /\ watchTick \in Nat /\ watchdog.generation \in Nat
      /\ timeouts \subseteq [tick : Nat, generation : Nat]
      /\ \A event \in timeouts : event.tick >= watchTick
                                 /\ event.generation <= watchdog.generation
  BY WatchAssumption DEF WatchInv, Watchdogs
<1>2. /\ v \in Watchdogs
      /\ v.start = watchTick /\ v.generation = watchdog.generation + 1
      /\ v.enabled
      /\ Timeout(v) \in [tick : Nat, generation : Nat]
      /\ Timeout(v).tick > watchTick
      /\ Timeout(v).generation = watchdog.generation + 1
  BY <1>1, RestartFacts, Zenon
<1>3. watchdog' = v /\ Timeout(watchdog)' = Timeout(v)
  BY DEF Timeout, Interval
<1> HIDE DEF v
<1>4. timeouts' \subseteq [tick : Nat, generation : Nat]
  BY <1>1, <1>2, Zenon DEF v
<1>5. ASSUME NEW event \in timeouts'
      PROVE  /\ event.tick >= watchTick
             /\ event.generation <= v.generation
             /\ event.generation = v.generation => event = Timeout(v)
  <2>1. CASE event = Timeout(v)
    BY <1>1, <1>2, <2>1
  <2>2. CASE event \in timeouts
    BY <1>1, <1>2, <2>2
  <2> QED BY <2>1, <2>2 DEF v
<1>6. watchdog'.start <= watchTick' /\ raisedAt' <= watchdog'.start
  BY <1>1, <1>2, <1>3
<1>7. Timeout(watchdog)' \in timeouts'
  BY <1>3, Zenon DEF v
<1> QED BY <1>1, <1>2, <1>3, <1>4, <1>5, <1>6, <1>7, Zenon DEF WatchInv

\* A step that leaves the counter alone keeps the timeout of its generation.
LEMMA CounterKept ==
    ASSUME WatchInv, watchTick' = watchTick, timeouts' = timeouts, watchdog' \in Watchdogs,
           watchdog'.start = watchdog.start, watchdog'.generation = watchdog.generation,
           watchdog'.enabled <=> watchdog.enabled,
           watchdog.enabled => watchdog'.interval = watchdog.interval,
           watchdog'.raw => watchdog.raw,
           UNCHANGED <<raisedAt, resets>>
    PROVE  WatchInv'
<1>1. watchdog.enabled => Timeout(watchdog)' = Timeout(watchdog)
  BY DEF Timeout, Interval
<1> QED BY <1>1 DEF WatchInv, NoEarlyReset


\* Every step of the watchdog keeps the invariant of its counter.
LEMMA WatchStep == WatchInv /\ [WatchNext]_watchVars => WatchInv'
<1> SUFFICES ASSUME WatchInv, [WatchNext]_watchVars PROVE WatchInv'
  OBVIOUS
<1>0. /\ watchdog \in Watchdogs /\ watchTick \in Nat /\ raisedAt \in 0..watchTick
      /\ watchdog.interval \in Nat /\ watchdog.generation \in Nat
      /\ watchdog.enabled \in BOOLEAN /\ watchdog.raw \in BOOLEAN
      /\ WatchLoads \subseteq Nat
  BY WatchAssumption DEF WatchInv, Watchdogs
<1>1. ASSUME NEW open \in BOOLEAN, WriteLock(open) PROVE WatchInv'
  <2>1. /\ watchdog' \in Watchdogs
        /\ watchdog'.start = watchdog.start /\ watchdog'.generation = watchdog.generation
        /\ watchdog'.enabled = watchdog.enabled /\ watchdog'.interval = watchdog.interval
        /\ watchdog'.raw = watchdog.raw
    BY <1>0, <1>1, Zenon DEF WriteLock, Watchdogs
  <2> QED BY <1>1, <2>1, CounterKept DEF WriteLock
<1>2. ASSUME NEW value \in WatchLoads, WriteLoad(value) PROVE WatchInv'
  <2> DEFINE loaded == [watchdog EXCEPT !.interval = value, !.persisted = value]
  <2>0. value \in Nat /\ value \in Int
    BY <1>0
  <2>1. /\ loaded \in Watchdogs /\ loaded.generation = watchdog.generation
        /\ loaded.start = watchdog.start /\ loaded.enabled = watchdog.enabled
        /\ loaded.raw = watchdog.raw
    BY <1>0, <2>0, Zenon DEF Watchdogs
  <2>2. CASE watchdog.enabled
    <3>1. /\ watchdog' = RestartCounter(loaded)
          /\ timeouts' = timeouts \union {Timeout(RestartCounter(loaded))}
      BY <1>2, <2>2, Zenon DEF WriteLoad, Scheduled, Timeout
    <3>2. UNCHANGED <<watchTick, raisedAt, resets>>
      BY <1>2 DEF WriteLoad
    <3>3. NoEarlyReset'
      BY <3>2 DEF WatchInv, NoEarlyReset
    <3> HIDE DEF loaded
    <3> QED BY <1>0, <2>1, <2>2, <3>1, <3>2, <3>3, RestartKeeps, Zenon
  <2>3. CASE ~watchdog.enabled
    <3>1. watchdog' = loaded /\ UNCHANGED <<watchTick, timeouts, raisedAt, resets>>
      BY <1>2, <2>3, Zenon DEF WriteLoad
    <3> HIDE DEF loaded
    <3> QED BY <2>1, <2>3, <3>1, CounterKept
  <2> QED BY <2>2, <2>3
<1>3. ASSUME NEW enable \in BOOLEAN, NEW reset \in BOOLEAN, WriteControl(enable, reset)
      PROVE  WatchInv'
  <2> DEFINE set == [watchdog EXCEPT !.enabled = enable, !.reset = reset]
  <2>1. /\ set \in Watchdogs /\ set.generation = watchdog.generation
        /\ set.start = watchdog.start /\ set.enabled = enable
        /\ set.raw = watchdog.raw /\ set.interval = watchdog.interval
    BY <1>0, Zenon DEF Watchdogs
  <2>2. UNCHANGED <<watchTick, raisedAt, resets>>
    BY <1>3 DEF WriteControl
  <2>3. CASE enable /\ ~watchdog.enabled
    <3>1. /\ watchdog' = RestartCounter(set)
          /\ timeouts' = timeouts \union {Timeout(RestartCounter(set))}
      BY <1>3, <2>3, Zenon DEF WriteControl, Scheduled, Timeout
    <3>2. NoEarlyReset'
      BY <2>2 DEF WatchInv, NoEarlyReset
    <3> HIDE DEF set
    <3> QED BY <1>0, <2>1, <2>2, <2>3, <3>1, <3>2, RestartKeeps, Zenon
  <2>4. CASE ~enable /\ watchdog.enabled
    <3>1. watchdog' = StopCounter(set) /\ UNCHANGED timeouts
      BY <1>3, <2>4, Zenon DEF WriteControl
    <3> HIDE DEF set
    <3>2. CurrentValue(set) \in Int
      <4>1. /\ watchTick - set.start \in Int /\ WatchClock \in Nat /\ WatchClock > 0
            /\ set.interval \in Int /\ set.persisted \in Int
        BY <1>0, <2>1, WatchAssumption DEF Watchdogs
      <4>2. (watchTick - set.start) \div WatchClock \in Int
        BY <4>1
      <4> QED BY <4>1, <4>2 DEF CurrentValue
    <3>3. NotCounting \in Nat /\ set.generation + 1 \in Nat /\ raisedAt <= NotCounting
      BY <1>0, <2>1, WatchAssumption DEF NotCounting, WatchInv
    <3>4. /\ watchdog' \in Watchdogs
          /\ watchdog'.start = NotCounting /\ watchdog'.generation = set.generation + 1
          /\ watchdog'.enabled = enable /\ watchdog'.raw = watchdog.raw
      BY <2>1, <3>1, <3>2, <3>3, Zenon DEF StopCounter, Watchdogs
    <3>5. \A event \in timeouts : event.generation < watchdog'.generation
      BY <1>0, <2>1, <3>4 DEF WatchInv
    <3> QED BY <1>0, <2>1, <2>2, <2>4, <3>1, <3>3, <3>4, <3>5 DEF WatchInv, NoEarlyReset
  <2>5. CASE enable = watchdog.enabled
    <3>1. watchdog' = set /\ UNCHANGED timeouts
      BY <1>3, <2>5, Zenon DEF WriteControl
    <3> HIDE DEF set
    <3> QED BY <2>1, <2>2, <2>5, <3>1, CounterKept
  <2> QED BY <1>0, <2>3, <2>4, <2>5, Zenon
<1>4. CASE WriteIntClear
  <2> DEFINE cleared == [watchdog EXCEPT !.raw = FALSE]
  <2>1. /\ cleared \in Watchdogs /\ cleared.generation = watchdog.generation
        /\ cleared.start = watchdog.start /\ cleared.enabled = watchdog.enabled
        /\ cleared.raw = FALSE /\ cleared.interval = watchdog.interval
    BY <1>0, Zenon DEF Watchdogs
  <2>2. UNCHANGED <<watchTick, raisedAt, resets>>
    BY <1>4 DEF WriteIntClear
  <2>3. CASE watchdog.enabled
    <3>1. /\ watchdog' = RestartCounter(cleared)
          /\ timeouts' = timeouts \union {Timeout(RestartCounter(cleared))}
      BY <1>4, <2>3, Zenon DEF WriteIntClear, Scheduled, Timeout
    <3>2. NoEarlyReset'
      BY <2>2 DEF WatchInv, NoEarlyReset
    <3> HIDE DEF cleared
    <3> QED BY <1>0, <2>1, <2>2, <2>3, <3>1, <3>2, RestartKeeps, Zenon
  <2>4. CASE ~watchdog.enabled
    <3>1. watchdog' = cleared /\ UNCHANGED timeouts
      BY <1>4, <2>4, Zenon DEF WriteIntClear
    <3> HIDE DEF cleared
    <3> QED BY <2>1, <2>2, <2>4, <3>1, CounterKept
  <2> QED BY <2>3, <2>4
<1>5. ASSUME NEW event \in timeouts, FireTimeout(event) PROVE WatchInv'
  <2> DEFINE w == [watchdog EXCEPT !.raw = TRUE]
  <2>1. CASE TimeoutCurrent(event.generation)
    <3>1. /\ watchTick' = watchTick
          /\ watchdog' = RestartCounter(w)
          /\ timeouts' = (timeouts \union {Timeout(RestartCounter(w))}) \ {event}
          /\ raisedAt' = IF watchdog.raw THEN raisedAt ELSE watchTick
          /\ event.tick = watchTick
      BY <1>5, <2>1, Zenon DEF FireTimeout, Scheduled, Timeout
    <3>2. /\ w \in Watchdogs /\ w.generation = watchdog.generation
          /\ w.enabled = watchdog.enabled
      BY <1>0, Zenon DEF Watchdogs
    <3>3. watchdog.enabled /\ event.generation = watchdog.generation
      BY <2>1 DEF TimeoutCurrent
    <3>4. event.tick = watchdog.start + Interval(watchdog)
      BY <3>3 DEF WatchInv, Timeout
    <3>5. Interval(watchdog) \in Nat
      BY <1>0, WatchAssumption DEF Interval
    <3>6. watchdog.raw => watchTick >= raisedAt + Interval(watchdog)
      BY <1>0, <3>1, <3>4, <3>5 DEF WatchInv, Watchdogs
    <3>7. resets' \subseteq resets \union
              IF watchdog.raw THEN {[tick |-> watchTick, raised |-> raisedAt,
                                     interval |-> Interval(watchdog)]}
                              ELSE {}
      BY <1>5, <2>1, Zenon DEF FireTimeout
    <3>8. NoEarlyReset'
      BY <3>6, <3>7 DEF WatchInv, NoEarlyReset
    <3>9. Timeout(RestartCounter(w)).generation = watchdog.generation + 1
      BY <1>0, <3>2, RestartFacts, Zenon DEF WatchInv
    <3> HIDE DEF w
    <3>10. Timeout(RestartCounter(w)) # event
      BY <1>0, <3>3, <3>9
    <3>11. raisedAt' \in 0..watchTick
      BY <1>0, <3>1
    <3> QED BY <1>0, <3>1, <3>2, <3>3, <3>8, <3>10, <3>11, RestartKeeps, Zenon
  <2>2. CASE ~TimeoutCurrent(event.generation)
    <3>1. /\ timeouts' = timeouts \ {event}
          /\ UNCHANGED <<watchTick, watchdog, raisedAt, resets>>
      BY <1>5, <2>2, Zenon DEF FireTimeout
    <3>2. watchdog.enabled => Timeout(watchdog) # event
      BY <2>2 DEF TimeoutCurrent, Timeout
    <3> QED BY <3>1, <3>2 DEF WatchInv, NoEarlyReset, Timeout, Interval
  <2> QED BY <2>1, <2>2
<1>6. CASE WatchDeliver
  BY <1>6 DEF WatchDeliver, WatchInv, NoEarlyReset, Timeout, Interval
<1>7. CASE WatchAdvance
  <2>1. /\ \A event \in timeouts : event.tick > watchTick
        /\ watchTick' = watchTick + 1 /\ watchTick < MaxWatchTick
        /\ UNCHANGED <<watchdog, timeouts, raisedAt, resets>>
    BY <1>7 DEF WatchAdvance
  <2>2. watchTick' \in 0..MaxWatchTick /\ raisedAt' \in 0..watchTick'
    BY <1>0, <2>1, WatchAssumption
  <2>3. \A event \in timeouts : event.tick >= watchTick'
    BY <1>0, <2>1 DEF WatchInv
  <2>4. watchdog.enabled => watchdog.start <= watchTick'
    BY <1>0, <2>1 DEF WatchInv, Watchdogs
  <2> QED BY <2>1, <2>2, <2>3, <2>4, Zenon DEF WatchInv, NoEarlyReset, Timeout, Interval,
             NotCounting
<1>8. CASE UNCHANGED watchVars
  BY <1>8, Zenon DEF watchVars, WatchInv, NoEarlyReset, Timeout, Interval, NotCounting
<1> QED BY <1>1, <1>2, <1>3, <1>4, <1>5, <1>6, <1>7, <1>8 DEF WatchNext


\* The line of the watchdog ends where RAW_ISR is, whatever step is taken.
LEMMA WatchLineStep == WatchInv /\ WatchLineInv /\ [WatchNext]_watchVars => WatchLineInv'
<1> SUFFICES ASSUME WatchInv, WatchLineInv, [WatchNext]_watchVars PROVE WatchLineInv'
  OBVIOUS
<1> DEFINE shown == Pending(watchLines, WatchdogLine)
<1>0. /\ watchEdges \in Seq(Signals) /\ shown \in BOOLEAN /\ watchdog.raw \in BOOLEAN
      /\ Settled(watchEdges, shown) <=> watchdog.raw
  BY DEF WatchLineInv, Pending
<1>1. ASSUME watchdog'.raw = watchdog.raw, UNCHANGED <<watchEdges, watchLines>>
      PROVE  WatchLineInv'
  BY <1>1, Zenon DEF WatchLineInv, Pending, OwnSource, Settled
<1>2. ASSUME NEW open \in BOOLEAN, WriteLock(open) PROVE WatchLineInv'
  BY <1>1, <1>2 DEF WriteLock
<1>r. watchdog \in Watchdogs
  BY DEF WatchInv
<1>3. ASSUME NEW value \in WatchLoads, WriteLoad(value) PROVE WatchLineInv'
  <2>1. watchdog'.raw = watchdog.raw /\ UNCHANGED <<watchEdges, watchLines>>
    BY <1>r, <1>3, Zenon DEF WriteLoad, Watchdogs, RestartCounter
  <2> QED BY <1>1, <2>1
<1>4. ASSUME NEW enable \in BOOLEAN, NEW reset \in BOOLEAN, WriteControl(enable, reset)
      PROVE  WatchLineInv'
  <2>1. watchdog'.raw = watchdog.raw /\ UNCHANGED <<watchEdges, watchLines>>
    BY <1>r, <1>4, Zenon DEF WriteControl, Watchdogs, RestartCounter, StopCounter
  <2> QED BY <1>1, <2>1
<1>5. CASE WriteIntClear
  <2>1. watchdog'.raw = FALSE /\ UNCHANGED watchLines /\ watchEdges' = ClearEdges
    BY <1>r, <1>5, Zenon DEF WriteIntClear, Watchdogs, RestartCounter
  <2>2. CASE watchdog.raw
    <3>1. watchEdges' = Append(watchEdges, "Deassert")
      BY <2>1, <2>2 DEF ClearEdges
    <3>2. watchEdges' \in Seq(Signals) /\ ~Settled(watchEdges', shown)
      BY <1>0, <3>1, EmittedDecides DEF Signals
    <3> QED BY <2>1, <3>2, Zenon DEF WatchLineInv, Pending, OwnSource
  <2>3. CASE ~watchdog.raw
    BY <1>0, <1>1, <2>1, <2>3, Zenon DEF ClearEdges
  <2> QED BY <2>2, <2>3
<1>6. ASSUME NEW event \in timeouts, FireTimeout(event) PROVE WatchLineInv'
  <2>1. CASE TimeoutCurrent(event.generation)
    <3>1. /\ watchdog'.raw = TRUE /\ UNCHANGED watchLines
          /\ watchEdges' = IF watchdog.raw THEN watchEdges ELSE Append(watchEdges, "Assert")
      BY <1>r, <1>6, <2>1, Zenon DEF FireTimeout, Watchdogs, RestartCounter
    <3>2. CASE watchdog.raw
      BY <1>0, <1>1, <3>1, <3>2, Zenon
    <3>3. CASE ~watchdog.raw
      <4>1. watchEdges' \in Seq(Signals) /\ Settled(watchEdges', shown)
        BY <1>0, <3>1, <3>3, EmittedDecides DEF Signals
      <4> QED BY <3>1, <4>1, Zenon DEF WatchLineInv, Pending, OwnSource
    <3> QED BY <3>2, <3>3
  <2>2. CASE ~TimeoutCurrent(event.generation)
    BY <1>1, <1>6, <2>2 DEF FireTimeout
  <2> QED BY <2>1, <2>2
<1>7. CASE WatchDeliver
  <2> DEFINE kind == Head(watchEdges)
             arrived == ApplyDelivery(watchLines, WatchdogLine, WatchdogLine, kind)
  <2>1. /\ watchEdges # <<>> /\ watchLines' = arrived /\ watchEdges' = Tail(watchEdges)
        /\ UNCHANGED watchdog
    BY <1>7 DEF WatchDeliver
  <2>2. kind \in Signals /\ Tail(watchEdges) \in Seq(Signals)
        /\ (Settled(Tail(watchEdges), kind = "Assert") <=> Settled(watchEdges, shown))
    BY <1>0, <2>1, ArrivalSettles, Zenon
  <2>3. /\ arrived \in Controllers /\ OwnSource(arrived, WatchdogLine)
        /\ Pending(arrived, WatchdogLine) <=> kind = "Assert"
    BY <2>2, DeliveryDecides, WatchAssumption, Zenon DEF WatchLineInv
  <2>4. Settled(Tail(watchEdges), Pending(arrived, WatchdogLine)) <=> watchdog.raw
    BY <1>0, <2>2, <2>3, Zenon DEF Settled
  <2> HIDE DEF arrived
  <2> QED BY <1>0, <2>1, <2>2, <2>3, <2>4, Zenon DEF WatchLineInv, Pending, OwnSource
<1>8. CASE WatchAdvance
  BY <1>1, <1>8 DEF WatchAdvance
<1>9. CASE UNCHANGED watchVars
  BY <1>1, <1>9 DEF watchVars
<1> QED BY <1>2, <1>3, <1>4, <1>5, <1>6, <1>7, <1>8, <1>9 DEF WatchNext

\* VALUE, counted down from the start of the counter, is the distance to the timeout in cycles,
\* rounded up.
LEMMA ValueIsDistance ==
    ASSUME NEW elapsed \in Nat, NEW clock \in Nat \ {0}, NEW interval \in Nat \ {0},
           elapsed <= clock * interval
    PROVE  (IF elapsed \div clock >= interval THEN 0 ELSE interval - elapsed \div clock)
               = (clock * interval - elapsed + clock - 1) \div clock
  OBVIOUS


\* The invariant holds throughout.
LEMMA WatchInvariant == WatchSpec => [](WatchInv /\ WatchLineInv)
<1>1. WatchInv /\ WatchLineInv /\ [WatchNext]_watchVars => (WatchInv /\ WatchLineInv)'
  BY WatchStep, WatchLineStep
<1> QED BY <1>1, WatchInitially, PTL DEF WatchSpec

\* The registers of the watchdog tell the truth for every clock, interval and sequence of
\* writes: a counting watchdog has exactly one timeout that counts, VALUE is the cycles left to
\* it, and the line follows RAW_ISR (restart_counter, current_value, record_timeout).
THEOREM WatchdogTellsTruth == WatchSpec => []RegistersTellTruth
<1>1. WatchInv /\ WatchLineInv => RegistersTellTruth
  <2> SUFFICES ASSUME WatchInv, WatchLineInv PROVE RegistersTellTruth
    OBVIOUS
  <2> DEFINE current == {event \in timeouts : event.generation = watchdog.generation}
  <2>1. watchEdges = <<>> => (Pending(watchLines, WatchdogLine) <=> watchdog.raw)
    BY Zenon DEF WatchLineInv, Settled
  <2>2. CASE watchdog.enabled
    <3> DEFINE event == Timeout(watchdog)
    <3>1. event \in current /\ current = {event}
      BY <2>2 DEF WatchInv, Timeout
    <3>2. ASSUME watchdog.interval > 0
          PROVE  CurrentValue(watchdog)
                     = (event.tick - watchTick + WatchClock - 1) \div WatchClock
      <4> DEFINE elapsed == watchTick - watchdog.start
      <4>1. /\ watchdog.interval \in Nat \ {0} /\ WatchClock \in Nat \ {0}
            /\ watchdog.start \in Nat /\ watchTick \in Nat
            /\ elapsed \in Nat
        BY <2>2, <3>2, WatchAssumption DEF WatchInv, Watchdogs
      <4>2. watchdog.start # NotCounting
        BY <2>2, <4>1, WatchAssumption DEF WatchInv, NotCounting
      <4>3. event.tick = watchdog.start + WatchClock * watchdog.interval
        BY <4>1 DEF Timeout, Interval
      <4>4. event.tick >= watchTick
        BY <3>1 DEF WatchInv
      <4>5. WatchClock * watchdog.interval \in Nat
        BY <4>1
      <4>6. /\ elapsed <= WatchClock * watchdog.interval
            /\ event.tick - watchTick = WatchClock * watchdog.interval - elapsed
        BY <4>1, <4>3, <4>4, <4>5
      <4>7. CurrentValue(watchdog)
                = IF elapsed \div WatchClock >= watchdog.interval
                    THEN 0 ELSE watchdog.interval - elapsed \div WatchClock
        BY <4>2, Zenon DEF CurrentValue
      <4> HIDE DEF elapsed, event
      <4>8. CurrentValue(watchdog)
                = (WatchClock * watchdog.interval - elapsed + WatchClock - 1) \div WatchClock
        BY <4>1, <4>6, <4>7, ValueIsDistance, Zenon
      <4> QED BY <4>6, <4>8, Zenon
    <3> QED BY <2>1, <2>2, <3>1, <3>2, Zenon DEF RegistersTellTruth
  <2>3. CASE ~watchdog.enabled
    <3>1. current = {}
      BY <2>3 DEF WatchInv
    <3> QED BY <2>1, <2>3, <3>1, Zenon DEF RegistersTellTruth
  <2> QED BY <2>2, <2>3
<1> QED BY <1>1, WatchInvariant, PTL

\* The reset output is never asserted sooner than the interval in force after the interrupt was
\* raised, whatever the guest writes in between (record_timeout).
THEOREM WatchdogGivesTime == WatchSpec => []NoEarlyReset
<1>1. WatchInv => NoEarlyReset
  BY DEF WatchInv
<1> QED BY <1>1, WatchInvariant, PTL

-----------------------------------------------------------------------------
(* The CLINT                                                               *)

HartStates == [msip : {0, 1}, mtimecmp : Nat, generation : Nat, asserted : BOOLEAN]

HartDeadline(h) == [tick |-> h.mtimecmp, generation |-> h.generation]

(***************************************************************************)
(* A timer that is neither raised nor dropped has the event of its program *)
(* in the scheduler, or a deadline the RTC has still to reach; the events  *)
(* of earlier programs have earlier generations.                           *)
(***************************************************************************)
ClintInv ==
    /\ timebase \in {"SchedulerTicks", "RtcDriven"} /\ resetPolicy \in ResetValues
    /\ clintTick \in 0..MaxClintTick /\ rtc \in Nat /\ timerDropped \in BOOLEAN
    /\ hartState \in HartStates
    /\ deadlines \subseteq [tick : Nat, generation : Nat]
    /\ timebase = "RtcDriven" => deadlines = {}
    /\ \A event \in deadlines :
          /\ event.tick >= clintTick
          /\ event.generation <= hartState.generation
          /\ event.generation = hartState.generation => event = HartDeadline(hartState)
    /\ hartState.asserted => hartState.mtimecmp <= Mtime
    /\ ~hartState.asserted /\ ~timerDropped =>
          IF timebase = "SchedulerTicks"
            THEN hartState.mtimecmp <= MaxClintTick => HartDeadline(hartState) \in deadlines
            ELSE hartState.mtimecmp > rtc

\* the two lines of the hart
ClintLineInv ==
    /\ edges \in [{TimerLine, SoftwareLine} -> Seq(Signals)]
    /\ clintLines \in Controllers
    /\ OwnSource(clintLines, TimerLine) /\ OwnSource(clintLines, SoftwareLine)
    /\ Settled(edges[TimerLine], Pending(clintLines, TimerLine)) <=> hartState.asserted
    /\ Settled(edges[SoftwareLine], Pending(clintLines, SoftwareLine)) <=> hartState.msip = 1

\* The invariant holds of a hart that was just built.
LEMMA ClintInitially == ClintInit => ClintInv /\ ClintLineInv
<1> SUFFICES ASSUME ClintInit PROVE ClintInv /\ ClintLineInv
  OBVIOUS
<1>1. ClintInv
  <2>1. /\ NoDeadline \in Nat /\ ~(NoDeadline <= MaxClintTick) /\ NoDeadline > 0
        /\ 0 \in 0..MaxClintTick /\ 0 \in Nat
    BY ClintAssumption
  <2>2. /\ hartState \in HartStates /\ hartState.mtimecmp = NoDeadline
        /\ hartState.asserted = FALSE
    BY <2>1, Zenon DEF ClintInit, HartStates
  <2> QED BY <2>1, <2>2, Zenon DEF ClintInit, ClintInv
<1>2. ClintLineInv
  <2>1. \A l \in {TimerLine, SoftwareLine} :
            edges[l] = <<>> /\ OwnSource(clintLines, l) /\ ~Pending(clintLines, l)
    BY NewControllerFacts, ClintAssumption, Zenon DEF ClintInit
  <2>2. /\ edges \in [{TimerLine, SoftwareLine} -> Seq(Signals)] /\ clintLines \in Controllers
        /\ hartState.asserted = FALSE /\ hartState.msip = 0
    BY NewControllerFacts DEF ClintInit
  <2> QED BY <2>1, <2>2 DEF ClintLineInv, Settled
<1> QED BY <1>1, <1>2

\* Every step of the hart keeps the invariant of its timer.
LEMMA ClintStep == ClintInv /\ [ClintNext]_clintVars => ClintInv'
<1> SUFFICES ASSUME ClintInv, [ClintNext]_clintVars PROVE ClintInv'
  OBVIOUS
<1>0. /\ hartState \in HartStates /\ clintTick \in Nat /\ clintTick <= MaxClintTick
      /\ rtc \in Nat /\ MaxClintTick \in Nat
      /\ hartState.mtimecmp \in Nat /\ hartState.generation \in Nat
      /\ hartState.asserted \in BOOLEAN /\ timerDropped \in BOOLEAN
  BY ClintAssumption DEF ClintInv, HartStates
<1>1. ASSUME NEW value \in {0, 1}, WriteMsip(value) PROVE ClintInv'
  <2>1. /\ hartState' \in HartStates
        /\ hartState'.mtimecmp = hartState.mtimecmp
        /\ hartState'.generation = hartState.generation
        /\ hartState'.asserted = hartState.asserted
    BY <1>0, <1>1, Zenon DEF WriteMsip, HartStates
  <2>2. UNCHANGED <<clintConfig, clintTick, rtc, deadlines, timerDropped>>
    BY <1>1 DEF WriteMsip
  <2> QED BY <2>1, <2>2, Zenon DEF ClintInv, clintConfig, Mtime, HartDeadline
<1>2. ASSUME NEW deadline \in 0..MaxClintTick, WriteMtimecmp(deadline) PROVE ClintInv'
  <2> DEFINE generation == hartState.generation + 1
             passed == deadline <= Mtime
             new == [tick |-> deadline, generation |-> generation]
  <2>1. deadline \in Nat /\ generation \in Nat /\ passed \in BOOLEAN
        /\ deadline <= MaxClintTick /\ Mtime \in Nat
    BY <1>0 DEF Mtime
  <2>2. /\ hartState' \in HartStates
        /\ hartState'.mtimecmp = deadline /\ hartState'.generation = generation
        /\ hartState'.asserted = passed
    BY <1>0, <1>2, <2>1, Zenon DEF WriteMtimecmp, HartStates
  <2>3. /\ UNCHANGED <<clintConfig, clintTick, rtc>> /\ timerDropped' = FALSE
        /\ deadlines' = IF passed \/ timebase = "RtcDriven"
                          THEN deadlines ELSE deadlines \union {new}
    BY <1>2 DEF WriteMtimecmp
  <2>4. HartDeadline(hartState)' = new /\ Mtime' = Mtime
        /\ UNCHANGED <<timebase, resetPolicy>>
    BY <2>2, <2>3 DEF HartDeadline, Mtime, clintConfig
  <2>5. ~passed /\ timebase = "SchedulerTicks" => deadline > clintTick
    BY <1>0, <2>1 DEF Mtime
  <2>6. ~passed /\ timebase = "RtcDriven" => deadline > rtc
    BY <1>0, <2>1 DEF Mtime
  <2>7. new \in [tick : Nat, generation : Nat] /\ new.tick = deadline
        /\ new.generation = generation
    BY <2>1
  <2> HIDE DEF new
  <2>8. deadlines' \subseteq [tick : Nat, generation : Nat]
    BY <2>3, <2>7 DEF ClintInv
  <2>9. ASSUME NEW event \in deadlines'
        PROVE  /\ event.tick >= clintTick
               /\ event.generation <= generation
               /\ event.generation = generation => event = new
    <3>1. CASE event \in deadlines
      BY <1>0, <3>1 DEF ClintInv
    <3>2. CASE event = new /\ ~passed /\ timebase = "SchedulerTicks"
      BY <1>0, <2>1, <2>5, <2>7, <3>2
    <3>3. event \in deadlines \/ (event = new /\ ~passed /\ timebase # "RtcDriven")
      BY <2>3
    <3> QED BY <3>1, <3>2, <3>3 DEF ClintInv
  <2> HIDE DEF passed, generation
  <2>10. clintTick' \in 0..MaxClintTick /\ deadline \in Nat
    BY <2>1, <2>3 DEF ClintInv
  <2>11. timebase' = "RtcDriven" => deadlines' = {}
    BY <2>3, <2>4 DEF ClintInv
  <2>12. passed => deadline <= Mtime
    BY DEF passed
  <2>13. ~passed => IF timebase = "SchedulerTicks" THEN new \in deadlines' ELSE deadline > rtc
    BY <2>3, <2>6 DEF ClintInv
  <2> QED BY <2>2, <2>3, <2>4, <2>8, <2>9, <2>10, <2>11, <2>12, <2>13, Zenon DEF ClintInv
<1>3. ASSUME NEW event \in deadlines, DeadlineEvent(event) PROVE ClintInv'
  <2>1. /\ event.tick = clintTick /\ deadlines' = deadlines \ {event}
        /\ UNCHANGED <<timebase, resetPolicy, clintTick, rtc, timerDropped>>
    BY <1>3 DEF DeadlineEvent, clintConfig
  <2>2. timebase = "SchedulerTicks"
    BY <1>3 DEF ClintInv
  <2>3. CASE ProgramCurrent(event.generation)
    <3>1. hartState' = [hartState EXCEPT !.asserted = TRUE]
      BY <1>3, <2>3 DEF DeadlineEvent
    <3>2. /\ hartState' \in HartStates /\ hartState'.asserted = TRUE
          /\ hartState'.mtimecmp = hartState.mtimecmp
          /\ hartState'.generation = hartState.generation
      BY <1>0, <3>1, Zenon DEF HartStates
    <3>3. hartState.mtimecmp <= clintTick
      BY <1>0, <2>1, <2>3 DEF ProgramCurrent, ClintInv, HartDeadline
    <3> QED BY <2>1, <2>2, <3>2, <3>3, Zenon DEF ClintInv, HartDeadline, Mtime
  <2>4. CASE ~ProgramCurrent(event.generation)
    <3>1. hartState' = hartState
      BY <1>3, <2>4 DEF DeadlineEvent
    <3>2. ~hartState.asserted => HartDeadline(hartState) # event
      BY <2>4 DEF ProgramCurrent, HartDeadline
    <3> QED BY <2>1, <2>2, <3>1, <3>2, Zenon DEF ClintInv, HartDeadline, Mtime
  <2> QED BY <2>3, <2>4
<1>4. CASE RtcTick
  <2> DEFINE due == rtc + 1 >= hartState.mtimecmp /\ ~hartState.asserted
  <2>1. /\ timebase = "RtcDriven" /\ rtc' = rtc + 1 /\ timerDropped' = FALSE
        /\ UNCHANGED <<timebase, resetPolicy, clintTick, deadlines>>
        /\ hartState' = IF due THEN [hartState EXCEPT !.asserted = TRUE] ELSE hartState
    BY <1>4, Zenon DEF RtcTick, clintConfig
  <2>2. /\ hartState' \in HartStates
        /\ hartState'.mtimecmp = hartState.mtimecmp
        /\ hartState'.generation = hartState.generation
        /\ hartState'.asserted = (hartState.asserted \/ due)
    BY <1>0, <2>1, Zenon DEF HartStates
  <2>3. /\ hartState'.asserted => hartState.mtimecmp <= rtc'
        /\ ~hartState'.asserted => hartState.mtimecmp > rtc'
    BY <1>0, <2>1, <2>2 DEF ClintInv, Mtime
  <2>4. rtc' \in Nat /\ deadlines = {} /\ Mtime' = rtc' /\ timebase' # "SchedulerTicks"
    BY <1>0, <2>1 DEF ClintInv, Mtime
  <2> HIDE DEF due
  <2> QED BY <1>0, <2>1, <2>2, <2>3, <2>4, Zenon DEF ClintInv
<1>5. CASE ClintReset
  <2>1. /\ hartState' = ResetHart /\ timerDropped' = TRUE
        /\ rtc' = IF timebase = "RtcDriven" THEN 0 ELSE rtc
        /\ UNCHANGED <<timebase, resetPolicy, clintTick, deadlines>>
    BY <1>5, Zenon DEF ClintReset, clintConfig
  <2>2. /\ hartState' \in HartStates /\ hartState'.asserted = FALSE
        /\ hartState'.generation = hartState.generation + 1
    BY <1>0, <2>1, ClintAssumption DEF ClintInv, ResetHart, HartStates
  <2>3. rtc' \in Nat
    BY <1>0, <2>1
  <2>4. \A event \in deadlines : event.generation < hartState'.generation
    BY <1>0, <2>2 DEF ClintInv
  <2>5. \A event \in deadlines : /\ event.generation <= hartState'.generation
                                 /\ event.generation # hartState'.generation
    BY <1>0, <2>2, <2>4 DEF ClintInv
  <2> QED BY <2>1, <2>2, <2>3, <2>5, Zenon DEF ClintInv
<1>6. ASSUME NEW line \in {TimerLine, SoftwareLine}, ClintDeliver(line) PROVE ClintInv'
  <2>1. UNCHANGED <<timebase, resetPolicy, clintTick, rtc, hartState, deadlines, timerDropped>>
    BY <1>6 DEF ClintDeliver, clintConfig
  <2> QED BY <2>1, Zenon DEF ClintInv, HartDeadline, Mtime
<1>7. CASE ClintAdvance
  <2>1. /\ clintTick' = clintTick + 1 /\ clintTick < MaxClintTick
        /\ \A event \in deadlines : event.tick > clintTick
        /\ UNCHANGED <<timebase, resetPolicy, rtc, hartState, deadlines, timerDropped>>
    BY <1>7 DEF ClintAdvance, clintConfig
  <2>2. clintTick' \in 0..MaxClintTick
    BY <1>0, <2>1
  <2>3. \A event \in deadlines : event.tick >= clintTick'
    BY <1>0, <2>1 DEF ClintInv
  <2>4. hartState.asserted => hartState.mtimecmp <= Mtime'
    BY <1>0, <2>1 DEF ClintInv, Mtime
  <2> QED BY <2>1, <2>2, <2>3, <2>4, Zenon DEF ClintInv, HartDeadline
<1>8. CASE UNCHANGED clintVars
  <2>1. UNCHANGED <<timebase, resetPolicy, clintTick, rtc, hartState, deadlines, timerDropped>>
    BY <1>8 DEF clintVars
  <2> QED BY <2>1, Zenon DEF ClintInv, HartDeadline, Mtime
<1> QED BY <1>1, <1>2, <1>3, <1>4, <1>5, <1>6, <1>7, <1>8 DEF ClintNext


\* The lines end where the timer and the software bit are, whatever step is taken.
LEMMA ClintLineStep == ClintInv /\ ClintLineInv /\ [ClintNext]_clintVars => ClintLineInv'
<1> SUFFICES ASSUME ClintInv, ClintLineInv, [ClintNext]_clintVars PROVE ClintLineInv'
  OBVIOUS
<1> DEFINE Shown(l) == Pending(clintLines, l)
           Ends(l) == Settled(edges[l], Shown(l))
<1>0. /\ edges \in [{TimerLine, SoftwareLine} -> Seq(Signals)] /\ TimerLine # SoftwareLine
      /\ \A l : Shown(l) \in BOOLEAN
      /\ hartState \in HartStates /\ hartState.asserted \in BOOLEAN /\ hartState.msip \in {0, 1}
      /\ Ends(TimerLine) <=> hartState.asserted
      /\ Ends(SoftwareLine) <=> hartState.msip = 1
  BY ClintAssumption DEF ClintInv, ClintLineInv, Pending, HartStates
<1>1. ASSUME edges' \in [{TimerLine, SoftwareLine} -> Seq(Signals)], UNCHANGED clintLines,
             Settled(edges'[TimerLine], Shown(TimerLine)) <=> hartState'.asserted,
             Settled(edges'[SoftwareLine], Shown(SoftwareLine)) <=> hartState'.msip = 1
      PROVE  ClintLineInv'
  BY <1>1, Zenon DEF ClintLineInv, Pending, OwnSource
<1>2. ASSUME NEW l \in {TimerLine, SoftwareLine}, NEW kind \in Signals
      PROVE  /\ Signalled(l, kind) \in [{TimerLine, SoftwareLine} -> Seq(Signals)]
             /\ Settled(Signalled(l, kind)[l], Shown(l)) <=> kind = "Assert"
             /\ \A other \in {TimerLine, SoftwareLine} \ {l} :
                   Signalled(l, kind)[other] = edges[other]
  <2>1. edges[l] \in Seq(Signals)
    BY <1>0
  <2>2. /\ Append(edges[l], kind) \in Seq(Signals)
        /\ Settled(Append(edges[l], kind), Shown(l)) <=> kind = "Assert"
    BY <1>0, <2>1, EmittedDecides, Zenon
  <2> QED BY <1>0, <2>2, Zenon DEF Signalled
<1>3. ASSUME NEW value \in {0, 1}, WriteMsip(value) PROVE ClintLineInv'
  <2> DEFINE kind == IF value = 0 THEN "Deassert" ELSE "Assert"
  <2>1. edges' = Signalled(SoftwareLine, kind) /\ UNCHANGED clintLines
    BY <1>3 DEF WriteMsip
  <2>2. hartState'.msip = value /\ hartState'.asserted = hartState.asserted
    BY <1>0, <1>3, Zenon DEF WriteMsip, HartStates
  <2>3. kind \in Signals /\ (kind = "Assert" <=> value = 1)
    BY DEF Signals
  <2> HIDE DEF kind
  <2>4. /\ edges' \in [{TimerLine, SoftwareLine} -> Seq(Signals)]
        /\ Settled(edges'[SoftwareLine], Shown(SoftwareLine)) <=> kind = "Assert"
        /\ edges'[TimerLine] = edges[TimerLine]
    BY <1>0, <1>2, <2>1, <2>3, Zenon
  <2> QED BY <1>0, <1>1, <2>1, <2>2, <2>3, <2>4, Zenon
<1>4. ASSUME NEW deadline \in 0..MaxClintTick, WriteMtimecmp(deadline) PROVE ClintLineInv'
  <2> DEFINE passed == deadline <= Mtime
  <2>1. /\ edges' = IF passed THEN Signalled(TimerLine, "Assert") ELSE ReprogramEdges
        /\ UNCHANGED clintLines
    BY <1>4, Zenon DEF WriteMtimecmp
  <2>2. hartState'.msip = hartState.msip /\ hartState'.asserted = passed
    BY <1>0, <1>4, Zenon DEF WriteMtimecmp, HartStates
  <2> HIDE DEF passed
  <2>3. CASE passed
    BY <1>0, <1>1, <1>2, <2>1, <2>2, <2>3, Zenon DEF Signals
  <2>4. CASE ~passed /\ hartState.asserted
    <3>1. edges' = Signalled(TimerLine, "Deassert")
      BY <2>1, <2>4, Zenon DEF ReprogramEdges
    <3>2. "Deassert" \in Signals /\ "Deassert" # "Assert"
      BY DEF Signals
    <3> QED BY <1>0, <1>1, <1>2, <2>1, <2>2, <2>4, <3>1, <3>2, ZenonT(30)
  <2>5. CASE ~passed /\ ~hartState.asserted
    <3>1. edges' = edges
      BY <2>1, <2>5, Zenon DEF ReprogramEdges
    <3> QED BY <1>0, <1>1, <2>1, <2>2, <2>5, <3>1, Zenon
  <2> QED BY <2>3, <2>4, <2>5
<1>5. ASSUME UNCHANGED clintLines, hartState'.msip = hartState.msip,
             \/ edges' = Signalled(TimerLine, "Assert") /\ hartState'.asserted
             \/ edges' = edges /\ hartState'.asserted = hartState.asserted
      PROVE  ClintLineInv'
  <2>1. CASE edges' = Signalled(TimerLine, "Assert") /\ hartState'.asserted
    BY <1>0, <1>1, <1>2, <1>5, <2>1, Zenon DEF Signals
  <2>2. CASE edges' = edges /\ hartState'.asserted = hartState.asserted
    BY <1>0, <1>1, <1>5, <2>2, Zenon
  <2> QED BY <1>5, <2>1, <2>2
<1>6. ASSUME NEW event \in deadlines, DeadlineEvent(event) PROVE ClintLineInv'
  BY <1>0, <1>5, <1>6, Zenon DEF DeadlineEvent, HartStates
<1>7. CASE RtcTick
  BY <1>0, <1>5, <1>7, Zenon DEF RtcTick, HartStates
<1>8. CASE ClintReset
  <2>1. /\ edges' = ResetEdges /\ UNCHANGED clintLines
        /\ hartState'.msip = 0 /\ hartState'.asserted = FALSE
    BY <1>8, Zenon DEF ClintReset, ResetHart
  <2>2. ASSUME NEW l \in {TimerLine, SoftwareLine},
               NEW raised, raised = (\/ l = SoftwareLine /\ hartState.msip # 0
                                     \/ l = TimerLine /\ hartState.asserted)
        PROVE  edges'[l] \in Seq(Signals) /\ ~Settled(edges'[l], Shown(l))
    <3>1. edges[l] \in Seq(Signals) /\ l \in DOMAIN edges
      BY <1>0
    <3>2. Append(edges[l], "Deassert") \in Seq(Signals)
          /\ ~Settled(Append(edges[l], "Deassert"), Shown(l))
      BY <1>0, <3>1, EmittedDecides DEF Signals
    <3>3. edges'[l] = IF raised THEN Append(edges[l], "Deassert") ELSE edges[l]
      BY <2>1, <2>2, <3>1, Zenon DEF ResetEdges
    <3>4. ~raised => ~Ends(l)
      BY <1>0, <2>2
    <3> QED BY <3>1, <3>2, <3>3, <3>4, Zenon
  <2>3. edges' \in [{TimerLine, SoftwareLine} -> Seq(Signals)]
    <3>1. DOMAIN edges = {TimerLine, SoftwareLine}
      BY <1>0
    <3>2. edges' = [l \in {TimerLine, SoftwareLine} |-> edges'[l]]
      BY <2>1, <3>1, Zenon DEF ResetEdges
    <3>3. \A l \in {TimerLine, SoftwareLine} : edges'[l] \in Seq(Signals)
      BY <2>2, Zenon
    <3> QED BY <3>2, <3>3, Zenon
  <2>4. hartState'.msip # 1
    BY <2>1
  <2> QED BY <1>1, <2>1, <2>2, <2>3, <2>4, Zenon
<1>9. ASSUME NEW line \in {TimerLine, SoftwareLine}, ClintDeliver(line) PROVE ClintLineInv'
  <2> DEFINE kind == Head(edges[line])
             arrived == ApplyDelivery(clintLines, line, line, kind)
  <2>1. /\ edges[line] # <<>> /\ clintLines' = arrived
        /\ edges' = [edges EXCEPT ![line] = Tail(edges[line])]
        /\ UNCHANGED hartState
    BY <1>9 DEF ClintDeliver
  <2>2. /\ edges[line] \in Seq(Signals) /\ line \in InterruptLines
        /\ clintLines \in Controllers /\ OwnSource(clintLines, line)
    BY <1>0, ClintAssumption DEF ClintLineInv
  <2>3. /\ kind \in Signals /\ Tail(edges[line]) \in Seq(Signals)
        /\ Settled(Tail(edges[line]), kind = "Assert") <=> Ends(line)
    <3>1. Shown(line) \in BOOLEAN
      BY <1>0
    <3> QED BY <2>1, <2>2, <3>1, ArrivalSettles, Zenon
  <2>4. /\ arrived \in Controllers /\ OwnSource(arrived, line)
        /\ Pending(arrived, line) <=> kind = "Assert"
        /\ \A other \in InterruptLines \ {line} : arrived.pending[other] = clintLines.pending[other]
    BY <2>2, <2>3, DeliveryDecides, Zenon
  <2>5. Settled(Tail(edges[line]), Pending(arrived, line)) <=> Ends(line)
    BY <2>3, <2>4, Zenon DEF Settled
  <2> HIDE DEF arrived
  <2>6. edges' \in [{TimerLine, SoftwareLine} -> Seq(Signals)]
        /\ edges'[line] = Tail(edges[line])
        /\ \A l \in {TimerLine, SoftwareLine} \ {line} : edges'[l] = edges[l]
    BY <1>0, <2>1, <2>3, Zenon
  <2>7. \A l \in {TimerLine, SoftwareLine} :
            OwnSource(arrived, l) /\ (Settled(edges'[l], Pending(arrived, l)) <=> Ends(l))
    BY <2>4, <2>5, <2>6, ClintAssumption, ZenonT(30) DEF ClintLineInv, OwnSource, Pending
  <2> QED BY <1>0, <2>1, <2>4, <2>6, <2>7, Zenon DEF ClintLineInv, Pending, OwnSource
<1>10. CASE ClintAdvance
  BY <1>5, <1>10, Zenon DEF ClintAdvance
<1>11. CASE UNCHANGED clintVars
  BY <1>5, <1>11, Zenon DEF clintVars
<1> QED BY <1>3, <1>4, <1>6, <1>7, <1>8, <1>9, <1>10, <1>11 DEF ClintNext

\* The timer of a hart is raised exactly when its deadline has passed, and its lines follow,
\* for any number of programs, resets and signals under way (write_mtimecmp,
\* mark_timer_asserted, rtc_tick, reset).
THEOREM ClintLinesFollow == ClintSpec => []LinesFollowClint
<1>1. ClintInv /\ ClintLineInv => LinesFollowClint
  <2> SUFFICES ASSUME ClintInv, ClintLineInv PROVE LinesFollowClint
    OBVIOUS
  <2>1. /\ edges[TimerLine] = <<>> => (Pending(clintLines, TimerLine) <=> hartState.asserted)
        /\ edges[SoftwareLine] = <<>> =>
              (Pending(clintLines, SoftwareLine) <=> hartState.msip = 1)
    BY Zenon DEF ClintLineInv, Settled
  <2>2. ASSUME hartState.mtimecmp <= Mtime, ~hartState.asserted, ~timerDropped
        PROVE  \E event \in deadlines : /\ event.generation = hartState.generation
                                        /\ event.tick = clintTick
    <3>1. timebase = "SchedulerTicks"
      BY <2>2 DEF ClintInv, Mtime, HartStates
    <3>2. hartState.mtimecmp <= MaxClintTick
      BY <2>2, <3>1, ClintAssumption DEF ClintInv, Mtime, HartStates
    <3>3. HartDeadline(hartState) \in deadlines
      BY <2>2, <3>1, <3>2 DEF ClintInv
    <3>4. HartDeadline(hartState).tick = clintTick
      BY <2>2, <3>1, <3>3 DEF ClintInv, HartDeadline, Mtime, HartStates
    <3>5. HartDeadline(hartState).generation = hartState.generation
      BY DEF HartDeadline
    <3> QED BY <3>3, <3>4, <3>5
  <2>3. hartState.asserted => hartState.mtimecmp <= Mtime
    BY DEF ClintInv
  <2> QED BY <2>1, <2>2, <2>3, Zenon DEF LinesFollowClint
<1>2. ClintInv /\ ClintLineInv /\ [ClintNext]_clintVars => (ClintInv /\ ClintLineInv)'
  BY ClintStep, ClintLineStep
<1> QED BY <1>1, <1>2, ClintInitially, PTL DEF ClintSpec

-----------------------------------------------------------------------------
(* The UARTs, the PLIC and the plain interrupt controller device           *)

\* In a finite set that a relation orders totally some element comes first.
LEMMA FiniteFirst ==
    ASSUME NEW S, IsFiniteSet(S), S # {}, NEW R,
           \A x, y \in S : <<x, y>> \in R \/ <<y, x>> \in R,
           \A x, y, z \in S : <<x, y>> \in R /\ <<y, z>> \in R => <<x, z>> \in R
    PROVE  \E x \in S : \A y \in S : <<x, y>> \in R
<1> DEFINE HasFirst(T) == \E x \in T : \A y \in T : <<x, y>> \in R
           bad == {T \in SUBSET S : T # {} /\ ~HasFirst(T)}
<1> SUFFICES ASSUME ~HasFirst(S) PROVE FALSE
  OBVIOUS
<1>1. /\ bad \subseteq SUBSET S /\ bad # {}
      /\ \A T : T \in bad <=> T \subseteq S /\ T # {} /\ ~HasFirst(T)
  OBVIOUS
<1> HIDE DEF bad
<1>2. IsWellFoundedOn(StrictSubsetOrdering(S), SUBSET S)
  BY FS_StrictSubsetOrderingWellFounded, FS_FiniteSubsetsOfFinite, Zenon
<1>3. PICK T \in bad : \A U \in bad : <<U, T>> \notin StrictSubsetOrdering(S)
  <2>1. \E T \in bad : \A U \in bad : ~ (<<U, T>> \in StrictSubsetOrdering(S))
    <3>1. bad \subseteq SUBSET S /\ bad # {}
      BY <1>1
    <3> QED BY <1>2, <3>1, WFMin, Zenon
  <2> QED BY <2>1
<1>4. PICK x \in T : TRUE
  BY <1>1, Zenon
<1> DEFINE U == T \ {x}
<1>5. U \notin bad
  <2>1. U \subseteq T /\ U # T /\ U \in SUBSET S /\ T \in SUBSET S
    BY <1>1, <1>4, Zenon
  <2>2. <<U, T>> \in StrictSubsetOrdering(S)
    BY <2>1, Zenon DEF StrictSubsetOrdering
  <2> QED BY <1>3, <2>2, Zenon
<1>6. T \subseteq S /\ x \in S /\ <<x, x>> \in R /\ ~HasFirst(T)
  BY <1>1, <1>4, Zenon
<1>7. CASE U = {}
  <2>1. \A y \in T : y = x
    BY <1>7
  <2> QED BY <1>4, <1>6, <2>1, Zenon
<1>8. CASE U # {}
  <2>1. PICK y \in U : \A z \in U : <<y, z>> \in R
    <3>1. U \subseteq S
      BY <1>6
    <3> QED BY <1>1, <1>5, <1>8, <3>1, Zenon
  <2>2. CASE <<x, y>> \in R
    <3>1. \A z \in T : <<x, z>> \in R
      BY <1>6, <2>1, <2>2, Zenon
    <3> QED BY <1>6, <3>1, Zenon
  <2>3. CASE <<y, x>> \in R
    <3>1. \A z \in T : <<y, z>> \in R
      BY <1>6, <2>1, <2>3
    <3> QED BY <1>6, <2>1, <3>1, Zenon
  <2> QED BY <1>6, <2>1, <2>2, <2>3
<1> QED BY <1>7, <1>8

\* The line min_by_key returns is one of the candidates, and is none only if there are none.
LEMMA FirstIsCandidate ==
    ASSUME NEW c \in Controllers, NEW candidates \in SUBSET InterruptLines, candidates # {}
    PROVE  First(c, candidates) \in candidates
<1> DEFINE R == {p \in candidates \X candidates : Precedes(c, p[1], p[2])}
<1>1. IsFiniteSet(candidates)
  BY RouteAssumption, FS_Subset, Zenon
<1>2. \A l \in candidates : l \in Nat /\ c.priority[l] \in Nat
  BY RouteAssumption DEF Controllers
<1>3. \A x, y \in candidates : <<x, y>> \in R <=> Precedes(c, x, y)
  OBVIOUS
<1> HIDE DEF R
<1>4. \A x, y \in candidates : <<x, y>> \in R \/ <<y, x>> \in R
  <2> TAKE x \in candidates, y \in candidates
  <2>1. Precedes(c, x, y) \/ Precedes(c, y, x)
    BY <1>2 DEF Precedes
  <2> QED BY <1>3, <2>1, Zenon
<1>5. \A x, y, z \in candidates : <<x, y>> \in R /\ <<y, z>> \in R => <<x, z>> \in R
  BY <1>2, <1>3 DEF Precedes
<1>6. \E x \in candidates : \A y \in candidates : <<x, y>> \in R
  BY <1>1, <1>4, <1>5, FiniteFirst, Zenon
<1>7. \E x \in candidates : \A y \in candidates : Precedes(c, x, y)
  BY <1>3, <1>6, Zenon
<1> QED BY <1>7, Zenon DEF First

Received(line) == rx[line] > 0

(***************************************************************************)
(* The signals of a line alternate and the last one tells whether the UART *)
(* holds bytes; with none under way a pending line means bytes, and bytes  *)
(* mean a pending line or a handler that still drains the UART.            *)
(***************************************************************************)
SignalInv(signalled, received, pending, handled) ==
    /\ \A i \in 1..(Len(signalled) - 1) : signalled[i] # signalled[i + 1]
    /\ signalled # <<>> => (signalled[Len(signalled)] = "Assert" <=> received)
    /\ signalled # <<>> /\ signalled[1] = "Assert" => ~pending
    /\ signalled = <<>> /\ pending => received
    /\ signalled = <<>> /\ received => pending \/ handled

UartLineInv(line) ==
    /\ OwnSource(controller, line)
    /\ SignalInv(signals[line], Received(line), Pending(controller, line), Handled(line))

UartInv ==
    /\ claimDevice \in {"Plic", "Plain"}
    /\ rx \in [InterruptLines -> Nat]
    /\ signals \in [InterruptLines -> Seq(Signals)]
    /\ controller \in Controllers
    /\ threshold \in [InterruptTargets -> Nat]
    /\ handler \in [InterruptTargets -> {"Idle", "Draining", "Drained"}]
    /\ \A line \in InterruptLines : UartLineInv(line)

\* A UART that starts or stops holding bytes emits the signal for it.
LEMMA EmittedFollows ==
    ASSUME NEW signalled \in Seq(Signals), NEW received \in BOOLEAN, NEW pending \in BOOLEAN,
           NEW handled \in BOOLEAN, NEW kind \in Signals, kind = "Assert" <=> ~received,
           SignalInv(signalled, received, pending, handled)
    PROVE  /\ Append(signalled, kind) \in Seq(Signals)
           /\ SignalInv(Append(signalled, kind), ~received, pending, handled)
<1> DEFINE s == Append(signalled, kind)
<1>1. /\ s \in Seq(Signals) /\ s # <<>>
      /\ Len(signalled) \in Nat /\ Len(s) = Len(signalled) + 1 /\ s[Len(s)] = kind
      /\ \A i \in 1..Len(signalled) : s[i] = signalled[i] /\ signalled[i] \in Signals
  OBVIOUS
<1>2. signalled # <<>> => Len(signalled) > 0
  OBVIOUS
<1>3. signalled = <<>> => Len(signalled) = 0
  OBVIOUS
<1>4. signalled # <<>> => signalled[Len(signalled)] # kind
  BY <1>1, <1>2 DEF SignalInv, Signals
<1> HIDE DEF s
<1>5. ASSUME NEW i \in 1..(Len(s) - 1) PROVE s[i] # s[i + 1]
  <2>1. i \in 1..Len(signalled) /\ signalled # <<>>
    BY <1>1, <1>3
  <2>2. CASE i = Len(signalled)
    BY <1>1, <1>4, <2>1, <2>2
  <2>3. CASE i # Len(signalled)
    <3>1. i \in 1..(Len(signalled) - 1) /\ i + 1 \in 1..Len(signalled)
      BY <1>1, <2>1, <2>3
    <3> QED BY <1>1, <2>1, <3>1 DEF SignalInv
  <2> QED BY <2>2, <2>3
<1>6. s[1] = "Assert" => ~pending
  <2>1. CASE signalled = <<>>
    BY <1>1, <1>3, <2>1 DEF SignalInv
  <2>2. CASE signalled # <<>>
    BY <1>1, <1>2, <2>2 DEF SignalInv
  <2> QED BY <2>1, <2>2
<1>7. s[Len(s)] = "Assert" <=> ~received
  BY <1>1
<1>8. SignalInv(s, ~received, pending, handled)
  BY <1>1, <1>5, <1>6, <1>7 DEF SignalInv
<1> QED BY <1>1, <1>8 DEF s

\* The signal that arrives leaves the rest of the signals consistent with the line.
LEMMA ArrivalFollows ==
    ASSUME NEW signalled \in Seq(Signals), signalled # <<>>, NEW received \in BOOLEAN,
           NEW pending \in BOOLEAN, NEW handled \in BOOLEAN,
           SignalInv(signalled, received, pending, handled)
    PROVE  /\ Head(signalled) \in Signals
           /\ Tail(signalled) \in Seq(Signals)
           /\ SignalInv(Tail(signalled), received, Head(signalled) = "Assert", handled)
<1> DEFINE s == Tail(signalled)
<1>1. /\ s \in Seq(Signals) /\ Len(signalled) \in Nat /\ Len(signalled) > 0
      /\ Head(signalled) = signalled[1] /\ signalled[1] \in Signals
      /\ Len(s) = Len(signalled) - 1
      /\ \A i \in 1..Len(s) : s[i] = signalled[i + 1] /\ s[i] \in Signals
  OBVIOUS
<1>2. s # <<>> => Len(s) > 0
  BY <1>1, EmptySeq
<1>3. s = <<>> => Len(s) = 0
  BY <1>1, EmptySeq, Zenon
<1> HIDE DEF s
<1>4. \A i \in 1..(Len(s) - 1) : s[i] # s[i + 1]
  BY <1>1 DEF SignalInv
<1>5. s # <<>> => (s[Len(s)] = "Assert" <=> received)
  BY <1>1, <1>2 DEF SignalInv
<1>6. s # <<>> /\ s[1] = "Assert" => ~(Head(signalled) = "Assert")
  BY <1>1, <1>2 DEF SignalInv
<1>7. s = <<>> => (Head(signalled) = "Assert" <=> received)
  <2>1. s = <<>> => Len(signalled) = 1
    BY <1>1, <1>3
  <2> QED BY <1>1, <2>1, Zenon DEF SignalInv
<1>8. SignalInv(s, received, Head(signalled) = "Assert", handled)
  BY <1>4, <1>5, <1>6, <1>7, Zenon DEF SignalInv
<1> QED BY <1>1, <1>8 DEF s


LEMMA UartInitially == UartInit => UartInv
<1> SUFFICES ASSUME UartInit PROVE UartInv
  OBVIOUS
<1>1. ASSUME NEW line \in InterruptLines PROVE UartLineInv(line)
  <2>1. signals[line] = <<>> /\ rx[line] = 0 /\ OwnSource(controller, line)
        /\ ~Pending(controller, line)
    BY NewControllerFacts DEF UartInit
  <2> QED BY <2>1 DEF UartLineInv, SignalInv, Received
<1>2. \A t \in InterruptTargets : 0 \in Nat
  OBVIOUS
<1>3. <<>> \in Seq(Signals)
  OBVIOUS
<1> QED BY <1>1, <1>2, <1>3, NewControllerFacts, Zenon DEF UartInit, UartInv

\* A claim takes at most one line, for the target the line is routed to.
LEMMA ClaimTakes ==
    ASSUME NEW c \in Controllers, NEW target \in InterruptTargets,
           NEW accepted \in SUBSET InterruptLines
    PROVE  LET line == ClaimedLine(c, target, accepted)
               d == ClaimFiltered(c, target, accepted)
           IN  /\ d \in Controllers
               /\ c.claimed[target] # NoInterrupt => line = c.claimed[target]
               /\ c.claimed[target] # NoInterrupt \/ line = NoInterrupt => d = c
               /\ c.claimed[target] = NoInterrupt /\ line # NoInterrupt =>
                     /\ line \in InterruptLines /\ RouteOf[line] = target
                     /\ d.pending = [c.pending EXCEPT ![line] = NoInterrupt]
                     /\ d.claimed = [c.claimed EXCEPT ![target] = line]
<1> DEFINE line == ClaimedLine(c, target, accepted)
           d == ClaimFiltered(c, target, accepted)
           candidates == Claimable(c, target, accepted)
<1>1. c.claimed[target] # NoInterrupt => line = c.claimed[target]
  BY Zenon DEF ClaimedLine
<1>2. c.claimed[target] # NoInterrupt \/ line = NoInterrupt => d = c
  BY Zenon DEF ClaimFiltered
<1>3. CASE c.claimed[target] = NoInterrupt /\ line # NoInterrupt
  <2>1. line = First(c, candidates) /\ candidates # {}
    BY <1>3, Zenon DEF ClaimedLine, First
  <2>2. candidates \in SUBSET InterruptLines /\ \A l \in candidates : RouteOf[l] = target
    BY DEF Claimable
  <2>3. line \in candidates
    BY <2>1, <2>2, FirstIsCandidate, Zenon
  <2>4. line \in InterruptLines /\ RouteOf[line] = target
    BY <2>2, <2>3, Zenon
  <2>5. d = [c EXCEPT !.pending[line] = NoInterrupt, !.claimed[target] = line]
    BY <1>3, Zenon DEF ClaimFiltered
  <2> HIDE DEF d, line
  <2>6. /\ d \in Controllers
        /\ d.pending = [c.pending EXCEPT ![line] = NoInterrupt]
        /\ d.claimed = [c.claimed EXCEPT ![target] = line]
    <3>1. line \in Sources /\ NoInterrupt \in Sources
      BY <2>4 DEF Sources
    <3> QED BY <2>4, <2>5, <3>1, Zenon DEF Controllers
  <2> QED BY <1>3, <2>4, <2>6, Zenon DEF d, line
<1> QED BY <1>1, <1>2, <1>3, Zenon

LEMMA UartStep == UartInv /\ [UartNext]_uartVars => UartInv'
<1> SUFFICES ASSUME UartInv, [UartNext]_uartVars PROVE UartInv'
  OBVIOUS
<1>0. /\ claimDevice \in {"Plic", "Plain"}
      /\ rx \in [InterruptLines -> Nat]
      /\ signals \in [InterruptLines -> Seq(Signals)]
      /\ controller \in Controllers
      /\ threshold \in [InterruptTargets -> Nat]
      /\ handler \in [InterruptTargets -> {"Idle", "Draining", "Drained"}]
      /\ \A line \in InterruptLines :
            /\ UartLineInv(line)
            /\ Received(line) \in BOOLEAN /\ Pending(controller, line) \in BOOLEAN
            /\ Handled(line) \in BOOLEAN
            /\ RouteOf[line] \in InterruptTargets /\ line # NoInterrupt
  <2>1. \A line \in InterruptLines : /\ RouteOf[line] \in InterruptTargets
                                     /\ line # NoInterrupt
    BY RouteAssumption
  <2>2. \A line \in InterruptLines : Received(line) \in BOOLEAN
    BY DEF Received
  <2> QED BY <2>1, <2>2, Zenon DEF UartInv, Pending, Handled
<1>1. ASSUME UNCHANGED <<claimDevice, threshold, controller, handler>>,
             NEW line \in InterruptLines,
             rx' \in [InterruptLines -> Nat],
             signals' \in [InterruptLines -> Seq(Signals)],
             \A l \in InterruptLines \ {line} : rx'[l] = rx[l] /\ signals'[l] = signals[l],
             SignalInv(signals'[line], rx'[line] > 0, Pending(controller, line), Handled(line))
      PROVE  UartInv'
  <2>1. ASSUME NEW l \in InterruptLines PROVE UartLineInv(l)'
    <3>1. Handled(l)' = Handled(l) /\ Pending(controller, l)' = Pending(controller, l)
          /\ OwnSource(controller, l)' = OwnSource(controller, l)
      BY <1>1 DEF Handled, Pending, OwnSource
    <3>2. CASE l = line
      BY <1>0, <1>1, <3>1, <3>2, Zenon DEF UartLineInv, Received
    <3>3. CASE l # line
      BY <1>0, <1>1, <3>1, <3>3, Zenon DEF UartLineInv, Received
    <3> QED BY <3>2, <3>3, ZenonT(30)
  <2> QED BY <1>0, <1>1, <2>1, Zenon DEF UartInv
<1>2. ASSUME NEW line \in InterruptLines, InjectRx(line) PROVE UartInv'
  <2>1. /\ rx' \in [InterruptLines -> Nat] /\ rx'[line] > 0
        /\ \A l \in InterruptLines \ {line} : rx'[l] = rx[l]
    BY <1>0, <1>2 DEF InjectRx
  <2>2. CASE rx[line] = 0
    <3>1. signals' = [signals EXCEPT ![line] = Append(@, "Assert")] /\ ~Received(line)
      BY <1>2, <2>2 DEF InjectRx, ShouldAssert, Emit, Received
    <3>2. /\ Append(signals[line], "Assert") \in Seq(Signals)
          /\ SignalInv(Append(signals[line], "Assert"), ~Received(line),
                       Pending(controller, line), Handled(line))
      BY <1>0, <3>1, EmittedFollows, Zenon DEF UartLineInv, Signals
    <3>3. /\ signals' \in [InterruptLines -> Seq(Signals)]
          /\ signals'[line] = Append(signals[line], "Assert")
          /\ \A l \in InterruptLines \ {line} : signals'[l] = signals[l]
      BY <1>0, <3>1, <3>2, Zenon
    <3>4. (rx'[line] > 0) = ~Received(line)
      BY <2>1, <3>1
    <3>5. UNCHANGED <<claimDevice, threshold, controller, handler>>
      BY <1>2 DEF InjectRx, plicVars
    <3>6. SignalInv(signals'[line], rx'[line] > 0, Pending(controller, line), Handled(line))
      BY <3>2, <3>3, <3>4, Zenon
    <3> QED BY <1>1, <2>1, <3>3, <3>5, <3>6, Zenon
  <2>3. CASE rx[line] # 0
    <3>1. signals' = signals /\ (rx'[line] > 0) = Received(line)
      BY <1>0, <1>2, <2>1, <2>3 DEF InjectRx, ShouldAssert, Received
    <3>2. UNCHANGED <<claimDevice, threshold, controller, handler>>
      BY <1>2 DEF InjectRx, plicVars
    <3> QED BY <1>0, <1>1, <2>1, <3>1, <3>2, Zenon DEF UartLineInv
  <2> QED BY <2>2, <2>3, Zenon
<1>3. ASSUME NEW line \in InterruptLines, ReadData(line) PROVE UartInv'
  <2>1. /\ rx' \in [InterruptLines -> Nat] /\ rx'[line] = rx[line] - 1 /\ rx[line] > 0
        /\ \A l \in InterruptLines \ {line} : rx'[l] = rx[l]
    BY <1>0, <1>3 DEF ReadData
  <2>2. CASE rx[line] = 1
    <3>1. signals' = [signals EXCEPT ![line] = Append(@, "Deassert")] /\ Received(line)
      BY <1>3, <2>2 DEF ReadData, ShouldDeassert, Emit, Received
    <3>2. /\ Append(signals[line], "Deassert") \in Seq(Signals)
          /\ SignalInv(Append(signals[line], "Deassert"), ~Received(line),
                       Pending(controller, line), Handled(line))
      BY <1>0, <3>1, EmittedFollows, Zenon DEF UartLineInv, Signals
    <3>3. /\ signals' \in [InterruptLines -> Seq(Signals)]
          /\ signals'[line] = Append(signals[line], "Deassert")
          /\ \A l \in InterruptLines \ {line} : signals'[l] = signals[l]
      BY <1>0, <3>1, <3>2, Zenon
    <3>4. (rx'[line] > 0) = ~Received(line)
      BY <2>1, <2>2, <3>1
    <3>5. UNCHANGED <<claimDevice, threshold, controller, handler>>
      BY <1>3 DEF ReadData, plicVars
    <3>6. SignalInv(signals'[line], rx'[line] > 0, Pending(controller, line), Handled(line))
      BY <3>2, <3>3, <3>4, Zenon
    <3> QED BY <1>1, <2>1, <3>3, <3>5, <3>6, Zenon
  <2>3. CASE rx[line] # 1
    <3>1. signals' = signals /\ (rx'[line] > 0) = Received(line)
      BY <1>0, <1>3, <2>1, <2>3 DEF ReadData, ShouldDeassert, Received
    <3>2. UNCHANGED <<claimDevice, threshold, controller, handler>>
      BY <1>3 DEF ReadData, plicVars
    <3> QED BY <1>0, <1>1, <2>1, <3>1, <3>2, Zenon DEF UartLineInv
  <2> QED BY <2>2, <2>3, Zenon

<1>4. ASSUME NEW line \in InterruptLines, Deliver(line) PROVE UartInv'
  <2> DEFINE s == signals[line]
             arrived == ApplyDelivery(controller, line, line, Head(s))
  <2>1. s \in Seq(Signals) /\ s # <<>>
    BY <1>0, <1>4, Zenon DEF Deliver
  <2>2. /\ Head(s) \in Signals /\ Tail(s) \in Seq(Signals)
        /\ SignalInv(Tail(s), Received(line), Head(s) = "Assert", Handled(line))
    BY <1>0, <2>1, ArrivalFollows, Zenon DEF UartLineInv
  <2>3. /\ arrived \in Controllers /\ OwnSource(arrived, line)
        /\ Pending(arrived, line) <=> Head(s) = "Assert"
        /\ \A l \in InterruptLines \ {line} : arrived.pending[l] = controller.pending[l]
        /\ arrived.claimed = controller.claimed
    <3>1. controller \in Controllers /\ OwnSource(controller, line) /\ Head(s) \in Signals
      BY <1>0, <2>2, Zenon DEF UartLineInv
    <3> QED BY <3>1, DeliveryDecides, Zenon
  <2>4. controller' = arrived /\ signals' = [signals EXCEPT ![line] = Tail(@)]
        /\ UNCHANGED <<claimDevice, threshold, rx, handler>>
    BY <1>4 DEF Deliver, plicVars
  <2>5. /\ signals' \in [InterruptLines -> Seq(Signals)]
        /\ signals'[line] = Tail(s)
        /\ \A l \in InterruptLines \ {line} : signals'[l] = signals[l]
    BY <1>0, <2>2, <2>4, Zenon
  <2>6. ASSUME NEW l \in InterruptLines PROVE UartLineInv(l)'
    <3>1. Handled(l)' = Handled(l) /\ Received(l)' = Received(l)
      BY <2>3, <2>4 DEF Handled, Received
    <3>2. CASE l = line
      <4>1. OwnSource(controller, l)' /\ Pending(controller, l)' = (Head(s) = "Assert")
        BY <2>3, <2>4, <3>2 DEF OwnSource, Pending
      <4> QED BY <2>2, <2>5, <3>1, <3>2, <4>1, Zenon DEF UartLineInv
    <3>3. CASE l # line
      <4>1. OwnSource(controller, l)' = OwnSource(controller, l)
            /\ Pending(controller, l)' = Pending(controller, l)
        BY <2>3, <2>4, <3>3 DEF OwnSource, Pending
      <4> QED BY <1>0, <2>5, <3>1, <3>3, <4>1, Zenon DEF UartLineInv
    <3> QED BY <3>2, <3>3, Zenon
  <2> QED BY <1>0, <2>3, <2>4, <2>5, <2>6, Zenon DEF UartInv
<1>5. ASSUME UNCHANGED <<claimDevice, rx, signals>>,
             controller' \in Controllers,
             threshold' \in [InterruptTargets -> Nat],
             handler' \in [InterruptTargets -> {"Idle", "Draining", "Drained"}],
             \A l \in InterruptLines :
                \/ /\ controller'.pending[l] = controller.pending[l]
                   /\ Received(l) /\ Handled(l) => Handled(l)'
                \/ /\ controller'.pending[l] = NoInterrupt
                   /\ Handled(l)'
      PROVE  UartInv'
  <2>1. ASSUME NEW l \in InterruptLines PROVE UartLineInv(l)'
    <3>1. /\ signals'[l] = signals[l] /\ Received(l)' = Received(l)
          /\ OwnSource(controller, l)
          /\ SignalInv(signals[l], Received(l), Pending(controller, l), Handled(l))
      BY <1>0, <1>5, Zenon DEF Received, UartLineInv
    <3>2. CASE /\ controller'.pending[l] = controller.pending[l]
               /\ Received(l) /\ Handled(l) => Handled(l)'
      <4>1. OwnSource(controller, l)' /\ Pending(controller, l)' = Pending(controller, l)
        BY <3>1, <3>2 DEF OwnSource, Pending
      <4>2. SignalInv(signals[l], Received(l), Pending(controller, l), Handled(l)')
        BY <3>1, <3>2, Zenon DEF SignalInv
      <4> QED BY <3>1, <4>1, <4>2, Zenon DEF UartLineInv
    <3>3. CASE controller'.pending[l] = NoInterrupt /\ Handled(l)'
      <4>1. OwnSource(controller, l)' /\ Pending(controller, l)' = FALSE
        BY <3>3 DEF OwnSource, Pending
      <4>2. SignalInv(signals[l], Received(l), FALSE, Handled(l)')
        BY <3>1, <3>3, Zenon DEF SignalInv
      <4> QED BY <3>1, <4>1, <4>2, Zenon DEF UartLineInv
    <3> QED BY <1>5, <3>2, <3>3, Zenon
  <2> QED BY <1>0, <1>5, <2>1, Zenon DEF UartInv
<1>6. ASSUME NEW line \in InterruptLines, NEW priority \in Priorities,
             WritePriority(line, priority)
      PROVE  UartInv'
  <2>1. /\ controller' = [controller EXCEPT !.priority[line] = priority]
        /\ UNCHANGED <<claimDevice, rx, signals, threshold, handler>>
    BY <1>6 DEF WritePriority, SetPriority, plicVars
  <2>2. /\ controller' \in Controllers /\ controller'.pending = controller.pending
        /\ controller'.claimed = controller.claimed
    BY <1>0, <2>1, PriorityAssumption, Zenon DEF Controllers
  <2>3. \A l \in InterruptLines : Handled(l)' = Handled(l)
    BY <2>1, <2>2 DEF Handled
  <2> QED BY <1>0, <1>5, <2>1, <2>2, <2>3, Zenon
<1>7. ASSUME NEW target \in InterruptTargets, NEW value \in SUBSET InterruptLines,
             WriteEnable(target, value)
      PROVE  UartInv'
  <2>1. UNCHANGED <<claimDevice, rx, signals, threshold, handler, controller>>
    BY <1>7 DEF WriteEnable
  <2>2. \A l \in InterruptLines : Handled(l)' = Handled(l)
    BY <2>1 DEF Handled
  <2> QED BY <1>0, <1>5, <2>1, <2>2, Zenon
<1>8. ASSUME NEW target \in InterruptTargets, NEW priority \in Priorities,
             WriteThreshold(target, priority)
      PROVE  UartInv'
  <2>1. /\ UNCHANGED <<claimDevice, rx, signals, handler, controller>>
        /\ threshold' \in [InterruptTargets -> Nat]
    BY <1>0, <1>8, PriorityAssumption DEF WriteThreshold
  <2>2. \A l \in InterruptLines : Handled(l)' = Handled(l)
    BY <2>1 DEF Handled
  <2> QED BY <1>0, <1>5, <2>1, <2>2, Zenon
<1>9. ASSUME NEW target \in InterruptTargets, ReadClaim(target) PROVE UartInv'
  <2> DEFINE accepted == AcceptedLines(target)
             line == ClaimedLine(controller, target, accepted)
             d == ClaimFiltered(controller, target, accepted)
  <2>1. /\ controller' = d
        /\ handler' = [handler EXCEPT ![target] =
                          IF line = NoInterrupt THEN "Idle" ELSE "Draining"]
        /\ UNCHANGED <<claimDevice, rx, signals, threshold>>
    BY <1>9 DEF ReadClaim, plicVars
  <2>2. accepted \in SUBSET InterruptLines
    BY DEF AcceptedLines
  <2>3. /\ d \in Controllers
        /\ controller.claimed[target] # NoInterrupt => line = controller.claimed[target]
        /\ controller.claimed[target] # NoInterrupt \/ line = NoInterrupt => d = controller
        /\ controller.claimed[target] = NoInterrupt /\ line # NoInterrupt =>
              /\ line \in InterruptLines /\ RouteOf[line] = target
              /\ d.pending = [controller.pending EXCEPT ![line] = NoInterrupt]
              /\ d.claimed = [controller.claimed EXCEPT ![target] = line]
    <3>1. controller \in Controllers
      BY <1>0, Zenon
    <3> QED BY <2>2, <3>1, ClaimTakes
  <2> HIDE DEF accepted, line, d
  <2>4. handler' \in [InterruptTargets -> {"Idle", "Draining", "Drained"}]
    BY <1>0, <2>1, Zenon
  <2>5. ASSUME NEW l \in InterruptLines
        PROVE  \/ /\ controller'.pending[l] = controller.pending[l]
                  /\ Received(l) /\ Handled(l) => Handled(l)'
               \/ /\ controller'.pending[l] = NoInterrupt
                  /\ Handled(l)'
    <3>1. RouteOf[l] \in InterruptTargets /\ l # NoInterrupt
      BY <1>0, Zenon
    <3>2. CASE controller.claimed[target] # NoInterrupt \/ line = NoInterrupt
      BY <1>0, <2>1, <2>3, <3>1, <3>2, Zenon DEF Handled
    <3>3. CASE controller.claimed[target] = NoInterrupt /\ line # NoInterrupt
      <4>1. /\ controller.pending \in [InterruptLines -> Sources]
            /\ controller.claimed \in [InterruptTargets -> Sources]
        BY <1>0 DEF Controllers
      <4>2. CASE l = line
        BY <1>0, <2>1, <2>3, <3>1, <3>3, <4>1, <4>2, Zenon DEF Handled
      <4>3. CASE l # line
        BY <1>0, <2>1, <2>3, <3>1, <3>3, <4>1, <4>3, Zenon DEF Handled
      <4> QED BY <4>2, <4>3, Zenon
    <3> QED BY <3>2, <3>3, Zenon
  <2> QED BY <1>0, <1>5, <2>1, <2>3, <2>4, <2>5, Zenon

<1>10. ASSUME NEW target \in InterruptTargets, SeesEmpty(target) PROVE UartInv'
  <2>1. /\ UNCHANGED <<claimDevice, rx, signals, threshold, controller>>
        /\ handler' = [handler EXCEPT ![target] = "Drained"]
        /\ rx[controller.claimed[target]] = 0
    BY <1>10 DEF SeesEmpty, plicVars
  <2>2. \A l \in InterruptLines : Received(l) /\ Handled(l) => Handled(l)'
    <3>1. \A l \in InterruptLines : Received(l) /\ Handled(l) => RouteOf[l] # target
      BY <2>1 DEF Received, Handled
    <3> QED BY <1>0, <2>1, <3>1, Zenon DEF Handled
  <2>3. handler' \in [InterruptTargets -> {"Idle", "Draining", "Drained"}]
    BY <1>0, <2>1, Zenon
  <2> QED BY <1>0, <1>5, <2>1, <2>2, <2>3, Zenon
<1>11. ASSUME NEW target \in InterruptTargets, Finishes(target) PROVE UartInv'
  <2>1. /\ UNCHANGED <<claimDevice, rx, signals, threshold>>
        /\ handler[target] = "Drained"
        /\ handler' = [handler EXCEPT ![target] = "Idle"]
        /\ controller' = [controller EXCEPT !.claimed[target] = NoInterrupt]
    BY <1>11 DEF Finishes, WriteComplete, Complete, plicVars
  <2>2. /\ controller' \in Controllers /\ controller'.pending = controller.pending
        /\ controller'.claimed = [controller.claimed EXCEPT ![target] = NoInterrupt]
        /\ controller.claimed \in [InterruptTargets -> Sources]
    BY <1>0, <2>1, Zenon DEF Controllers, Sources
  <2>3. \A l \in InterruptLines : Received(l) /\ Handled(l) => Handled(l)'
    <3>1. \A l \in InterruptLines : Handled(l) => RouteOf[l] # target
      BY <2>1 DEF Handled
    <3> QED BY <1>0, <2>1, <2>2, <3>1, Zenon DEF Handled
  <2>4. handler' \in [InterruptTargets -> {"Idle", "Draining", "Drained"}]
    BY <1>0, <2>1, Zenon
  <2> QED BY <1>0, <1>5, <2>1, <2>2, <2>3, <2>4, Zenon
<1>12. CASE UNCHANGED uartVars
  <2>1. UNCHANGED <<claimDevice, rx, signals, threshold, handler, controller>>
    BY <1>12 DEF uartVars
  <2>2. \A l \in InterruptLines : Handled(l)' = Handled(l)
    BY <2>1 DEF Handled
  <2> QED BY <1>0, <1>5, <2>1, <2>2, Zenon
<1> QED BY <1>2, <1>3, <1>4, <1>6, <1>7, <1>8, <1>9, <1>10, <1>11, <1>12 DEF UartNext

\* No received byte is forgotten and no interrupt is made up, for any number of UARTs, targets,
\* routes and signals under way (Uart::inject_rx, apply_delivery, claim_filtered, complete).
THEOREM UartLinesFollow == UartSpec => []LineFollowsUart
<1>1. UartInv => LineFollowsUart
  <2> SUFFICES ASSUME UartInv, NEW line \in InterruptLines
               PROVE  /\ rx[line] > 0 => \/ Announced(line) \/ Pending(controller, line)
                                         \/ Handled(line)
                      /\ signals[line] # <<>> /\ Head(signals[line]) = "Assert" =>
                            ~Pending(controller, line)
                      /\ Pending(controller, line) =>
                            \/ rx[line] > 0
                            \/ \E i \in DOMAIN signals[line] : signals[line][i] = "Deassert"
    BY DEF LineFollowsUart
  <2>1. /\ signals[line] \in Seq(Signals)
        /\ SignalInv(signals[line], Received(line), Pending(controller, line), Handled(line))
    BY DEF UartInv, UartLineInv
  <2>2. signals[line] # <<>> =>
            /\ Len(signals[line]) \in DOMAIN signals[line]
            /\ signals[line][Len(signals[line])] \in Signals
            /\ Head(signals[line]) = signals[line][1]
    BY <2>1
  <2> QED BY <2>1, <2>2, Zenon DEF SignalInv, Received, Announced, Signals
<1> QED BY <1>1, UartInitially, UartStep, PTL DEF UartSpec

\* The interrupt a hart is shown is the one it gets, whatever the priorities, enables,
\* thresholds and claims are (context_output_line, peek_claimable, claim_filtered).
THEOREM UartOutputIsNextClaim == UartSpec => []OutputIsNextClaim
<1>1. UartInv => OutputIsNextClaim
  <2> SUFFICES ASSUME UartInv, NEW target \in InterruptTargets
               PROVE  IF controller.claimed[target] = NoInterrupt
                        THEN Output(target) =
                                ClaimedLine(controller, target, AcceptedLines(target))
                        ELSE claimDevice = "Plic" => Output(target) = NoInterrupt
    BY DEF OutputIsNextClaim
  <2>1. /\ claimDevice \in {"Plic", "Plain"} /\ threshold[target] \in Nat
        /\ \A l \in InterruptLines : controller.priority[l] \in Nat
    BY DEF UartInv, Controllers
  <2>2. CASE claimDevice = "Plain"
    <3>1. AcceptedLines(target) = InterruptLines
      BY <2>2 DEF AcceptedLines, Accepts
    <3> QED BY <2>2, <3>1 DEF Output, PeekClaimable, ClaimedLine
  <2>3. CASE claimDevice = "Plic"
    <3> DEFINE shown == {l \in InterruptLines : /\ Pending(controller, l)
                                                /\ RouteOf[l] = target
                                                /\ SourceInRange(l)
                                                /\ l \in enabled[target]
                                                /\ controller.priority[l] > threshold[target]}
    <3>1. shown = Claimable(controller, target, AcceptedLines(target))
      BY <2>1, <2>3 DEF Claimable, AcceptedLines, Accepts
    <3> QED BY <2>3, <3>1, Zenon DEF Output, ClaimedLine
  <2> QED BY <2>1, <2>2, <2>3
<1> QED BY <1>1, UartInitially, UartStep, PTL DEF UartSpec

-----------------------------------------------------------------------------
(* Remainders                                                              *)

LEMMA Quotient ==
    ASSUME NEW x \in Nat, NEW q \in Nat \ {0}
    PROVE  \E d \in Nat : x = q * d + (x % q) /\ q * d \in Nat
<1> DEFINE d == x \div q
           p == q * d
           r == x % q
<1>1. d \in Nat OBVIOUS
<1>2. r = x - p BY SMTT(30)
<1>3. r \in Nat OBVIOUS
<1> HIDE DEF d
<1>4. p \in Nat BY <1>1
<1>5. x = p + r
  <2> HIDE DEF p, r
  <2> QED BY <1>2, <1>3, <1>4
<1> QED BY <1>1, <1>4, <1>5, Zenon

LEMMA Multiples ==
    ASSUME NEW d \in Nat, NEW e \in Nat, NEW q \in Nat, d < e
    PROVE  q * d + q <= q * e
OBVIOUS

LEMMA Remainder ==
    ASSUME NEW q \in Nat \ {0}, NEW d \in Nat, NEW r \in 0..q - 1
    PROVE  (q * d + r) % q = r
<1> DEFINE p == q * d
           s == (p + r) % q
<1>0. p \in Nat /\ p + r \in Nat OBVIOUS
<1>1. PICK e \in Nat : p + r = q * e + s /\ q * e \in Nat
  <2> HIDE DEF p
  <2> QED BY <1>0, Quotient, Zenon
<1>2. s \in 0..q - 1
  <2> HIDE DEF p
  <2> QED BY <1>0
<1>3. d < e => p + q <= q * e BY Multiples
<1>4. e < d => q * e + q <= p BY Multiples
<1>5. ~(d < e) /\ ~(e < d)
  <2> DEFINE u == q * e
  <2> HIDE DEF p, s, u
  <2>1. p + r = u + s /\ u \in Nat /\ (d < e => p + q <= u) /\ (e < d => u + q <= p)
    BY <1>1, <1>3, <1>4 DEF u
  <2> QED BY <1>0, <1>2, <2>1
<1>6. d = e BY <1>5
<1>7. p + r = p + s BY <1>1, <1>6
<1> HIDE DEF p, s
<1>8. s = r BY <1>0, <1>2, <1>7
<1> QED BY <1>8 DEF s, p

LEMMA Apart ==
    ASSUME NEW x \in Nat, NEW y \in Nat, NEW q \in Nat \ {0}, x % q = y % q, x < y
    PROVE  x + q <= y
<1>1. PICK d \in Nat : x = q * d + (x % q) /\ q * d \in Nat BY Quotient, Zenon
<1>2. PICK e \in Nat : y = q * e + (y % q) /\ q * e \in Nat BY Quotient, Zenon
<1>3. x % q \in Nat OBVIOUS
<1>4. d < e
  <2>1. SUFFICES ASSUME e <= d PROVE FALSE OBVIOUS
  <2>2. q * e <= q * d BY <2>1, Multiples
  <2> QED BY <1>1, <1>2, <1>3, <2>2
<1>5. q * d + q <= q * e BY <1>4, Multiples
<1> QED BY <1>1, <1>2, <1>3, <1>5

LEMMA AddMultiple ==
    ASSUME NEW x \in Nat, NEW q \in Nat \ {0}, NEW k \in Nat
    PROVE  (x + q * k) % q = x % q
<1>1. PICK d \in Nat : x = q * d + (x % q) /\ q * d \in Nat BY Quotient, Zenon
<1> DEFINE p == q * d
           m == q * k
           r == x % q
<1>2. r \in 0..q - 1 OBVIOUS
<1>3. p + m = q * (d + k) /\ m \in Nat /\ d + k \in Nat OBVIOUS
<1>4. (q * (d + k) + r) % q = r
  BY <1>2, <1>3, Remainder
<1>5. x + m = p + m + r
  <2>1. x = p + r /\ p \in Nat BY <1>1
  <2> HIDE DEF p, m, r
  <2> QED BY <1>2, <1>3, <2>1
<1> DEFINE n == q * (d + k)
<1> HIDE DEF p, m, r, n
<1>6. x + m = n + r BY <1>3, <1>5, Zenon DEF n
<1> QED BY <1>4, <1>6, Zenon DEF n, m, r

-----------------------------------------------------------------------------
(* Ring indices                                                            *)

Indices == 0..IndexSpan - 1

LEMMA SpanIs == IndexSpan \in Nat \ {0} /\ QueueSize \in Nat \ {0} /\ QueueSize < IndexSpan
BY QueueAssumption

LEMMA HeadsAre ==
    /\ \A i \in Heads : i \in Nat /\ i < QueueSize /\ i <= QueueSize
    /\ \A i \in Nat : i < QueueSize => i \in Heads
BY SpanIs DEF Heads

LEMMA SuccessorIs ==
    ASSUME NEW a \in Indices
    PROVE  /\ Successor(a) \in Indices
           /\ Successor(a) = IF a = IndexSpan - 1 THEN 0 ELSE a + 1
<1>1. IndexSpan \in Nat \ {0} /\ a + 1 \in Nat /\ a + 1 <= IndexSpan
  BY SpanIs DEF Indices
<1>2. a + 1 < IndexSpan => (a + 1) % IndexSpan = a + 1 BY <1>1
<1>3. a + 1 = IndexSpan => (a + 1) % IndexSpan = 0 BY <1>1
<1> QED BY <1>1, <1>2, <1>3 DEF Successor, Indices

LEMMA Wraps ==
    ASSUME NEW x \in Nat, x < 2 * IndexSpan
    PROVE  x % IndexSpan = IF x < IndexSpan THEN x ELSE x - IndexSpan
BY SpanIs

LEMMA DistanceIs ==
    ASSUME NEW a \in Indices, NEW b \in Indices
    PROVE  /\ Distance(a, b) \in Indices
           /\ Distance(a, b) = IF a <= b THEN b - a ELSE b + IndexSpan - a
<1> DEFINE x == b + IndexSpan - a
<1>1. x \in Nat /\ x < 2 * IndexSpan
  BY SpanIs DEF Indices
<1>2. Distance(a, b) = x % IndexSpan
  BY Zenon DEF Distance
<1>3. x % IndexSpan = IF x < IndexSpan THEN x ELSE x - IndexSpan
  <2> HIDE DEF x
  <2> QED BY <1>1, Wraps, Zenon
<1>4. x % IndexSpan = IF a <= b THEN b - a ELSE b + IndexSpan - a
  BY <1>3, SpanIs DEF Indices
<1> HIDE DEF x
<1> QED BY <1>2, <1>4, SpanIs DEF Indices

LEMMA DistanceGrows ==
    ASSUME NEW a \in Indices, NEW b \in Indices, Distance(a, b) + 1 < IndexSpan
    PROVE  Distance(a, Successor(b)) = Distance(a, b) + 1
<1>1. PICK c \in Indices : c = Successor(b) /\ c = IF b = IndexSpan - 1 THEN 0 ELSE b + 1
  BY SuccessorIs, Zenon
<1>2. Distance(a, b) = IF a <= b THEN b - a ELSE b + IndexSpan - a
  BY DistanceIs, Zenon
<1>3. Distance(a, c) = IF a <= c THEN c - a ELSE c + IndexSpan - a
  BY DistanceIs, Zenon
<1>4. Distance(a, c) = Distance(a, b) + 1
  BY <1>1, <1>2, <1>3, SpanIs DEF Indices
<1> QED BY <1>1, <1>4, Zenon

LEMMA DistanceShrinks ==
    ASSUME NEW a \in Indices, NEW b \in Indices, a # b
    PROVE  /\ Distance(a, b) > 0
           /\ Distance(Successor(a), b) = Distance(a, b) - 1
<1>1. PICK c \in Indices : c = Successor(a) /\ c = IF a = IndexSpan - 1 THEN 0 ELSE a + 1
  BY SuccessorIs, Zenon
<1>2. Distance(a, b) = IF a <= b THEN b - a ELSE b + IndexSpan - a
  BY DistanceIs, Zenon
<1>3. Distance(c, b) = IF c <= b THEN b - c ELSE b + IndexSpan - c
  BY DistanceIs, Zenon
<1>4. Distance(a, b) > 0 /\ Distance(c, b) = Distance(a, b) - 1
  BY <1>1, <1>2, <1>3, SpanIs DEF Indices
<1> QED BY <1>1, <1>4, Zenon

LEMMA DistanceEnds ==
    ASSUME NEW a \in Indices, NEW b \in Indices
    PROVE  (a + Distance(a, b)) % IndexSpan = b
<1> DEFINE x == a + Distance(a, b)
<1>1. x = IF a <= b THEN b ELSE b + IndexSpan
  <2>1. Distance(a, b) = IF a <= b THEN b - a ELSE b + IndexSpan - a
    BY DistanceIs, Zenon
  <2> QED BY <2>1, SpanIs DEF Indices
<1>2. x \in Nat /\ x < 2 * IndexSpan
  BY <1>1, SpanIs DEF Indices
<1> HIDE DEF x
<1>3. x % IndexSpan = IF x < IndexSpan THEN x ELSE x - IndexSpan
  BY <1>2, Wraps, Zenon
<1>4. x % IndexSpan = b
  BY <1>1, <1>3, SpanIs DEF Indices
<1> QED BY <1>4, Zenon DEF x

-----------------------------------------------------------------------------
(* Slots                                                                   *)

\* the slot of the entry i places after an index
At(base, i) == ((base + i) % IndexSpan) % QueueSize

LEMMA SlotIs ==
    ASSUME NEW a \in Indices, NEW i \in Nat, i <= QueueSize
    PROVE  At(a, i) = (a + i) % QueueSize /\ At(a, i) \in Heads
<1>0. PICK k \in Nat : IndexSpan = QueueSize * k
  <2>1. PICK k \in Nat : IndexSpan = QueueSize * k + (IndexSpan % QueueSize)
                         /\ QueueSize * k \in Nat
    BY Quotient, SpanIs, Zenon
  <2>2. IndexSpan = QueueSize * k + 0
    BY <2>1, QueueAssumption, Zenon
  <2> DEFINE p == QueueSize * k
  <2>3. p \in Nat /\ IndexSpan = p + 0 BY <2>1, <2>2, Zenon
  <2> HIDE DEF p
  <2>4. IndexSpan = p BY <2>3
  <2> QED BY <2>4, Zenon DEF p
<1> DEFINE x == a + i
           w == x % IndexSpan
<1>1. x \in Nat /\ x < 2 * IndexSpan
  BY SpanIs DEF Indices
<1> HIDE DEF x
<1>2. w = IF x < IndexSpan THEN x ELSE x - IndexSpan
  BY <1>1, Wraps, Zenon
<1> HIDE DEF w
<1>3. w \in Nat /\ (w = x \/ x = w + IndexSpan)
  BY <1>1, <1>2, SpanIs
<1>4. (w + QueueSize * k) % QueueSize = w % QueueSize
  BY <1>3, SpanIs, AddMultiple, Zenon
<1>5. x % QueueSize = w % QueueSize
  BY <1>0, <1>3, <1>4, Zenon
<1>6. x % QueueSize \in 0..QueueSize - 1
  BY <1>1, SpanIs
<1> QED BY <1>5, <1>6, Zenon DEF At, x, w, Heads

LEMMA SlotsDiffer ==
    ASSUME NEW a \in Indices, NEW i \in Heads, NEW j \in Heads, At(a, i) = At(a, j)
    PROVE  i = j
<1>1. /\ i \in Nat /\ j \in Nat /\ i < QueueSize /\ j < QueueSize /\ a \in Nat
      /\ i <= QueueSize /\ j <= QueueSize
  BY SpanIs DEF Heads, Indices
<1> DEFINE x == a + i
           y == a + j
<1>2. x % QueueSize = y % QueueSize
  BY <1>1, SlotIs, Zenon
<1>3. x \in Nat /\ y \in Nat
  BY <1>1
<1>4. /\ x < y => x + QueueSize <= y
      /\ y < x => y + QueueSize <= x
  <2> HIDE DEF x, y
  <2> QED BY <1>2, <1>3, Apart, SpanIs, Zenon
<1> QED BY <1>1, <1>3, <1>4, SpanIs

LEMMA SlotShifts ==
    ASSUME NEW a \in Indices, NEW i \in Heads
    PROVE  At(Successor(a), i) = At(a, i + 1)
<1>1. PICK c \in Indices : c = Successor(a) /\ c = IF a = IndexSpan - 1 THEN 0 ELSE a + 1
  BY SuccessorIs, Zenon
<1> DEFINE x == c + i
           y == a + (i + 1)
<1>2. /\ x \in Nat /\ x < 2 * IndexSpan /\ y \in Nat /\ y < 2 * IndexSpan
      /\ x = y \/ (y = x + IndexSpan /\ x < IndexSpan)
  BY <1>1, SpanIs DEF Indices, Heads
<1> HIDE DEF x, y
<1>3. /\ x % IndexSpan = IF x < IndexSpan THEN x ELSE x - IndexSpan
      /\ y % IndexSpan = IF y < IndexSpan THEN y ELSE y - IndexSpan
  BY <1>2, Wraps, Zenon
<1>4. x % IndexSpan = y % IndexSpan
  BY <1>2, <1>3, SpanIs
<1> QED BY <1>1, <1>4, Zenon DEF At, x, y
-----------------------------------------------------------------------------
(* Windows of a ring                                                       *)

\* what n entries from an index on hold, and that they hold different chains
Window(ring, base, n) == {ring[At(base, i)] : i \in {j \in Heads : j < n}}

Distinct(ring, base, n) ==
    \A i, j \in Heads : (i < n /\ j < n /\ ring[At(base, i)] = ring[At(base, j)]) => i = j

\* A window of distinct chains has as many of them as entries.
LEMMA WindowSize ==
    ASSUME NEW ring \in [Heads -> Heads], NEW a \in Indices, NEW n \in 0..QueueSize,
           Distinct(ring, a, n)
    PROVE  /\ Window(ring, a, n) \subseteq Heads
           /\ IsFiniteSet(Window(ring, a, n)) /\ Cardinality(Window(ring, a, n)) = n
<1> DEFINE D == {j \in Heads : j < n}
           f == [i \in D |-> ring[At(a, i)]]
           W == Window(ring, a, n)
<1>1. D = 0..n - 1 /\ n - 1 \in Int
  BY SpanIs DEF Heads
<1>2. IsFiniteSet(D) /\ Cardinality(D) = n
  <2>1. n \in Nat /\ 0 \in Int /\ (IF 0 > n - 1 THEN 0 ELSE n - 1 - 0 + 1) = n
    BY SpanIs
  <2> QED BY <1>1, <2>1, FS_Interval, Zenon
<1>3. \A i \in D : At(a, i) \in Heads
  BY HeadsAre, SlotIs, Zenon
<1>4. W \subseteq Heads
  BY <1>3, Zenon DEF Window
<1>5. f \in Bijection(D, W)
  <2>1. f \in [D -> W]
    BY Zenon DEF Window
  <2>2. \A i, j \in D : f[i] = f[j] => i = j
    BY Zenon DEF Distinct
  <2>3. \A w \in W : \E i \in D : f[i] = w
    BY Zenon DEF Window
  <2> HIDE DEF f, D, W
  <2> QED BY <2>1, <2>2, <2>3, Zenon DEF Bijection, Injection, Surjection, IsInjective
<1>6. ExistsBijection(D, W)
  BY <1>5, Zenon DEF ExistsBijection
<1> HIDE DEF D, W
<1>7. IsFiniteSet(W) /\ Cardinality(W) = n
  BY <1>2, <1>6, FS_Bijection, Zenon
<1> QED BY <1>4, <1>7, Zenon DEF W

Stored(ring, slot, head) == [ring EXCEPT ![slot] = head]

\* An entry written after a window extends it.
LEMMA WindowPush ==
    ASSUME NEW ring \in [Heads -> Heads], NEW a \in Indices, NEW n \in Heads,
           Distinct(ring, a, n), NEW head \in Heads, head \notin Window(ring, a, n)
    PROVE  LET after == Stored(ring, At(a, n), head)
           IN  /\ after \in [Heads -> Heads]
               /\ Window(after, a, n + 1) = Window(ring, a, n) \union {head}
               /\ Distinct(after, a, n + 1)
<1> DEFINE slot == At(a, n)
           after == Stored(ring, slot, head)
<1>1. \A i \in Heads : i < n + 1 <=> i < n \/ i = n
  <2>1. \A i \in Nat : i < n + 1 <=> i < n \/ i = n
    <3>1. n \in Nat BY HeadsAre, Zenon
    <3> QED BY <3>1
  <2> QED BY <2>1, HeadsAre, Zenon
<1>2. \A i \in Heads : At(a, i) \in Heads
  BY HeadsAre, SlotIs, Zenon
<1>3. \A i \in Heads : i < n => At(a, i) # slot
  <2>1. ~(n < n) BY SpanIs DEF Heads
  <2> QED BY <2>1, SlotsDiffer, Zenon
<1>n. slot \in Heads
  BY <1>2, Zenon
<1> HIDE DEF slot
<1>4. /\ after[slot] = head
      /\ \A i \in Heads : i < n => after[At(a, i)] = ring[At(a, i)]
  BY <1>2, <1>3, <1>n, Zenon DEF Stored
<1>5. after \in [Heads -> Heads]
  BY <1>n, Zenon DEF Stored
<1> HIDE DEF after
<1>6. Window(after, a, n + 1) = Window(ring, a, n) \union {head}
  <2>1. \A i \in Heads : i < n + 1 => i < n \/ At(a, i) = slot
    BY <1>1, Zenon DEF slot
  <2>2. \A i \in Heads : i < n => i < n + 1
    BY <1>1, Zenon
  <2>3. Window(after, a, n + 1) \subseteq Window(ring, a, n) \union {head}
    <3> SUFFICES ASSUME NEW i \in Heads, i < n + 1
                 PROVE  after[At(a, i)] \in Window(ring, a, n) \union {head}
      BY Zenon DEF Window
    <3>1. CASE i < n
      BY <1>4, <3>1, Zenon DEF Window
    <3>2. CASE At(a, i) = slot
      BY <1>4, <3>2, Zenon
    <3> QED BY <2>1, <3>1, <3>2, Zenon
  <2>4. Window(ring, a, n) \subseteq Window(after, a, n + 1)
    BY <1>4, <2>2, Zenon DEF Window
  <2>5. head \in Window(after, a, n + 1)
    BY <1>1, <1>4, Zenon DEF Window, slot
  <2> QED BY <2>3, <2>4, <2>5, Zenon
<1>7. Distinct(after, a, n + 1)
  <2> SUFFICES ASSUME NEW i \in Heads, NEW j \in Heads, i < n + 1, j < n + 1,
                      after[At(a, i)] = after[At(a, j)]
               PROVE  i = j
    BY Zenon DEF Distinct
  <2>1. CASE i < n /\ j < n
    BY <1>4, <2>1, Zenon DEF Distinct
  <2>2. CASE i < n /\ j = n
    BY <1>4, <2>2, Zenon DEF Window, slot
  <2>3. CASE i = n /\ j < n
    BY <1>4, <2>3, Zenon DEF Window, slot
  <2> QED BY <1>1, <2>1, <2>2, <2>3, Zenon
<1> QED BY <1>5, <1>6, <1>7, Zenon DEF after, slot

\* A window that starts one entry later has lost its first chain.
LEMMA WindowPop ==
    ASSUME NEW ring \in [Heads -> Heads], NEW a \in Indices, NEW n \in 1..QueueSize,
           Distinct(ring, a, n)
    PROVE  /\ ring[a % QueueSize] \in Window(ring, a, n)
           /\ Window(ring, Successor(a), n - 1) = Window(ring, a, n) \ {ring[a % QueueSize]}
           /\ Distinct(ring, Successor(a), n - 1)
<1> DEFINE b == Successor(a)
           first == ring[At(a, 0)]
<1>1. At(a, 0) = a % QueueSize
  <2>1. a \in Nat /\ a + 0 = a /\ 0 <= QueueSize BY SpanIs DEF Indices
  <2> QED BY <2>1, SlotIs, Zenon
<1>2. 0 \in Heads /\ 0 < n
  BY SpanIs DEF Heads
<1>3. \A i \in Heads : i < n - 1 => i + 1 \in Heads /\ i + 1 < n /\ i + 1 # 0
  BY SpanIs DEF Heads
<1>4. \A i \in Heads : i < n => i = 0 \/ \E j \in Heads : j < n - 1 /\ i = j + 1
  <2> SUFFICES ASSUME NEW i \in Heads, i < n, i # 0
               PROVE  \E j \in Heads : j < n - 1 /\ i = j + 1
    BY Zenon
  <2>1. i - 1 \in Heads /\ i - 1 < n - 1 /\ i = (i - 1) + 1
    BY SpanIs DEF Heads
  <2> QED BY <2>1, Zenon
<1>5. \A i \in Heads : At(b, i) = At(a, i + 1)
  BY SlotShifts, Zenon
<1> HIDE DEF b
<1>6. \A i \in Heads : i < n /\ ring[At(a, i)] = first => i = 0
  BY <1>2, Zenon DEF Distinct
<1>7. Window(ring, b, n - 1) = Window(ring, a, n) \ {first}
  <2>1. ASSUME NEW w \in Window(ring, b, n - 1) PROVE w \in Window(ring, a, n) \ {first}
    <3>1. PICK i \in Heads : i < n - 1 /\ w = ring[At(a, i + 1)]
      BY <1>5, Zenon DEF Window
    <3> QED BY <1>3, <1>6, <3>1, Zenon DEF Window
  <2>2. ASSUME NEW w \in Window(ring, a, n), w # first PROVE w \in Window(ring, b, n - 1)
    <3>1. PICK i \in Heads : i < n /\ w = ring[At(a, i)]
      BY Zenon DEF Window
    <3>2. PICK j \in Heads : j < n - 1 /\ i = j + 1
      BY <1>4, <2>2, <3>1, Zenon
    <3> QED BY <1>5, <3>1, <3>2, Zenon DEF Window
  <2> QED BY <2>1, <2>2, Zenon
<1>8. Distinct(ring, b, n - 1)
  <2> SUFFICES ASSUME NEW i \in Heads, NEW j \in Heads, i < n - 1, j < n - 1,
                      ring[At(b, i)] = ring[At(b, j)]
               PROVE  i = j
    BY Zenon DEF Distinct
  <2>1. i + 1 = j + 1
    BY <1>3, <1>5, Zenon DEF Distinct
  <2> QED BY <2>1 DEF Heads
<1>9. first \in Window(ring, a, n)
  BY <1>2, Zenon DEF Window
<1> QED BY <1>1, <1>7, <1>8, <1>9, Zenon DEF b


-----------------------------------------------------------------------------
(* Both rings                                                              *)

Rings == [Heads -> Heads]

SplitTypeOK ==
    /\ eventIndex \in BOOLEAN /\ isr \in BOOLEAN
    /\ available \in [ring : Rings, index : Indices, noInterrupt : BOOLEAN, usedEvent : Indices]
    /\ used \in [ring : Rings, index : Indices]
    /\ lastAvailable \in Indices
    /\ decoded \subseteq Heads
    /\ driver \in [state : {"Busy", "Checking", "Asleep"}, seen : Indices,
                   slack : 0..QueueSize, inFlight : SUBSET Heads]

Offered == Distance(lastAvailable, available.index)

OfferedChains == Window(available.ring, lastAvailable, Offered)

ReturnedChains == Window(used.ring, driver.seen, Waiting)

(***************************************************************************)
(* A chain in flight is in one entry of the available ring, with the       *)
(* device, or in one entry of the used ring.                               *)
(***************************************************************************)
RingsInv ==
    /\ Offered <= QueueSize /\ Waiting <= QueueSize
    /\ Distinct(available.ring, lastAvailable, Offered)
    /\ Distinct(used.ring, driver.seen, Waiting)
    /\ OfferedChains \intersect decoded = {} /\ decoded \intersect ReturnedChains = {}
    /\ OfferedChains \intersect ReturnedChains = {}
    /\ driver.inFlight = OfferedChains \union decoded \union ReturnedChains

(***************************************************************************)
(* A driver that is not busy has asked to be woken after its slack.        *)
(***************************************************************************)
WakeInv ==
    /\ driver.state # "Busy" =>
          /\ ~available.noInterrupt
          /\ available.usedEvent = (driver.seen + driver.slack) % IndexSpan
    /\ NoLostWakeUp

SplitInv == SplitTypeOK /\ RingsInv /\ WakeInv

LEMMA SplitTypes ==
    ASSUME SplitTypeOK
    PROVE  /\ available.ring \in Rings /\ available.index \in Indices
           /\ available.noInterrupt \in BOOLEAN /\ available.usedEvent \in Indices
           /\ used.ring \in Rings /\ used.index \in Indices
           /\ lastAvailable \in Indices /\ decoded \subseteq Heads
           /\ driver.state \in {"Busy", "Checking", "Asleep"} /\ driver.seen \in Indices
           /\ driver.slack \in 0..QueueSize /\ driver.inFlight \subseteq Heads
           /\ Offered \in Nat /\ Waiting \in Nat
<1>1. /\ available.ring \in Rings /\ available.index \in Indices
      /\ available.noInterrupt \in BOOLEAN /\ available.usedEvent \in Indices
      /\ used.ring \in Rings /\ used.index \in Indices
      /\ lastAvailable \in Indices /\ decoded \subseteq Heads
      /\ driver.state \in {"Busy", "Checking", "Asleep"} /\ driver.seen \in Indices
      /\ driver.slack \in 0..QueueSize /\ driver.inFlight \subseteq Heads
  BY DEF SplitTypeOK
<1>2. Offered \in Indices /\ Waiting \in Indices
  BY <1>1, DistanceIs, Zenon DEF Offered, Waiting
<1>3. \A i \in Indices : i \in Nat
  BY SpanIs DEF Indices
<1> QED BY <1>1, <1>2, <1>3, Zenon

\* A chain that is elsewhere leaves an entry free in a ring.
LEMMA RoomInWindow ==
    ASSUME NEW ring \in Rings, NEW a \in Indices, NEW n \in 0..QueueSize, Distinct(ring, a, n),
           NEW head \in Heads, head \notin Window(ring, a, n)
    PROVE  n \in Heads
<1> DEFINE W == Window(ring, a, n)
<1>1. W \subseteq Heads /\ IsFiniteSet(W) /\ Cardinality(W) = n
  BY WindowSize, Zenon DEF Rings
<1> HIDE DEF W
<1>2. IsFiniteSet(Heads) /\ Cardinality(Heads) = QueueSize
  <2>1. 0 \in Int /\ QueueSize - 1 \in Int
        /\ (IF 0 > QueueSize - 1 THEN 0 ELSE QueueSize - 1 - 0 + 1) = QueueSize
    BY SpanIs
  <2> QED BY <2>1, FS_Interval, Zenon DEF Heads
<1>3. n \in Nat /\ n <= QueueSize
  BY SpanIs
<1>4. n # QueueSize
  <2>1. W # Heads BY Zenon DEF W
  <2> QED BY <1>1, <1>2, <2>1, FS_Subset, Zenon
<1>5. n < QueueSize
  BY <1>3, <1>4, SpanIs
<1> QED BY <1>3, <1>5, HeadsAre, Zenon


-----------------------------------------------------------------------------
(* The device                                                              *)

LEMMA ConsumeKeeps == SplitInv /\ ConsumeAvailable => SplitInv'
<1> SUFFICES ASSUME SplitInv, ConsumeAvailable PROVE SplitInv'
  OBVIOUS
<1> DEFINE c == available.ring[lastAvailable % QueueSize]
<1>0. SplitTypeOK /\ RingsInv /\ WakeInv
  BY Zenon DEF SplitInv
<1>t. /\ available.ring \in Rings /\ available.index \in Indices /\ lastAvailable \in Indices
      /\ decoded \subseteq Heads /\ Offered \in Nat
  BY <1>0, SplitTypes, Zenon
<1>1. /\ decoded' = decoded \union {c}
      /\ lastAvailable' = Successor(lastAvailable)
      /\ UNCHANGED <<eventIndex, available, used, isr, driver>>
      /\ available.index # lastAvailable
  BY Zenon DEF ConsumeAvailable, AdvanceAvailableIndex
<1>2. Offered > 0 /\ Offered' = Offered - 1
  BY <1>t, <1>1, DistanceShrinks, Zenon DEF Offered
<1>3. Offered \in 1..QueueSize /\ Offered <= QueueSize /\ Offered - 1 <= QueueSize
  <2>1. Offered <= QueueSize BY <1>0, Zenon DEF RingsInv
  <2> QED BY <1>t, <1>2, <2>1, SpanIs
<1>4. /\ c \in OfferedChains
      /\ OfferedChains' = OfferedChains \ {c}
      /\ Distinct(available.ring, lastAvailable', Offered')
  BY <1>0, <1>t, <1>1, <1>2, <1>3, WindowPop, Zenon DEF OfferedChains, RingsInv, Rings
<1>5. Waiting' = Waiting /\ ReturnedChains' = ReturnedChains
  BY <1>1, Zenon DEF Waiting, ReturnedChains
<1> HIDE DEF c
<1>6. RingsInv'
  <2>1. /\ Offered' <= QueueSize /\ Waiting' <= QueueSize
        /\ Distinct(available.ring, lastAvailable, Offered)'
        /\ Distinct(used.ring, driver.seen, Waiting)'
    BY <1>0, <1>1, <1>2, <1>3, <1>4, <1>5, Zenon DEF RingsInv
  <2>2. /\ (OfferedChains \intersect decoded = {})' /\ (decoded \intersect ReturnedChains = {})'
        /\ (OfferedChains \intersect ReturnedChains = {})'
        /\ (driver.inFlight = OfferedChains \union decoded \union ReturnedChains)'
    BY <1>0, <1>1, <1>4, <1>5 DEF RingsInv
  <2> QED BY <2>1, <2>2, Zenon DEF RingsInv
<1>7. SplitTypeOK'
  <2>1. c \in Heads
    <3>1. OfferedChains \subseteq Heads
      BY <1>0, <1>t, <1>3, WindowSize, SpanIs DEF OfferedChains, RingsInv, Rings
    <3> QED BY <1>4, <3>1
  <2>2. lastAvailable' \in Indices
    BY <1>t, <1>1, SuccessorIs, Zenon
  <2> QED BY <1>0, <1>1, <2>1, <2>2 DEF SplitTypeOK
<1>8. WakeInv'
  BY <1>0, <1>1, <1>5, Zenon DEF WakeInv, NoLostWakeUp
<1> QED BY <1>6, <1>7, <1>8, Zenon DEF SplitInv

LEMMA CompleteKeeps == \A head \in decoded : SplitInv /\ CompleteRequest(head) => SplitInv'
<1> SUFFICES ASSUME NEW head \in decoded, SplitInv, CompleteRequest(head) PROVE SplitInv'
  OBVIOUS
<1> DEFINE next == Successor(used.index)
           slot == used.index % QueueSize
<1>0. SplitTypeOK /\ RingsInv /\ WakeInv
  BY Zenon DEF SplitInv
<1>t. /\ used.ring \in Rings /\ used.index \in Indices /\ driver.seen \in Indices
      /\ decoded \subseteq Heads /\ Waiting \in Nat /\ driver.slack \in 0..QueueSize
      /\ available.usedEvent \in Indices
  BY <1>0, SplitTypes, Zenon
<1>1. /\ decoded' = decoded \ {head}
      /\ used' = [ring |-> [used.ring EXCEPT ![slot] = head], index |-> next]
      /\ isr' = (isr \/ CompletionInterruptEnabled(next))
      /\ UNCHANGED <<eventIndex, available, lastAvailable, driver>>
  BY Zenon DEF CompleteRequest, UsedSlot
<1>2. used'.ring = [used.ring EXCEPT ![slot] = head] /\ used'.index = next
  BY <1>1, Zenon
<1>3. head \in Heads /\ head \notin ReturnedChains
  BY <1>0, <1>t, Zenon DEF RingsInv
<1>4. Waiting \in Heads /\ Waiting + 1 <= QueueSize
  <2>1. Waiting \in 0..QueueSize
    <3>1. Waiting <= QueueSize BY <1>0, Zenon DEF RingsInv
    <3> QED BY <1>t, <3>1, SpanIs
  <2>2. Waiting \in Heads
    BY <1>0, <1>t, <1>3, <2>1, RoomInWindow, Zenon DEF RingsInv, ReturnedChains
  <2> QED BY <2>2, SpanIs DEF Heads
<1>5. Waiting' = Waiting + 1
  <2>1. Waiting + 1 < IndexSpan BY <1>t, <1>4, SpanIs
  <2> QED BY <1>t, <1>1, <1>2, <2>1, DistanceGrows, Zenon DEF Waiting
<1>6. slot = At(driver.seen, Waiting)
  BY <1>t, DistanceEnds, Zenon DEF At, Waiting
<1>7. /\ used'.ring \in Rings
      /\ ReturnedChains' = ReturnedChains \union {head}
      /\ Distinct(used'.ring, driver.seen', Waiting')
  <2> DEFINE ring == Stored(used.ring, At(driver.seen, Waiting), head)
  <2> HIDE DEF slot
  <2>1. /\ Distinct(used.ring, driver.seen, Waiting)
        /\ head \notin Window(used.ring, driver.seen, Waiting)
    BY <1>0, <1>3, Zenon DEF RingsInv, ReturnedChains
  <2>2. used.ring \in [Heads -> Heads]
    BY <1>t, Zenon DEF Rings
  <2>3. /\ ring \in [Heads -> Heads]
        /\ Window(ring, driver.seen, Waiting + 1)
              = Window(used.ring, driver.seen, Waiting) \union {head}
        /\ Distinct(ring, driver.seen, Waiting + 1)
    BY <1>t, <1>3, <1>4, <2>1, <2>2, WindowPush, Zenon
  <2> HIDE DEF ring
  <2>4. used'.ring = ring /\ driver'.seen = driver.seen
    BY <1>1, <1>2, <1>6, Zenon DEF ring, Stored
  <2> QED BY <1>5, <2>3, <2>4, Zenon DEF ReturnedChains, Rings
<1>8. Offered' = Offered /\ OfferedChains' = OfferedChains
  BY <1>1, Zenon DEF Offered, OfferedChains
<1>9. RingsInv'
  <2>1. /\ Offered' <= QueueSize /\ Waiting' <= QueueSize
        /\ Distinct(available.ring, lastAvailable, Offered)'
        /\ Distinct(used.ring, driver.seen, Waiting)'
    BY <1>0, <1>1, <1>4, <1>5, <1>7, <1>8, Zenon DEF RingsInv
  <2>2. /\ (OfferedChains \intersect decoded = {})' /\ (decoded \intersect ReturnedChains = {})'
        /\ (OfferedChains \intersect ReturnedChains = {})'
        /\ (driver.inFlight = OfferedChains \union decoded \union ReturnedChains)'
    <3> HIDE DEF next, slot
    <3> QED BY <1>0, <1>1, <1>7, <1>8 DEF RingsInv
  <2> QED BY <2>1, <2>2, Zenon DEF RingsInv
<1>10. SplitTypeOK'
  <2>1. used' \in [ring : Rings, index : Indices]
    <3>1. next \in Indices BY <1>t, SuccessorIs, Zenon
    <3>2. [used.ring EXCEPT ![slot] = head] \in Rings BY <1>2, <1>7, Zenon
    <3> DEFINE ring == [used.ring EXCEPT ![slot] = head]
    <3> HIDE DEF next, ring
    <3>3. used' = [ring |-> ring, index |-> next] BY <1>1, Zenon DEF ring
    <3>4. ring \in Rings BY <3>2, Zenon DEF ring
    <3> QED BY <3>1, <3>3, <3>4
  <2>2. isr' \in BOOLEAN BY <1>1, Zenon DEF CompletionInterruptEnabled
  <2>3. decoded' \subseteq Heads BY <1>1, <1>t, Zenon
  <2> QED BY <1>0, <1>1, <2>1, <2>2, <2>3, Zenon DEF SplitTypeOK
<1>11. WakeInv'
  <2>1. CASE driver.state # "Asleep" \/ isr
    BY <1>0, <1>1, <2>1, Zenon DEF WakeInv, NoLostWakeUp
  <2>2. CASE driver.state = "Asleep" /\ ~isr
    <3>1. ~(Waiting > driver.slack) /\ ~available.noInterrupt
          /\ available.usedEvent = (driver.seen + driver.slack) % IndexSpan
      BY <1>0, <2>2, Zenon DEF WakeInv, NoLostWakeUp
    <3>2. CASE Waiting = driver.slack
      <4>1. used.index = available.usedEvent
        BY <1>t, <3>1, <3>2, DistanceEnds, Zenon DEF Waiting
      <4>2. isr'
        BY <1>1, <3>1, <4>1, Zenon DEF CompletionInterruptEnabled
      <4> QED BY <1>0, <1>1, <4>2, Zenon DEF WakeInv, NoLostWakeUp
    <3>3. CASE Waiting # driver.slack
      <4>1. ~(Waiting' > driver.slack)
        BY <1>t, <1>5, <3>1, <3>3, SpanIs
      <4> QED BY <1>0, <1>1, <4>1, Zenon DEF WakeInv, NoLostWakeUp
    <3> QED BY <3>2, <3>3
  <2> QED BY <2>1, <2>2, <1>0 DEF SplitTypeOK
<1> QED BY <1>9, <1>10, <1>11, Zenon DEF SplitInv

LEMMA ReadIsrKeeps == SplitInv /\ ReadIsr => SplitInv'
<1> SUFFICES ASSUME SplitInv, ReadIsr PROVE SplitInv'
  OBVIOUS
<1>0. SplitTypeOK /\ RingsInv /\ WakeInv
  BY Zenon DEF SplitInv
<1>1. /\ driver' = [driver EXCEPT !.state = "Busy"] /\ isr' = FALSE
      /\ UNCHANGED <<eventIndex, available, used, lastAvailable, decoded>>
  BY Zenon DEF ReadIsr
<1>2. SplitTypeOK'
  <2>1. driver' \in [state : {"Busy", "Checking", "Asleep"}, seen : Indices,
                     slack : 0..QueueSize, inFlight : SUBSET Heads]
    BY <1>0, <1>1, Zenon DEF SplitTypeOK
  <2>2. isr' \in BOOLEAN
    BY <1>1, Zenon
  <2> QED BY <1>0, <1>1, <2>1, <2>2, Zenon DEF SplitTypeOK
<1>3. driver'.state = "Busy" /\ driver'.seen = driver.seen /\ driver'.inFlight = driver.inFlight
  BY <1>0, <1>1 DEF SplitTypeOK
<1>4. RingsInv'
  BY <1>0, <1>1, <1>3, Zenon
     DEF RingsInv, Offered, Waiting, OfferedChains, ReturnedChains
<1>5. WakeInv'
  BY <1>3, Zenon DEF WakeInv, NoLostWakeUp
<1> QED BY <1>2, <1>4, <1>5, Zenon DEF SplitInv


-----------------------------------------------------------------------------
(* The driver                                                              *)

LEMMA PostKeeps == \A head \in Heads : SplitInv /\ Post(head) => SplitInv'
<1> SUFFICES ASSUME NEW head \in Heads, SplitInv, Post(head) PROVE SplitInv'
  OBVIOUS
<1> DEFINE slot == available.index % QueueSize
<1>0. SplitTypeOK /\ RingsInv /\ WakeInv
  BY Zenon DEF SplitInv
<1>t. /\ available.ring \in Rings /\ available.index \in Indices /\ lastAvailable \in Indices
      /\ Offered \in Nat
  BY <1>0, SplitTypes, Zenon
<1>1. /\ head \notin driver.inFlight
      /\ available' = [available EXCEPT !.ring[slot] = head, !.index = Successor(@)]
      /\ driver' = [driver EXCEPT !.inFlight = @ \union {head}]
      /\ UNCHANGED <<eventIndex, used, lastAvailable, decoded, isr>>
  BY Zenon DEF Post
<1>2. /\ available'.ring = [available.ring EXCEPT ![slot] = head]
      /\ available'.index = Successor(available.index)
      /\ available'.noInterrupt = available.noInterrupt
      /\ available'.usedEvent = available.usedEvent
      /\ available' = [ring |-> available'.ring, index |-> available'.index,
                       noInterrupt |-> available'.noInterrupt, usedEvent |-> available'.usedEvent]
  <2> HIDE DEF slot
  <2>1. available \in [ring : Rings, index : Indices, noInterrupt : BOOLEAN, usedEvent : Indices]
    BY <1>0, Zenon DEF SplitTypeOK
  <2> QED BY <1>1, <2>1, Zenon
<1>3. /\ driver'.inFlight = driver.inFlight \union {head}
      /\ driver'.seen = driver.seen /\ driver'.state = driver.state
      /\ driver'.slack = driver.slack
  BY <1>0, <1>1 DEF SplitTypeOK
<1>4. head \notin OfferedChains /\ head \notin decoded /\ head \notin ReturnedChains
  BY <1>0, <1>1, Zenon DEF RingsInv
<1>5. Offered \in Heads /\ Offered + 1 <= QueueSize
  <2>1. Offered \in 0..QueueSize
    <3>1. Offered <= QueueSize BY <1>0, Zenon DEF RingsInv
    <3> QED BY <1>t, <3>1, SpanIs
  <2>2. Offered \in Heads
    BY <1>0, <1>t, <1>4, <2>1, RoomInWindow, Zenon DEF RingsInv, OfferedChains
  <2> QED BY <2>2, SpanIs DEF Heads
<1>6. Offered' = Offered + 1
  <2>1. Offered + 1 < IndexSpan BY <1>t, <1>5, SpanIs
  <2> QED BY <1>t, <1>1, <1>2, <2>1, DistanceGrows, Zenon DEF Offered
<1>7. slot = At(lastAvailable, Offered)
  BY <1>t, DistanceEnds, Zenon DEF At, Offered
<1> HIDE DEF slot
<1>8. /\ available'.ring \in Rings
      /\ OfferedChains' = OfferedChains \union {head}
      /\ Distinct(available'.ring, lastAvailable', Offered')
  <2> DEFINE ring == Stored(available.ring, At(lastAvailable, Offered), head)
  <2>1. /\ Distinct(available.ring, lastAvailable, Offered)
        /\ head \notin Window(available.ring, lastAvailable, Offered)
    BY <1>0, <1>4, Zenon DEF RingsInv, OfferedChains
  <2>2. available.ring \in [Heads -> Heads]
    BY <1>t, Zenon DEF Rings
  <2>3. /\ ring \in [Heads -> Heads]
        /\ Window(ring, lastAvailable, Offered + 1)
              = Window(available.ring, lastAvailable, Offered) \union {head}
        /\ Distinct(ring, lastAvailable, Offered + 1)
    BY <1>t, <1>5, <2>1, <2>2, WindowPush, Zenon
  <2> HIDE DEF ring
  <2>4. available'.ring = ring /\ lastAvailable' = lastAvailable
    BY <1>1, <1>2, <1>7, Zenon DEF ring, Stored
  <2> QED BY <1>6, <2>3, <2>4, Zenon DEF OfferedChains, Rings
<1>9. Waiting' = Waiting /\ ReturnedChains' = ReturnedChains
  BY <1>1, <1>3, Zenon DEF Waiting, ReturnedChains
<1>10. RingsInv'
  <2>1. /\ Offered' <= QueueSize /\ Waiting' <= QueueSize
        /\ Distinct(available.ring, lastAvailable, Offered)'
        /\ Distinct(used.ring, driver.seen, Waiting)'
    BY <1>0, <1>1, <1>3, <1>5, <1>6, <1>8, <1>9, Zenon DEF RingsInv
  <2>2. /\ (OfferedChains \intersect decoded = {})' /\ (decoded \intersect ReturnedChains = {})'
        /\ (OfferedChains \intersect ReturnedChains = {})'
        /\ (driver.inFlight = OfferedChains \union decoded \union ReturnedChains)'
    <3>1. decoded' = decoded BY <1>1, Zenon
    <3> QED BY <1>0, <1>3, <1>4, <1>8, <1>9, <3>1 DEF RingsInv
  <2> QED BY <2>1, <2>2, Zenon DEF RingsInv
<1>11. SplitTypeOK'
  <2>1. Successor(available.index) \in Indices BY <1>t, SuccessorIs, Zenon
  <2>2. available' \in [ring : Rings, index : Indices, noInterrupt : BOOLEAN, usedEvent : Indices]
    BY <1>0, <1>2, <1>8, <2>1 DEF SplitTypeOK
  <2>3. driver' \in [state : {"Busy", "Checking", "Asleep"}, seen : Indices,
                     slack : 0..QueueSize, inFlight : SUBSET Heads]
    BY <1>0, <1>1 DEF SplitTypeOK
  <2> QED BY <1>0, <1>1, <2>2, <2>3, Zenon DEF SplitTypeOK
<1>12. WakeInv'
  BY <1>0, <1>1, <1>2, <1>3, <1>9, Zenon DEF WakeInv, NoLostWakeUp
<1> QED BY <1>10, <1>11, <1>12, Zenon DEF SplitInv

LEMMA ReapKeeps == SplitInv /\ Reap => SplitInv'
<1> SUFFICES ASSUME SplitInv, Reap PROVE SplitInv'
  OBVIOUS
<1> DEFINE c == used.ring[driver.seen % QueueSize]
<1>0. SplitTypeOK /\ RingsInv /\ WakeInv
  BY Zenon DEF SplitInv
<1>t. /\ used.ring \in Rings /\ used.index \in Indices /\ driver.seen \in Indices
      /\ Waiting \in Nat
  BY <1>0, SplitTypes, Zenon
<1>1. /\ driver.state = "Busy" /\ driver.seen # used.index
      /\ driver' = [driver EXCEPT !.seen = Successor(@), !.inFlight = @ \ {c}]
      /\ UNCHANGED <<eventIndex, available, used, lastAvailable, decoded, isr>>
  BY Zenon DEF Reap
<1>2. /\ driver'.inFlight = driver.inFlight \ {c}
      /\ driver'.seen = Successor(driver.seen) /\ driver'.state = "Busy"
  <2> HIDE DEF c
  <2> QED BY <1>0, <1>1 DEF SplitTypeOK
<1>3. Waiting > 0 /\ Waiting' = Waiting - 1
  BY <1>t, <1>1, <1>2, DistanceShrinks, Zenon DEF Waiting
<1>4. Waiting \in 1..QueueSize /\ Waiting - 1 <= QueueSize
  <2>1. Waiting <= QueueSize BY <1>0, Zenon DEF RingsInv
  <2> QED BY <1>t, <1>3, <2>1, SpanIs
<1>5. /\ c \in ReturnedChains
      /\ ReturnedChains' = ReturnedChains \ {c}
      /\ Distinct(used'.ring, driver'.seen, Waiting')
  BY <1>0, <1>t, <1>1, <1>2, <1>3, <1>4, WindowPop, Zenon DEF ReturnedChains, RingsInv, Rings
<1>6. Offered' = Offered /\ OfferedChains' = OfferedChains
  BY <1>1, Zenon DEF Offered, OfferedChains
<1> HIDE DEF c
<1>7. RingsInv'
  <2>1. /\ Offered' <= QueueSize /\ Waiting' <= QueueSize
        /\ Distinct(available.ring, lastAvailable, Offered)'
        /\ Distinct(used.ring, driver.seen, Waiting)'
    BY <1>0, <1>1, <1>3, <1>4, <1>5, <1>6, Zenon DEF RingsInv
  <2>2. /\ (OfferedChains \intersect decoded = {})' /\ (decoded \intersect ReturnedChains = {})'
        /\ (OfferedChains \intersect ReturnedChains = {})'
        /\ (driver.inFlight = OfferedChains \union decoded \union ReturnedChains)'
    <3>1. decoded' = decoded BY <1>1, Zenon
    <3> QED BY <1>0, <1>2, <1>5, <1>6, <3>1 DEF RingsInv
  <2> QED BY <2>1, <2>2, Zenon DEF RingsInv
<1>8. SplitTypeOK'
  <2>1. Successor(driver.seen) \in Indices BY <1>t, SuccessorIs, Zenon
  <2>2. driver' \in [state : {"Busy", "Checking", "Asleep"}, seen : Indices,
                     slack : 0..QueueSize, inFlight : SUBSET Heads]
    <3>1. driver \in [state : {"Busy", "Checking", "Asleep"}, seen : Indices,
                      slack : 0..QueueSize, inFlight : SUBSET Heads]
      BY <1>0, Zenon DEF SplitTypeOK
    <3> QED BY <1>1, <2>1, <3>1, Zenon
  <2> QED BY <1>0, <1>1, <2>2, Zenon DEF SplitTypeOK
<1>9. WakeInv'
  BY <1>2, Zenon DEF WakeInv, NoLostWakeUp
<1> QED BY <1>7, <1>8, <1>9, Zenon DEF SplitInv

\* What the driver does beside the rings leaves the chains where they are.
LEMMA RingsUntouched ==
    ASSUME RingsInv, UNCHANGED <<used, lastAvailable, decoded>>,
           available'.ring = available.ring, available'.index = available.index,
           driver'.seen = driver.seen, driver'.inFlight = driver.inFlight
    PROVE  RingsInv' /\ Waiting' = Waiting
BY Zenon DEF RingsInv, Offered, Waiting, OfferedChains, ReturnedChains

LEMMA SuppressKeeps == SplitInv /\ Suppress => SplitInv'
<1> SUFFICES ASSUME SplitInv, Suppress PROVE SplitInv'
  OBVIOUS
<1>0. SplitTypeOK /\ RingsInv /\ WakeInv
  BY Zenon DEF SplitInv
<1>1. /\ driver.state = "Busy" /\ available' = [available EXCEPT !.noInterrupt = TRUE]
      /\ UNCHANGED <<eventIndex, used, lastAvailable, decoded, isr, driver>>
  BY Zenon DEF Suppress
<1>2. SplitTypeOK' /\ available'.ring = available.ring /\ available'.index = available.index
  <2>1. available \in [ring : Rings, index : Indices, noInterrupt : BOOLEAN, usedEvent : Indices]
    BY <1>0, Zenon DEF SplitTypeOK
  <2>2. /\ available' \in [ring : Rings, index : Indices, noInterrupt : BOOLEAN, usedEvent : Indices]
        /\ available'.ring = available.ring /\ available'.index = available.index
    BY <1>1, <2>1, Zenon
  <2> QED BY <1>0, <1>1, <2>2, Zenon DEF SplitTypeOK
<1>3. RingsInv'
  BY <1>0, <1>1, <1>2, RingsUntouched, Zenon
<1>4. WakeInv'
  BY <1>1, Zenon DEF WakeInv, NoLostWakeUp
<1> QED BY <1>2, <1>3, <1>4, Zenon DEF SplitInv

LEMMA ArmKeeps == \A slack \in 0..QueueSize : SplitInv /\ Arm(slack) => SplitInv'
<1> SUFFICES ASSUME NEW slack \in 0..QueueSize, SplitInv, Arm(slack) PROVE SplitInv'
  OBVIOUS
<1> DEFINE mark == (driver.seen + slack) % IndexSpan
<1>0. SplitTypeOK /\ RingsInv /\ WakeInv
  BY Zenon DEF SplitInv
<1>1. /\ driver' = [driver EXCEPT !.state = "Checking", !.slack = slack]
      /\ available' = [available EXCEPT !.noInterrupt = FALSE, !.usedEvent = mark]
      /\ UNCHANGED <<eventIndex, used, lastAvailable, decoded, isr>>
  BY Zenon DEF Arm
<1>2. mark \in Indices
  <2>1. driver.seen \in Indices BY <1>0, SplitTypes, Zenon
  <2>2. driver.seen + slack \in Nat BY <2>1, SpanIs DEF Indices
  <2> QED BY <2>2, SpanIs DEF Indices
<1> HIDE DEF mark
<1>3. /\ SplitTypeOK'
      /\ available'.ring = available.ring /\ available'.index = available.index
      /\ ~available'.noInterrupt /\ available'.usedEvent = mark
      /\ driver'.seen = driver.seen /\ driver'.inFlight = driver.inFlight
      /\ driver'.slack = slack /\ driver'.state = "Checking"
  <2>1. /\ available \in [ring : Rings, index : Indices, noInterrupt : BOOLEAN, usedEvent : Indices]
        /\ driver \in [state : {"Busy", "Checking", "Asleep"}, seen : Indices,
                        slack : 0..QueueSize, inFlight : SUBSET Heads]
    BY <1>0, Zenon DEF SplitTypeOK
  <2>2. /\ available' \in [ring : Rings, index : Indices, noInterrupt : BOOLEAN, usedEvent : Indices]
        /\ available'.ring = available.ring /\ available'.index = available.index
        /\ ~available'.noInterrupt /\ available'.usedEvent = mark
    BY <1>1, <1>2, <2>1, Zenon
  <2>3. /\ driver' \in [state : {"Busy", "Checking", "Asleep"}, seen : Indices,
                         slack : 0..QueueSize, inFlight : SUBSET Heads]
        /\ driver'.seen = driver.seen /\ driver'.inFlight = driver.inFlight
        /\ driver'.slack = slack /\ driver'.state = "Checking"
    BY <1>1, <2>1, Zenon
  <2> QED BY <1>0, <1>1, <2>2, <2>3, Zenon DEF SplitTypeOK
<1>4. RingsInv'
  BY <1>0, <1>1, <1>3, RingsUntouched, Zenon
<1>5. WakeInv'
  BY <1>3, Zenon DEF WakeInv, NoLostWakeUp, mark
<1> QED BY <1>3, <1>4, <1>5, Zenon DEF SplitInv

LEMMA RecheckKeeps == SplitInv /\ Recheck => SplitInv'
<1> SUFFICES ASSUME SplitInv, Recheck PROVE SplitInv'
  OBVIOUS
<1>0. SplitTypeOK /\ RingsInv /\ WakeInv
  BY Zenon DEF SplitInv
<1> DEFINE state == IF Waiting > driver.slack THEN "Busy" ELSE "Asleep"
<1>1. /\ driver.state = "Checking" /\ driver' = [driver EXCEPT !.state = state]
      /\ UNCHANGED <<eventIndex, available, used, lastAvailable, decoded, isr>>
  BY Zenon DEF Recheck
<1>2. state \in {"Busy", "Asleep"} /\ (state = "Asleep" => ~(Waiting > driver.slack))
  OBVIOUS
<1> HIDE DEF state
<1>3. /\ SplitTypeOK'
      /\ driver'.seen = driver.seen /\ driver'.inFlight = driver.inFlight
      /\ driver'.slack = driver.slack /\ driver'.state = state
  <2>1. driver \in [state : {"Busy", "Checking", "Asleep"}, seen : Indices,
                    slack : 0..QueueSize, inFlight : SUBSET Heads]
    BY <1>0, Zenon DEF SplitTypeOK
  <2>2. /\ driver' \in [state : {"Busy", "Checking", "Asleep"}, seen : Indices,
                         slack : 0..QueueSize, inFlight : SUBSET Heads]
        /\ driver'.seen = driver.seen /\ driver'.inFlight = driver.inFlight
        /\ driver'.slack = driver.slack /\ driver'.state = state
    BY <1>1, <1>2, <2>1, Zenon
  <2> QED BY <1>0, <1>1, <2>2, Zenon DEF SplitTypeOK
<1>4. RingsInv' /\ Waiting' = Waiting
  BY <1>0, <1>1, <1>3, RingsUntouched, Zenon
<1>5. WakeInv'
  BY <1>0, <1>1, <1>2, <1>3, <1>4, Zenon DEF WakeInv, NoLostWakeUp
<1> QED BY <1>3, <1>4, <1>5, Zenon DEF SplitInv


-----------------------------------------------------------------------------
(* Every reachable state                                                   *)

LEMMA EmptyWindow == \A ring, a : Window(ring, a, 0) = {} /\ Distinct(ring, a, 0)
<1>1. \A i \in Heads : ~(i < 0) BY SpanIs DEF Heads
<1> QED BY <1>1, Zenon DEF Window, Distinct

LEMMA SplitStarts == SplitInit => SplitInv
<1> SUFFICES ASSUME SplitInit PROVE SplitInv
  OBVIOUS
<1>1. 0 \in Indices /\ 0 \in Heads /\ 0 \in 0..QueueSize /\ 0 <= QueueSize
  BY SpanIs DEF Indices, Heads
<1>2. /\ available.index = 0 /\ used.index = 0 /\ lastAvailable = 0 /\ driver.seen = 0
      /\ driver.state = "Busy" /\ driver.inFlight = {} /\ decoded = {}
  BY Zenon DEF SplitInit
<1>3. Distance(0, 0) = 0
  BY SpanIs, SMTT(30) DEF Distance
<1>4. Offered = 0 /\ Waiting = 0
  BY <1>2, <1>3, Zenon DEF Offered, Waiting
<1>5. SplitTypeOK
  <2>1. [h \in Heads |-> 0] \in Rings BY <1>1, Zenon DEF Rings
  <2>2. {} \subseteq Heads OBVIOUS
  <2>3. driver \in [state : {"Busy", "Checking", "Asleep"}, seen : Indices,
                    slack : 0..QueueSize, inFlight : SUBSET Heads]
    BY <1>1, <2>2, Zenon DEF SplitInit
  <2>4. /\ available \in [ring : Rings, index : Indices, noInterrupt : BOOLEAN, usedEvent : Indices]
        /\ used \in [ring : Rings, index : Indices]
    BY <1>1, <2>1, Zenon DEF SplitInit
  <2> QED BY <1>1, <1>2, <2>2, <2>3, <2>4, Zenon DEF SplitInit, SplitTypeOK
<1>6. RingsInv
  <2>1. OfferedChains = {} /\ ReturnedChains = {}
    BY <1>4, EmptyWindow, Zenon DEF OfferedChains, ReturnedChains
  <2>2. /\ Distinct(available.ring, lastAvailable, Offered)
        /\ Distinct(used.ring, driver.seen, Waiting)
    BY <1>4, EmptyWindow, Zenon
  <2> QED BY <1>1, <1>2, <1>4, <2>1, <2>2, Zenon DEF RingsInv
<1>7. WakeInv
  BY <1>2, Zenon DEF WakeInv, NoLostWakeUp
<1> QED BY <1>5, <1>6, <1>7, Zenon DEF SplitInv

LEMMA SplitIdles == SplitInv /\ UNCHANGED splitVars => SplitInv'
<1> SUFFICES ASSUME SplitInv, UNCHANGED splitVars PROVE SplitInv'
  OBVIOUS
<1>1. UNCHANGED <<eventIndex, available, used, lastAvailable, decoded, isr, driver>>
  BY Zenon DEF splitVars
<1>2. SplitTypeOK /\ RingsInv /\ WakeInv
  BY Zenon DEF SplitInv
<1>3. RingsInv' /\ Waiting' = Waiting
  BY <1>1, <1>2, RingsUntouched, Zenon
<1>4. SplitTypeOK'
  BY <1>1, <1>2, Zenon DEF SplitTypeOK
<1>5. WakeInv'
  BY <1>1, <1>2, <1>3, Zenon DEF WakeInv, NoLostWakeUp
<1> QED BY <1>3, <1>4, <1>5, Zenon DEF SplitInv

LEMMA SplitInvHolds == SplitSpec => []SplitInv
<1>1. SplitInv /\ [SplitNext]_splitVars => SplitInv'
  BY ConsumeKeeps, CompleteKeeps, ReadIsrKeeps, PostKeeps, ReapKeeps, SuppressKeeps, ArmKeeps,
     RecheckKeeps, SplitIdles, Zenon DEF SplitNext
<1> QED BY <1>1, SplitStarts, PTL DEF SplitSpec

\* No wake-up is lost, for queues of any size: a driver that went to sleep after its second look
\* at the used index, and has more elements waiting than its used_event mark allows, finds the
\* ISR set by completion_interrupt_enabled, wherever the 16-bit indices wrap.
THEOREM SplitWakesDriver == SplitSpec => []NoLostWakeUp
<1>1. SplitInv => NoLostWakeUp
  BY Zenon DEF SplitInv, WakeInv
<1> QED BY <1>1, SplitInvHolds, PTL

LEMMA CardinalityAdds ==
    ASSUME NEW S, NEW T, IsFiniteSet(S), IsFiniteSet(T), S \intersect T = {}
    PROVE  IsFiniteSet(S \union T) /\ Cardinality(S \union T) = Cardinality(S) + Cardinality(T)
<1>1. Cardinality(S) \in Nat /\ Cardinality(T) \in Nat
  BY FS_CardinalityType, Zenon
<1>2. /\ IsFiniteSet(S \union T)
      /\ Cardinality(S \union T) = Cardinality(S) + Cardinality(T) - Cardinality(S \intersect T)
  BY FS_Union, Zenon
<1>3. Cardinality(S \intersect T) = 0
  BY FS_EmptySet, Zenon
<1> QED BY <1>1, <1>2, <1>3

LEMMA ChainsApart == SplitInv => ChainsKept
<1> SUFFICES ASSUME SplitInv PROVE ChainsKept
  OBVIOUS
<1>0. SplitTypeOK /\ RingsInv
  BY Zenon DEF SplitInv
<1>t. /\ available.ring \in [Heads -> Heads] /\ lastAvailable \in Indices
      /\ used.ring \in [Heads -> Heads] /\ driver.seen \in Indices
      /\ decoded \subseteq Heads /\ Offered \in Nat /\ Waiting \in Nat
  BY <1>0, SplitTypes, Zenon DEF Rings
<1>1. Offered \in 0..QueueSize /\ Waiting \in 0..QueueSize
  <2>1. Offered <= QueueSize /\ Waiting <= QueueSize BY <1>0, Zenon DEF RingsInv
  <2> QED BY <1>t, <2>1, SpanIs
<1>2. /\ IsFiniteSet(OfferedChains) /\ Cardinality(OfferedChains) = Offered
      /\ IsFiniteSet(ReturnedChains) /\ Cardinality(ReturnedChains) = Waiting
  BY <1>0, <1>t, <1>1, WindowSize, Zenon DEF RingsInv, OfferedChains, ReturnedChains
<1>3. IsFiniteSet(decoded)
  <2>1. IsFiniteSet(Heads) BY SpanIs, FS_Interval DEF Heads
  <2> QED BY <1>t, <2>1, FS_Subset, Zenon
<1>4. driver.inFlight = OfferedChains \union decoded \union ReturnedChains
  BY <1>0, Zenon DEF RingsInv
<1>5. Cardinality(driver.inFlight) = Offered + Cardinality(decoded) + Waiting
  <2> DEFINE held == OfferedChains \union decoded
  <2>1. /\ OfferedChains \intersect decoded = {} /\ held \intersect ReturnedChains = {}
    BY <1>0, Zenon DEF RingsInv
  <2>2. IsFiniteSet(held) /\ Cardinality(held) = Offered + Cardinality(decoded)
    BY <1>2, <1>3, <2>1, CardinalityAdds, Zenon
  <2>3. Cardinality(held \union ReturnedChains) = Cardinality(held) + Waiting
    <3> HIDE DEF held
    <3> QED BY <1>2, <2>1, <2>2, CardinalityAdds, Zenon
  <2>4. driver.inFlight = held \union ReturnedChains BY <1>4, Zenon
  <2> HIDE DEF held
  <2> QED BY <2>2, <2>3, <2>4, Zenon
<1> QED BY <1>4, <1>5, Zenon DEF ChainsKept, OfferedChains, ReturnedChains, Offered, Window, At

\* Every chain in flight is on the available ring, with the device or on the used ring, once, for
\* queues of any size: push_used and the driver's own pushes overwrite no entry that is unread.
THEOREM SplitKeepsChains == SplitSpec => []ChainsKept
BY ChainsApart, SplitInvHolds, PTL
=============================================================================
