---------------------------- MODULE Sp805Watchdog ---------------------------
(***************************************************************************)
(* The SP805 watchdog behind its MMIO registers: the counter, which is     *)
(* only a start tick, the timeout event each restart of the counter leaves *)
(* in the scheduler, and the interrupt line.  The second timeout without   *)
(* an answer to the first asserts the reset output.                        *)
(***************************************************************************)
EXTENDS InterruptController, Sequences

CONSTANTS
    WatchdogLine,     \* the line of the device
    WatchClock,       \* clock_tick: ticks of a cycle of the counter
    DefaultInterval,  \* DEFAULT_TIMEOUT_INTERVAL, the largest value of LOAD
    WatchLoads,       \* values written to LOAD
    MaxWatchTick,     \* bound: ticks
    MaxGeneration,    \* bound: restarts and stops of the counter
    MaxWatchEdges     \* bound: signals of the line under way

ASSUME WatchAssumption ==
    /\ WatchdogLine \in InterruptLines
    /\ WatchClock \in Nat \ {0}
    /\ WatchLoads \subseteq 0..DefaultInterval
    /\ DefaultInterval \in Nat /\ MaxWatchTick \in Nat

VARIABLES
    watchTick,      \* the partition's tick
    watchdog,       \* interval, start, persisted, enabled, reset, writable, raw, generation
    timeouts,       \* scheduled timeout events: [tick, generation]
    watchEdges,     \* signals of the line under way, oldest first
    watchLines,     \* the InterruptController
    raisedAt,       \* ghost: when the raw interrupt was last raised
    resets          \* reset_assertions, with the interval and raisedAt of the time

watchVars == <<watchTick, watchdog, timeouts, watchEdges, watchLines, raisedAt, resets>>

NotCounting == MaxWatchTick + 1   \* timeout_start_tick of a counter that is stopped

WatchInit ==
    /\ watchTick = 0
    /\ watchdog = [interval |-> DefaultInterval, start |-> NotCounting,
                   persisted |-> DefaultInterval, enabled |-> FALSE, reset |-> FALSE,
                   writable |-> TRUE, raw |-> FALSE, generation |-> 0]
    /\ timeouts = {}
    /\ watchEdges = <<>>
    /\ watchLines = NewController
    /\ raisedAt = 0
    /\ resets = {}

Interval(w) == WatchClock * (IF w.interval = 0 THEN 1 ELSE w.interval)

\* current_value, a saturating difference
CurrentValue(w) ==
    LET elapsed == (watchTick - w.start) \div WatchClock
    IN  IF w.start = NotCounting THEN w.persisted
        ELSE IF elapsed >= w.interval THEN 0 ELSE w.interval - elapsed

RestartCounter(w) ==
    [w EXCEPT !.start = watchTick, !.persisted = w.interval, !.generation = @ + 1]

StopCounter(w) ==
    [w EXCEPT !.start = NotCounting, !.persisted = CurrentValue(w), !.generation = @ + 1]

\* schedule_timeout_generation of the state's own generation, with next_timeout_tick
Scheduled(w) ==
    timeouts \union {[tick |-> w.start + Interval(w), generation |-> w.generation]}

Free == watchdog.generation < MaxGeneration /\ Len(watchEdges) < MaxWatchEdges

-----------------------------------------------------------------------------
WriteLock(open) ==
    /\ watchdog' = [watchdog EXCEPT !.writable = open]
    /\ UNCHANGED <<watchTick, timeouts, watchEdges, watchLines, raisedAt, resets>>

\* mutant: the counter is restarted, but its timeout is not scheduled
MutantWriteLoad(value) ==
    LET loaded == [watchdog EXCEPT !.interval = value, !.persisted = value]
    IN  /\ Free /\ watchdog.writable
        /\ watchdog' = IF watchdog.enabled THEN RestartCounter(loaded) ELSE loaded
        /\ UNCHANGED <<watchTick, timeouts, watchEdges, watchLines, raisedAt, resets>>

\* write_register of LOAD; a write to a locked device is answered and ignored
WriteLoad(value) ==
    LET loaded == [watchdog EXCEPT !.interval = value, !.persisted = value]
    IN  /\ Free /\ watchdog.writable
        /\ IF watchdog.enabled
             THEN /\ watchdog' = RestartCounter(loaded)
                  /\ timeouts' = Scheduled(RestartCounter(loaded))
             ELSE watchdog' = loaded /\ UNCHANGED timeouts
        /\ UNCHANGED <<watchTick, watchEdges, watchLines, raisedAt, resets>>

\* write_register of CONTROL
WriteControl(enable, reset) ==
    LET set == [watchdog EXCEPT !.enabled = enable, !.reset = reset]
    IN  /\ Free /\ watchdog.writable
        /\ CASE enable /\ ~watchdog.enabled ->
                    /\ watchdog' = RestartCounter(set)
                    /\ timeouts' = Scheduled(RestartCounter(set))
             [] ~enable /\ watchdog.enabled ->
                    watchdog' = StopCounter(set) /\ UNCHANGED timeouts
             [] enable = watchdog.enabled ->
                    watchdog' = set /\ UNCHANGED timeouts
        /\ UNCHANGED <<watchTick, watchEdges, watchLines, raisedAt, resets>>

ClearEdges == IF watchdog.raw THEN Append(watchEdges, "Deassert") ELSE watchEdges

\* write_register of INT_CLEAR
WriteIntClear ==
    LET cleared == [watchdog EXCEPT !.raw = FALSE]
    IN  /\ Free /\ watchdog.writable
        /\ watchEdges' = ClearEdges
        /\ IF watchdog.enabled
             THEN /\ watchdog' = RestartCounter(cleared)
                  /\ timeouts' = Scheduled(RestartCounter(cleared))
             ELSE watchdog' = cleared /\ UNCHANGED timeouts
        /\ UNCHANGED <<watchTick, watchLines, raisedAt, resets>>

\* mutant: the timeout of an earlier start still counts
MutantTimeoutCurrent(generation) == watchdog.enabled

\* the early return of record_timeout
TimeoutCurrent(generation) == watchdog.generation = generation /\ watchdog.enabled

\* fire_timeout, with record_timeout
FireTimeout(event) ==
    LET next == RestartCounter([watchdog EXCEPT !.raw = TRUE])
    IN  /\ event.tick = watchTick
        /\ IF TimeoutCurrent(event.generation)
             THEN /\ Free
                  /\ watchdog' = next
                  /\ timeouts' = Scheduled(next) \ {event}
                  /\ watchEdges' = IF watchdog.raw THEN watchEdges
                                                   ELSE Append(watchEdges, "Assert")
                  /\ raisedAt' = IF watchdog.raw THEN raisedAt ELSE watchTick
                  /\ resets' = IF watchdog.raw /\ watchdog.reset
                                 THEN resets \union {[tick |-> watchTick, raised |-> raisedAt,
                                                      interval |-> Interval(watchdog)]}
                                 ELSE resets
             ELSE /\ timeouts' = timeouts \ {event}
                  /\ UNCHANGED <<watchdog, watchEdges, raisedAt, resets>>
        /\ UNCHANGED <<watchTick, watchLines>>

WatchDeliver ==
    /\ watchEdges # <<>>
    /\ watchLines' = ApplyDelivery(watchLines, WatchdogLine, WatchdogLine, Head(watchEdges))
    /\ watchEdges' = Tail(watchEdges)
    /\ UNCHANGED <<watchTick, watchdog, timeouts, raisedAt, resets>>

\* the scheduler leaves a tick when its events have run (external)
WatchAdvance ==
    /\ watchTick < MaxWatchTick
    /\ \A event \in timeouts : event.tick > watchTick
    /\ watchTick' = watchTick + 1
    /\ UNCHANGED <<watchdog, timeouts, watchEdges, watchLines, raisedAt, resets>>

WatchNext ==
    \/ \E open \in BOOLEAN : WriteLock(open)
    \/ \E value \in WatchLoads : WriteLoad(value)
    \/ \E enable, reset \in BOOLEAN : WriteControl(enable, reset)
    \/ WriteIntClear
    \/ \E event \in timeouts : FireTimeout(event)
    \/ WatchDeliver
    \/ WatchAdvance

WatchSpec == WatchInit /\ [][WatchNext]_watchVars

-----------------------------------------------------------------------------
\* The registers tell the guest the truth.  A counting watchdog always has exactly one timeout
\* that will count, and VALUE is the cycles left, rounded up, until that event: restarts by
\* LOAD, CONTROL, INT_CLEAR and by a timeout leave older events behind, which never count; a
\* stopped one has none.  Once its signals have arrived the line is pending exactly when
\* RAW_ISR reads 1.
RegistersTellTruth ==
    LET current == {event \in timeouts : event.generation = watchdog.generation}
    IN  /\ IF watchdog.enabled
             THEN \E event \in current :
                      /\ current = {event}
                      /\ watchdog.interval > 0 =>
                             CurrentValue(watchdog)
                                 = (event.tick - watchTick + WatchClock - 1) \div WatchClock
             ELSE current = {}
        /\ watchEdges = <<>> => (Pending(watchLines, WatchdogLine) <=> watchdog.raw)

\* The guest is given a whole interval to answer: the reset output is asserted no sooner than
\* the interval in force after the interrupt was raised, whatever was written in between.
NoEarlyReset == \A r \in resets : r.tick >= r.raised + r.interval

=============================================================================
