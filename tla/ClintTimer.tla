----------------------------- MODULE ClintTimer -----------------------------
(***************************************************************************)
(* One hart of the CLINT: the software interrupt bit, the timer with its   *)
(* deadline, the deadline event each program of the timer leaves in the    *)
(* scheduler, and the two interrupt lines.  Under the scheduler timebase   *)
(* the time is the scheduler's tick; under the RTC timebase it counts the  *)
(* pulses of the RTC source.                                               *)
(***************************************************************************)
EXTENDS InterruptController, Sequences

CONSTANTS
    TimerLine,     \* the hart's timer line
    SoftwareLine,  \* the hart's software line
    ResetValues,   \* ClintResetPolicy: a value for mtimecmp, or NoReset to preserve it
    NoReset,
    NoDeadline,    \* u64::MAX, after every tick
    MaxClintTick,  \* bound: ticks and deadlines
    MaxPrograms,   \* bound: programs and resets of the timer
    MaxEdges       \* bound: signals of a line under way

ASSUME ClintAssumption ==
    /\ {TimerLine, SoftwareLine} \subseteq InterruptLines /\ TimerLine # SoftwareLine
    /\ ResetValues \subseteq Nat \union {NoReset}
    /\ MaxClintTick \in Nat
    /\ NoDeadline \in Nat /\ NoDeadline > MaxClintTick

VARIABLES
    timebase,      \* "SchedulerTicks" or "RtcDriven"
    resetPolicy,   \* one of ResetValues
    clintTick,     \* the scheduler's tick
    rtc,           \* ClintTimeState::mtime
    hartState,     \* ClintHartState: msip, mtimecmp, generation, asserted
    deadlines,     \* scheduled deadline events: [tick, generation]
    edges,         \* line -> signals under way, oldest first
    clintLines,    \* the InterruptController
    timerDropped   \* a reset dropped the program of the timer, and none was written since

clintVars == <<timebase, resetPolicy, clintTick, rtc, hartState, deadlines, edges, clintLines,
               timerDropped>>

clintConfig == <<timebase, resetPolicy>>

\* current_mtime
Mtime == IF timebase = "SchedulerTicks" THEN clintTick ELSE rtc

ClintInit ==
    /\ timebase \in {"SchedulerTicks", "RtcDriven"}
    /\ resetPolicy \in ResetValues
    /\ clintTick = 0
    /\ rtc = 0
    /\ hartState = [msip |-> 0, mtimecmp |-> NoDeadline, generation |-> 0, asserted |-> FALSE]
    /\ deadlines = {}
    /\ edges = [l \in {TimerLine, SoftwareLine} |-> <<>>]
    /\ clintLines = NewController
    /\ timerDropped = FALSE

CanSignal(line) == Len(edges[line]) < MaxEdges

Signalled(line, kind) == [edges EXCEPT ![line] = Append(@, kind)]

-----------------------------------------------------------------------------
WriteMsip(value) ==
    /\ hartState.msip # value
    /\ CanSignal(SoftwareLine)
    /\ edges' = Signalled(SoftwareLine, IF value = 0 THEN "Deassert" ELSE "Assert")
    /\ hartState' = [hartState EXCEPT !.msip = value]
    /\ UNCHANGED <<clintConfig, clintTick, rtc, deadlines, clintLines, timerDropped>>

ReprogramEdges == IF hartState.asserted THEN Signalled(TimerLine, "Deassert") ELSE edges

\* write_mtimecmp: a deadline that has passed raises the line at once, even if it is raised
WriteMtimecmp(deadline) ==
    LET generation == hartState.generation + 1
        passed == deadline <= Mtime
    IN  /\ generation <= MaxPrograms
        /\ CanSignal(TimerLine)
        /\ hartState' = [hartState EXCEPT !.mtimecmp = deadline,
                                          !.generation = generation,
                                          !.asserted = passed]
        /\ edges' = IF passed THEN Signalled(TimerLine, "Assert") ELSE ReprogramEdges
        /\ deadlines' = IF passed \/ timebase = "RtcDriven"
                          THEN deadlines
                          ELSE deadlines \union {[tick |-> deadline, generation |-> generation]}
        /\ timerDropped' = FALSE
        /\ UNCHANGED <<clintConfig, clintTick, rtc, clintLines>>

\* mutant: an event of an earlier program still counts
MutantProgramCurrent(generation) == ~hartState.asserted

\* mark_timer_asserted
ProgramCurrent(generation) == hartState.generation = generation /\ ~hartState.asserted

DeadlineEvent(event) ==
    /\ event \in deadlines
    /\ event.tick = clintTick
    /\ deadlines' = deadlines \ {event}
    /\ IF ProgramCurrent(event.generation)
         THEN /\ CanSignal(TimerLine)
              /\ hartState' = [hartState EXCEPT !.asserted = TRUE]
              /\ edges' = Signalled(TimerLine, "Assert")
         ELSE UNCHANGED <<hartState, edges>>
    /\ UNCHANGED <<clintConfig, clintTick, rtc, clintLines, timerDropped>>

\* rtc_tick, with timer_assertion_due and mark_timer_asserted_due
RtcTick ==
    LET due == rtc + 1 >= hartState.mtimecmp /\ ~hartState.asserted
    IN  /\ timebase = "RtcDriven"
        /\ rtc < MaxClintTick
        /\ rtc' = rtc + 1
        /\ IF due
             THEN /\ CanSignal(TimerLine)
                  /\ hartState' = [hartState EXCEPT !.asserted = TRUE]
                  /\ edges' = Signalled(TimerLine, "Assert")
             ELSE UNCHANGED <<hartState, edges>>
        /\ timerDropped' = FALSE
        /\ UNCHANGED <<clintConfig, clintTick, deadlines, clintLines>>

\* ClintHartRuntime::reset
ResetHart ==
    [msip |-> 0,
     mtimecmp |-> IF resetPolicy = NoReset THEN hartState.mtimecmp ELSE resetPolicy,
     generation |-> hartState.generation + 1,
     asserted |-> FALSE]

\* signal_reset_deassertions
ResetEdges ==
    [l \in DOMAIN edges |->
        IF \/ l = SoftwareLine /\ hartState.msip # 0
           \/ l = TimerLine /\ hartState.asserted
          THEN Append(edges[l], "Deassert")
          ELSE edges[l]]

\* reset, with reset_time
ClintReset ==
    /\ hartState.generation < MaxPrograms
    /\ CanSignal(TimerLine) /\ CanSignal(SoftwareLine)
    /\ rtc' = IF timebase = "RtcDriven" THEN 0 ELSE rtc
    /\ hartState' = ResetHart
    /\ edges' = ResetEdges
    /\ timerDropped' = TRUE
    /\ UNCHANGED <<clintConfig, clintTick, deadlines, clintLines>>

ClintDeliver(line) ==
    /\ edges[line] # <<>>
    /\ clintLines' = ApplyDelivery(clintLines, line, line, Head(edges[line]))
    /\ edges' = [edges EXCEPT ![line] = Tail(@)]
    /\ UNCHANGED <<clintConfig, clintTick, rtc, hartState, deadlines, timerDropped>>

\* the scheduler leaves a tick when its events have run (external)
ClintAdvance ==
    /\ clintTick < MaxClintTick
    /\ \A event \in deadlines : event.tick > clintTick
    /\ clintTick' = clintTick + 1
    /\ UNCHANGED <<clintConfig, rtc, hartState, deadlines, edges, clintLines, timerDropped>>

ClintNext ==
    \/ \E value \in {0, 1} : WriteMsip(value)
    \/ \E deadline \in 0..MaxClintTick : WriteMtimecmp(deadline)
    \/ \E event \in deadlines : DeadlineEvent(event)
    \/ RtcTick
    \/ ClintReset
    \/ \E line \in {TimerLine, SoftwareLine} : ClintDeliver(line)
    \/ ClintAdvance

ClintSpec == ClintInit /\ [][ClintNext]_clintVars

-----------------------------------------------------------------------------
\* The timer is raised exactly when its deadline has passed, however often it was reprogrammed:
\* an event of an earlier program never raises it early, and the event of the current program
\* is still there to raise it, until a reset drops the program.  And the lines follow: once the
\* signals of a line have arrived it is pending exactly when the timer is raised, or the
\* software bit set, although repeated asserts are refused and the signals of a reset and of a
\* new program may be under way together.
LinesFollowClint ==
    LET due == hartState.mtimecmp <= Mtime
    IN  /\ hartState.asserted => due
        /\ due => \/ hartState.asserted
                  \/ timerDropped
                  \/ \E event \in deadlines : /\ event.generation = hartState.generation
                                              /\ event.tick = clintTick
        /\ edges[TimerLine] = <<>> => (Pending(clintLines, TimerLine) <=> hartState.asserted)
        /\ edges[SoftwareLine] = <<>> =>
              (Pending(clintLines, SoftwareLine) <=> hartState.msip = 1)
=============================================================================
