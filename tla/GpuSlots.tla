------------------------------ MODULE GpuSlots ------------------------------
(***************************************************************************)
(* The wave slots of the GPU.  A launch books its workgroups on the slots  *)
(* that are free first; a pump event starts the workgroup at the head of a *)
(* slot's queue, and its completion event pumps the slot again.  The slots *)
(* may be restored onto a fresh scheduler; every run of the device arms    *)
(* the queued slots anew, whether or not their pumps are still scheduled.  *)
(***************************************************************************)
EXTENDS Naturals, SequencesExt

CONSTANTS
    SlotCount,       \* compute units times wave slots
    Launches,        \* [workgroups, latency] of the kernels launched
    MaxWorkgroups,   \* bound: workgroups accepted
    MaxRuns,         \* bound: runs of the device, and restores
    MaxLaunchTick    \* bound: ticks at which a launch arrives

ASSUME GpuAssumption ==
    /\ SlotCount \in Nat \ {0}
    /\ \A l \in Launches : l.workgroups \in Nat \ {0} /\ l.latency \in Nat \ {0}

VARIABLES
    gpuTick,        \* the partition's tick
    gpu,            \* slots: available, pump, queued; completions; ghosts: accepted, lost
    gpuEvents,      \* scheduled events of the device, in the order they were scheduled
    gpuSaved,       \* the last snapshot, its tick, and a ghost: the workgroups then running
    armed,          \* ghost: the device was run since it was restored
    gpuRuns         \* runs and restores so far

gpuVars == <<gpuTick, gpu, gpuEvents, gpuSaved, armed, gpuRuns>>

Slots == 1..SlotCount

NewGpu ==
    [slots |-> [s \in Slots |-> [available |-> 0, pump |-> FALSE, queued |-> <<>>]],
     completions |-> {}, accepted |-> 0, lost |-> {}]

GpuInit ==
    /\ gpuTick = 0
    /\ gpu = NewGpu
    /\ gpuEvents = <<>>
    /\ gpuSaved = [gpu |-> NewGpu, tick |-> 0, running |-> {}]
    /\ armed = TRUE
    /\ gpuRuns = 0

\* next_slot_index
NextSlot(slots) ==
    CHOOSE s \in Slots :
        \A t \in Slots \ {s} : \/ slots[s].available < slots[t].available
                               \/ slots[s].available = slots[t].available /\ s < t

\* one workgroup of enqueue_launch
EnqueueWorkgroup(g, latency) ==
    LET s == NextSlot(g.slots)
        started == IF g.slots[s].available > gpuTick THEN g.slots[s].available ELSE gpuTick
        workgroup == [id |-> g.accepted + 1, started |-> started, completed |-> started + latency]
    IN  [g EXCEPT !.slots[s].available = workgroup.completed,
                  !.slots[s].queued = Append(@, workgroup),
                  !.accepted = @ + 1]

EnqueueLaunch(g, launch) ==
    FoldLeft(LAMBDA h, i : EnqueueWorkgroup(h, launch.latency), g,
             [i \in 1..launch.workgroups |-> i])

\* the device and its events together: what the scheduling steps below change
Pair(g, events) == [gpu |-> g, events |-> events]

\* reserve_slot_pump and the event scheduled for it
ScheduleSlot(pair, s) ==
    LET slot == pair.gpu.slots[s]
        started == Head(slot.queued).started
    IN  IF slot.pump \/ slot.queued = <<>>
          THEN pair
          ELSE Pair([pair.gpu EXCEPT !.slots[s].pump = TRUE],
                    Append(pair.events,
                           [kind |-> "Pump", slot |-> s,
                            tick |-> IF started > gpuTick THEN started ELSE gpuTick]))

ScheduleSlots(pair, slots) == FoldLeft(ScheduleSlot, pair, SetToSortSeq(slots, <))

Become(pair) == gpu' = pair.gpu /\ gpuEvents' = pair.events

-----------------------------------------------------------------------------
AcceptLaunch(launch) ==
    LET after == EnqueueLaunch(gpu, launch)
        touched == {s \in Slots : after.slots[s] # gpu.slots[s]}
    IN  /\ gpuTick <= MaxLaunchTick
        /\ gpu.accepted + launch.workgroups <= MaxWorkgroups
        /\ Become(ScheduleSlots(Pair(after, gpuEvents), touched))
        /\ UNCHANGED <<gpuTick, gpuSaved, armed, gpuRuns>>

\* the scheduler's next event of this tick
IsNextEvent(i) ==
    /\ gpuEvents[i].tick = gpuTick
    /\ \A j \in 1..i - 1 : gpuEvents[j].tick # gpuTick

WorkgroupReady(workgroup) == workgroup.started <= gpuTick

\* mutant: a pump leaves its slot marked as pumped
MutantPumped(slot, start) == [slot EXCEPT !.queued = IF start THEN Tail(@) ELSE @]

\* mutant: the workgroup started stays in the queue
MutantPumpedKeeps(slot, start) == [slot EXCEPT !.pump = FALSE]

\* pop_ready_slot_workgroup
Pumped(slot, start) == [slot EXCEPT !.pump = FALSE, !.queued = IF start THEN Tail(@) ELSE @]

StartNextWorkgroup(i) ==
    LET s == gpuEvents[i].slot
        slot == gpu.slots[s]
        start == slot.queued # <<>> /\ WorkgroupReady(Head(slot.queued))
        completion == [kind |-> "Complete", slot |-> s, tick |-> Head(slot.queued).completed,
                       workgroup |-> Head(slot.queued), at |-> gpuTick]
    IN  /\ gpuEvents[i].kind = "Pump"
        /\ Become(Pair([gpu EXCEPT !.slots[s] = Pumped(slot, start)],
                       IF start THEN Append(RemoveAt(gpuEvents, i), completion)
                                ELSE RemoveAt(gpuEvents, i)))
        /\ UNCHANGED <<gpuTick, gpuSaved, armed, gpuRuns>>

CompleteWorkgroup(i) ==
    LET event == gpuEvents[i]
        done == [workgroup |-> event.workgroup, slot |-> event.slot, at |-> event.at,
                 finished |-> gpuTick]
    IN  /\ event.kind = "Complete"
        /\ Become(ScheduleSlot(Pair([gpu EXCEPT !.completions = @ \union {done}],
                                    RemoveAt(gpuEvents, i)), event.slot))
        /\ UNCHANGED <<gpuTick, gpuSaved, armed, gpuRuns>>

\* run_until_idle_parallel_recorded up to the run of the scheduler, whose events are the other
\* actions: schedule_queued_slots_from_scheduler
RunUntilIdle ==
    LET queued == {s \in Slots : gpu.slots[s].queued # <<>>}
        rearmed == [gpu EXCEPT !.slots = [s \in Slots |->
                        IF s \in queued THEN [gpu.slots[s] EXCEPT !.pump = FALSE]
                                        ELSE gpu.slots[s]]]
    IN  /\ gpuRuns < MaxRuns
        /\ gpuRuns' = gpuRuns + 1
        /\ armed' = TRUE
        /\ Become(ScheduleSlots(Pair(rearmed, gpuEvents), queued))
        /\ UNCHANGED <<gpuTick, gpuSaved>>

Running(events) == {events[i].workgroup.id : i \in {j \in DOMAIN events :
                                                       events[j].kind = "Complete"}}

GpuSnapshot ==
    /\ gpuRuns < MaxRuns
    /\ gpuSaved' = [gpu |-> gpu, tick |-> gpuTick, running |-> Running(gpuEvents)]
    /\ UNCHANGED <<gpuTick, gpu, gpuEvents, armed, gpuRuns>>

\* restore, onto a scheduler without events at the tick of the snapshot; the workgroups that
\* ran when the snapshot was taken are in no queue and are not restored
GpuRestore ==
    /\ gpuRuns < MaxRuns
    /\ gpuRuns' = gpuRuns + 1
    /\ gpu' = [gpuSaved.gpu EXCEPT !.lost = @ \union gpuSaved.running]
    /\ gpuTick' = gpuSaved.tick
    /\ gpuEvents' = <<>>
    /\ armed' = FALSE
    /\ UNCHANGED gpuSaved

\* the scheduler leaves a tick when its events have run; a restored device is run before the
\* clock moves on (external)
GpuTickAdvances ==
    /\ armed
    /\ \/ gpuTick < MaxLaunchTick
       \/ \E i \in DOMAIN gpuEvents : gpuEvents[i].tick > gpuTick
    /\ \A i \in DOMAIN gpuEvents : gpuEvents[i].tick # gpuTick
    /\ gpuTick' = gpuTick + 1
    /\ UNCHANGED <<gpu, gpuEvents, gpuSaved, armed, gpuRuns>>

GpuNext ==
    \/ \E launch \in Launches : AcceptLaunch(launch)
    \/ \E i \in DOMAIN gpuEvents :
           IsNextEvent(i) /\ (StartNextWorkgroup(i) \/ CompleteWorkgroup(i))
    \/ RunUntilIdle
    \/ GpuSnapshot
    \/ GpuRestore
    \/ GpuTickAdvances

-----------------------------------------------------------------------------
\* No workgroup is left behind: the head of a queue has an event of its slot, a pump or the
\* completion of the one before it, no later than the tick it is booked for, although runs arm
\* slots that are armed already, stray pumps clear the mark of a pump to come, and a restored
\* device has no events until it is run.
NoneStranded ==
    armed => \A s \in Slots :
        gpu.slots[s].queued # <<>> =>
            \E i \in DOMAIN gpuEvents :
                /\ gpuEvents[i].slot = s
                /\ gpuEvents[i].tick <= Head(gpu.slots[s].queued).started

\* Every workgroup accepted is queued, runs or has completed, in one place and once; those that
\* a restore dropped were running when its snapshot was taken.  A slot runs one workgroup at a
\* time and every workgroup runs exactly in the ticks it was booked for, across stray pumps and
\* restores.
RunsOnceAsBooked ==
    /\ \A id \in 1..gpu.accepted :
          LET queued == {place \in Slots \X (1..MaxWorkgroups) :
                            /\ place[2] \in DOMAIN gpu.slots[place[1]].queued
                            /\ gpu.slots[place[1]].queued[place[2]].id = id}
              running == {i \in DOMAIN gpuEvents :
                             gpuEvents[i].kind = "Complete" /\ gpuEvents[i].workgroup.id = id}
              done == {c \in gpu.completions : c.workgroup.id = id}
          IN  Cardinality(queued) + Cardinality(running) + Cardinality(done)
                  = IF id \in gpu.lost THEN 0 ELSE 1
    /\ \A i, j \in DOMAIN gpuEvents :
           (gpuEvents[i].kind = "Complete" /\ gpuEvents[j].kind = "Complete" /\ i # j)
               => gpuEvents[i].slot # gpuEvents[j].slot
    /\ \A c \in gpu.completions : /\ c.at = c.workgroup.started
                                  /\ c.finished = c.workgroup.completed
    /\ \A c, d \in gpu.completions :
           (c # d /\ c.slot = d.slot) => c.finished <= d.at \/ d.finished <= c.at

=============================================================================
