------------------------- MODULE PartitionedScheduler -------------------------
(***************************************************************************)
(* The conservative parallel discrete-event scheduler of rem6-kernel.      *)
(*                                                                         *)
(* A scheduler owns one queue per partition.  Every queue has a clock, the *)
(* counters that name its events and the pending events, ordered by        *)
(* (tick, order, id).  A parallel epoch runs the partitions that have an   *)
(* event at or before the horizon, at most max_parallel_workers at a time, *)
(* each on its own thread; what a callback sends to another partition goes *)
(* to an outbox that is merged once every worker of the batch has joined.  *)
(* Serial epochs, single mixed events, cancellation, checkpoint restore    *)
(* and worker panics act on the same queues.                               *)
(*                                                                         *)
(* A callback is a running context that may perform any number of context  *)
(* operations before it returns or panics, so every callback is covered.   *)
(* A call that is refused changes nothing and is no step.  The progress    *)
(* records (next_progress_order) behave as next_remote_order does and are  *)
(* left out, and so are the summaries and profiles the calls return.       *)
(***************************************************************************)
EXTENDS Integers, FiniteSets

CONSTANTS
    N,                     \* number of partitions
    min_remote_delay,      \* the lookahead
    max_parallel_workers,  \* workers of one batch
    TickMax,               \* the largest tick, u64::MAX in the code
    MaxEvents,             \* bound: events a partition is ever given
    Delays,                \* delays a callback asks for
    ClientTicks,           \* ticks the client schedules at, and its limits
    Calls                  \* the public calls the client makes

ASSUME PartitionsAssumption == N \in Nat \ {0}
ASSUME LookaheadAssumption  == min_remote_delay \in Nat \ {0}
ASSUME WorkersAssumption    == max_parallel_workers \in Nat \ {0}
ASSUME TickAssumption       == TickMax \in Nat
ASSUME BoundAssumption      == MaxEvents \in Nat
ASSUME DelaysAssumption     == Delays \subseteq Nat
ASSUME ClientAssumption     == ClientTicks \subseteq 0..TickMax

VARIABLES
    now,                 \* PartitionedScheduler::now
    pnow,                \* PartitionQueue::now of every partition
    next_id, next_order, next_runtime_token, next_remote_order,
    pending,             \* PartitionQueue::pending
    mode,                \* what the call in progress is doing
    call,                \* the public call in progress
    horizon,             \* its horizon; in mode "Plan" the caller's limit
    before,              \* now at the start of the epoch
    executed,            \* the epoch has executed an event
    worker,              \* state of every partition's worker thread
    rollback,            \* what a worker restores if its callback panics
    partition_nows,      \* the clocks copied when the batch started
    remote_events,       \* the outboxes of the workers of the batch
    batch_error,         \* some worker of the batch failed
    ctx,                 \* SchedulerContext of the serial callback
    revised,             \* that callback changed timeline_revision
    ret,                 \* the call that returned last, and its result
    saved,               \* the quiescent snapshot the client keeps, if any
    plan,                \* the epoch plan the client keeps, if any
    failed,              \* ghost: a batch failed since the clocks were restored
    corrupt              \* ghost: a batch was abandoned with its queues

counters  == <<next_id, next_order, next_runtime_token, next_remote_order>>
queues    == <<pnow, pending, counters>>
loop      == <<horizon, before, executed>>
workers   == <<worker, rollback, partition_nows, remote_events, batch_error>>
serial    == <<ctx, revised>>
client    == <<saved, plan>>
ghosts    == <<failed, corrupt>>
vars      == <<now, queues, mode, call, loop, workers, serial, ret, client, ghosts>>

-----------------------------------------------------------------------------
Partitions == 0..(N - 1)
Tick       == 0..TickMax
Kinds      == {"Serial", "Parallel"}

Event == [tick : Tick, order : Nat, id : Nat, token : Nat, kind : Kinds]

RemoteEvent == [source : Partitions, target : Partitions, tick : Tick, order : Nat]

Max2(a, b) == IF a < b THEN b ELSE a
Min2(a, b) == IF a < b THEN a ELSE b
IsMaxOf(m, S) == m \in S /\ \A x \in S : x <= m
IsMinOf(m, S) == m \in S /\ \A x \in S : m <= x

\* Mutant of Earlier: the heap ignores ticks.
MutantEarlier(e, f) == e.order < f.order

\* Ord for PartitionEvent: the heap pops the least (tick, order, id).
Earlier(e, f) ==
    \/ e.tick < f.tick
    \/ e.tick = f.tick /\ e.order < f.order
    \/ e.tick = f.tick /\ e.order = f.order /\ e.id < f.id

IsHead(p, e) == e \in pending[p] /\ \A f \in pending[p] : ~Earlier(f, e)

NextTick(p) == CHOOSE t \in {e.tick : e \in pending[p]} :
                   \A e \in pending[p] : t <= e.tick

Idle == \A p \in Partitions : pending[p] = {}

\* next_partition_with_event: the least (tick, partition).
IsNextPartition(p, e) ==
    /\ IsHead(p, e)
    /\ \A q \in Partitions : \A f \in pending[q] :
          e.tick < f.tick \/ (e.tick = f.tick /\ p <= q)

Ready(h) == {p \in Partitions : \E e \in pending[p] : e.tick <= h}

SerialAtOrBefore(h) ==
    \E p \in Partitions : \E e \in pending[p] : e.kind = "Serial" /\ e.tick <= h

\* parallel_epoch_frontiers: every clock plus the lookahead must be a tick.
FrontiersOk == \A p \in Partitions : pnow[p] + min_remote_delay <= TickMax

\* The horizon: the least clock plus the lookahead.
IsHorizon(h) == IsMinOf(h, {pnow[p] + min_remote_delay : p \in Partitions})

\* sort_ready_partitions and take(max_parallel_workers).
Sooner(q, p) ==
    \/ NextTick(q) < NextTick(p)
    \/ NextTick(q) = NextTick(p) /\ q < p

BatchOf(h) ==
    {p \in Ready(h) :
        Cardinality({q \in Ready(h) : Sooner(q, p)}) < max_parallel_workers}

Batch == {p \in Partitions : worker[p] # "off"}

NoRollback == [id |-> 0, order |-> 0, remote |-> 0, pending |-> {}, remotes |-> {}]

\* Bound: the events a partition was given and those on their way to it.
Room(p) ==
    next_runtime_token[p] + Cardinality({r \in remote_events : r.target = p}) < MaxEvents

-----------------------------------------------------------------------------
(* PartitionQueue::schedule_event_at, accepted.                            *)
ScheduleEventAt(p, t, k) ==
    /\ t >= pnow[p]
    /\ pending' = [pending EXCEPT ![p] = @ \cup
                     {[tick |-> t, order |-> next_order[p], id |-> next_id[p],
                       token |-> next_runtime_token[p], kind |-> k]}]
    /\ next_id' = [next_id EXCEPT ![p] = @ + 1]
    /\ next_order' = [next_order EXCEPT ![p] = @ + 1]
    /\ next_runtime_token' = [next_runtime_token EXCEPT ![p] = @ + 1]
    /\ UNCHANGED <<pnow, next_remote_order>>

\* pop_next, and the clock moved to the event.
PopNext(p, e) ==
    /\ pending' = [pending EXCEPT ![p] = @ \ {e}]
    /\ pnow' = [pnow EXCEPT ![p] = e.tick]
    /\ UNCHANGED counters

AdvancePartitionsTo(t) ==
    /\ pnow' = [p \in Partitions |-> Max2(pnow[p], t)]
    /\ now' = t

\* Mutant of KeptEvents: the first event of the callback survives.
MutantKeptEvents(p) ==
    {e \in pending[p] : e.id <= rollback[p].id /\ e.order <= rollback[p].order}

\* The events rollback_scheduled_events retains: those named before the callback.
KeptEvents(p) ==
    {e \in pending[p] : e.id < rollback[p].id /\ e.order < rollback[p].order}

\* Mutant of RollbackScheduledEvents: tokens are given back as ids are.
MutantRollbackScheduledEvents(p) ==
    /\ next_id' = [next_id EXCEPT ![p] = rollback[p].id]
    /\ next_order' = [next_order EXCEPT ![p] = rollback[p].order]
    /\ next_remote_order' = [next_remote_order EXCEPT ![p] = rollback[p].remote]
    /\ pending' = [pending EXCEPT ![p] = KeptEvents(p)]
    /\ next_runtime_token' = [next_runtime_token EXCEPT ![p] = @ - (next_id[p] - rollback[p].id)]

\* rollback_scheduled_events and the caller's reset of next_remote_order.
RollbackScheduledEvents(p) ==
    /\ next_id' = [next_id EXCEPT ![p] = rollback[p].id]
    /\ next_order' = [next_order EXCEPT ![p] = rollback[p].order]
    /\ next_remote_order' = [next_remote_order EXCEPT ![p] = rollback[p].remote]
    /\ pending' = [pending EXCEPT ![p] = KeptEvents(p)]
    /\ UNCHANGED next_runtime_token

\* remote_events.truncate: what p sent before the callback that panicked.
TruncatedRemotes(p) ==
    {r \in remote_events : r.source = p => r.order < rollback[p].remote}

\* The call returns and leaves nothing running.
Settle ==
    /\ mode' = "Rest" /\ call' = "none"
    /\ horizon' = 0 /\ before' = 0 /\ executed' = FALSE
    /\ worker' = [p \in Partitions |-> "off"]
    /\ rollback' = [p \in Partitions |-> NoRollback]
    /\ partition_nows' = [p \in Partitions |-> 0]
    /\ remote_events' = {} /\ batch_error' = FALSE
    /\ ctx' = [partition |-> 0, now |-> 0] /\ revised' = FALSE

Return(result) == Settle /\ ret' = <<call, result>>

-----------------------------------------------------------------------------
Init ==
    /\ now = 0
    /\ pnow = [p \in Partitions |-> 0]
    /\ next_id = [p \in Partitions |-> 0]
    /\ next_order = [p \in Partitions |-> 0]
    /\ next_runtime_token = [p \in Partitions |-> 0]
    /\ next_remote_order = [p \in Partitions |-> 0]
    /\ pending = [p \in Partitions |-> {}]
    /\ mode = "Rest" /\ call = "none" /\ ret = <<"none", "Ok">>
    /\ horizon = 0 /\ before = 0 /\ executed = FALSE
    /\ worker = [p \in Partitions |-> "off"]
    /\ rollback = [p \in Partitions |-> NoRollback]
    /\ partition_nows = [p \in Partitions |-> 0]
    /\ remote_events = {} /\ batch_error = FALSE
    /\ ctx = [partition |-> 0, now |-> 0] /\ revised = FALSE
    /\ saved = {} /\ plan = {}
    /\ failed = FALSE /\ corrupt = FALSE

-----------------------------------------------------------------------------
(* The client, between two calls that run events.                          *)

AtRest(c) ==
    /\ mode = "Rest" /\ c \in Calls
    /\ ret' = <<"none", "Ok">>
    /\ UNCHANGED <<mode, call, loop, workers, serial>>

\* schedule_at and schedule_parallel_at
ScheduleAt(p, t, k) ==
    /\ AtRest(k)
    /\ Room(p)
    /\ ScheduleEventAt(p, t, k)
    /\ UNCHANGED <<now, client, ghosts>>

\* schedule_after: a serial event, relative to the scheduler's own clock
ScheduleAfter(p, d) ==
    /\ AtRest("after")
    /\ Room(p)
    /\ now + d <= TickMax
    /\ ScheduleEventAt(p, now + d, "Serial")
    /\ UNCHANGED <<now, client, ghosts>>

CancelEvent(p, e) ==
    /\ AtRest("cancel")
    /\ pending' = [pending EXCEPT ![p] = @ \ {f \in @ : f.id = e.id}]
    /\ UNCHANGED <<now, pnow, counters, client, ghosts>>

\* The event keeps its id, its order and its token.
RescheduleEvent(p, e, t) ==
    /\ AtRest("reschedule")
    /\ t >= pnow[p]
    /\ pending' = [pending EXCEPT ![p] = (@ \ {e}) \cup {[e EXCEPT !.tick = t]}]
    /\ UNCHANGED <<now, pnow, counters, client, ghosts>>

QuiescentSnapshot ==
    /\ AtRest("snapshot")
    /\ Idle
    /\ saved' = {[now |-> now, pnow |-> pnow, next_id |-> next_id,
                  next_order |-> next_order, next_remote_order |-> next_remote_order]}
    /\ UNCHANGED <<now, queues, plan, ghosts>>

\* validate_quiescent_snapshot_compatibility
Compatible(s) == \A p \in Partitions : s.pnow[p] = s.now

\* Mutant of RestoreProjection: the counters ignore the preserved events.
MutantRestoreProjection(s, preserved) ==
    /\ Compatible(s)
    /\ \A p \in Partitions : \A e \in preserved[p] : e.tick >= s.pnow[p]
    /\ now' = s.now
    /\ pnow' = s.pnow
    /\ pending' = preserved
    /\ next_id' = s.next_id
    /\ next_order' = s.next_order
    /\ next_remote_order' = s.next_remote_order
    /\ UNCHANGED next_runtime_token

\* restore_checkpoint_projection; restore_quiescent is the case of an idle
\* scheduler.  Events that are not preserved are discarded.
RestoreProjection(s, preserved) ==
    /\ Compatible(s)
    /\ \A p \in Partitions : \A e \in preserved[p] : e.tick >= s.pnow[p]
    /\ now' = s.now
    /\ pnow' = s.pnow
    /\ pending' = preserved
    /\ \E ids, orders \in [Partitions -> 0..MaxEvents] :
          /\ \A p \in Partitions :
                /\ IsMaxOf(ids[p], {s.next_id[p]} \cup {e.id + 1 : e \in preserved[p]})
                /\ IsMaxOf(orders[p], {s.next_order[p]} \cup {e.order + 1 : e \in preserved[p]})
          /\ next_id' = ids
          /\ next_order' = orders
    /\ next_remote_order' = s.next_remote_order
    /\ UNCHANGED next_runtime_token

Preservable == {f \in [Partitions -> SUBSET UNION {pending[p] : p \in Partitions}] :
                   \A p \in Partitions : f[p] \subseteq pending[p]}

RestoreQuiescent(s) ==
    /\ AtRest("restore")
    /\ Idle
    /\ RestoreProjection(s, pending)
    /\ failed' = FALSE
    /\ UNCHANGED <<client, corrupt>>

RestoreCheckpoint(s, preserved) ==
    /\ AtRest("projection")
    /\ RestoreProjection(s, preserved)
    /\ failed' = FALSE
    /\ UNCHANGED <<client, corrupt>>

DiscardExactEvents(kept) ==
    /\ AtRest("discard")
    /\ kept # pending
    /\ pending' = kept
    /\ UNCHANGED <<now, pnow, counters, client, ghosts>>

\* plan_next_parallel_epoch_with_limit: what a plan records, tokens included
PlanAt(h) ==
    [horizon   |-> h,
     ready     |-> [p \in Ready(h) |-> {<<e.tick, e.token>> : e \in {f \in pending[p] : IsHead(p, f)}}],
     frontiers |-> [p \in Partitions |->
                       <<pnow[p], {e.tick : e \in {f \in pending[p] : IsHead(p, f)}},
                         Cardinality(pending[p])>>],
     blockers  |-> [p \in Partitions |->
                       {<<e.id, e.tick, e.token>> : e \in {f \in pending[p] :
                                                         f.kind = "Serial" /\ f.tick <= h}}]]

PlanNextParallelEpoch(limit) ==
    /\ AtRest("plan")
    /\ ~Idle
    /\ now < limit
    /\ FrontiersOk
    /\ \E h \in Tick : IsHorizon(h) /\ plan' = {PlanAt(Min2(h, limit))}
    /\ UNCHANGED <<now, queues, saved, ghosts>>

-----------------------------------------------------------------------------
(* Starting a call.  In mode "Plan" the variable horizon holds the limit   *)
(* the caller gave; TickMax stands for no limit.                           *)

Start(c, m, h) ==
    /\ mode = "Rest" /\ c \in Calls
    /\ mode' = m /\ call' = c /\ horizon' = h
    /\ ret' = <<"none", "Ok">>
    /\ UNCHANGED <<now, queues, before, executed, workers, serial, client, ghosts>>

\* run_until_idle dispatches serially with no horizon at all.
RunUntilIdle == Start("until_idle", "Serial", TickMax)

RunNextEpochUntil(limit) == Start("epoch", "Plan", limit)

RunUntilIdleConservative == Start("conservative", "Plan", TickMax)

RunNextEpochParallelUntil(limit) == Start("parallel", "Plan", limit)

RunUntilIdleParallel == Start("parallel_until_idle", "Plan", TickMax)

ParallelCalls == {"parallel", "parallel_until_idle"}
SerialCalls   == {"epoch", "conservative"}

-----------------------------------------------------------------------------
(* Serial execution.                                                       *)

\* plan_next_epoch finds nothing to do, or a clock too close to the end.
NoSerialEpoch ==
    /\ mode = "Plan" /\ call \in SerialCalls
    /\ Idle \/ ~FrontiersOk \/ (call = "epoch" /\ now >= horizon)
    /\ Return("Ok")
    /\ UNCHANGED <<now, queues, client, ghosts>>

BeginSerialEpoch ==
    /\ mode = "Plan" /\ call \in SerialCalls
    /\ ~Idle /\ FrontiersOk
    /\ call = "epoch" => now < horizon
    /\ \E h \in Tick : IsHorizon(h) /\ horizon' = Min2(h, horizon)
    /\ mode' = "Serial" /\ before' = now /\ executed' = FALSE
    /\ UNCHANGED <<now, queues, call, workers, serial, ret, client, ghosts>>

\* dispatch_next_in_partition of a serial event: its callback is running.
DispatchSerial(p, e) ==
    /\ e.kind = "Serial"
    /\ PopNext(p, e)
    /\ now' = e.tick
    /\ mode' = "Callback"
    /\ ctx' = [partition |-> p, now |-> e.tick]
    /\ revised' = FALSE

DispatchNextInPartition ==
    /\ mode = "Serial"
    /\ \E p \in Partitions : \E e \in pending[p] :
          /\ IsNextPartition(p, e)
          /\ e.tick <= horizon
          /\ DispatchSerial(p, e)
    /\ executed' = TRUE
    /\ UNCHANGED <<call, horizon, before, workers, ret, client, ghosts>>

\* dispatch_next_in_partition panics on a parallel event.
ParallelEventReachedSerialDispatcher ==
    /\ mode = "Serial"
    /\ \E p \in Partitions : \E e \in pending[p] :
          /\ IsNextPartition(p, e)
          /\ e.tick <= horizon
          /\ e.kind = "Parallel"
          /\ PopNext(p, e)
          /\ now' = e.tick
    /\ mode' = "Aborted"
    /\ UNCHANGED <<call, loop, workers, serial, ret, client, ghosts>>

\* run_serial_epoch_to and run_until_idle after their last event
EndSerial ==
    /\ mode = "Serial"
    /\ Ready(horizon) = {}
    /\ AdvancePartitionsTo(IF call = "until_idle" THEN now ELSE horizon)
    /\ IF call = "conservative" /\ ~(horizon = before /\ ~executed)
       THEN /\ mode' = "Plan" /\ horizon' = TickMax
            /\ UNCHANGED <<call, before, executed, workers, serial, ret>>
       ELSE Return("Ok")
    /\ UNCHANGED <<pending, counters, client, ghosts>>

\* SchedulerContext::schedule_local_after, and schedule_remote_after which
\* refuses a delay below the lookahead unless the target is its own partition
ContextSchedule(q, d) ==
    /\ mode = "Callback"
    /\ Room(q)
    /\ q # ctx.partition => d >= min_remote_delay
    /\ ctx.now + d <= TickMax
    /\ ScheduleEventAt(q, ctx.now + d, "Serial")
    /\ UNCHANGED <<now, mode, call, loop, workers, serial, ret, client, ghosts>>

\* SchedulerContext::checkpoint_access restores a snapshot
ContextRestore(s, preserved) ==
    /\ mode = "Callback" /\ "restore_in_callback" \in Calls
    /\ RestoreProjection(s, preserved)
    /\ revised' = TRUE /\ failed' = FALSE
    /\ UNCHANGED <<mode, call, loop, workers, ctx, ret, client, corrupt>>

\* SchedulerContext::checkpoint_access discards pending events
ContextDiscard(kept) ==
    /\ mode = "Callback" /\ "discard_in_callback" \in Calls
    /\ kept # pending
    /\ pending' = kept
    /\ revised' = TRUE
    /\ UNCHANGED <<now, pnow, counters, mode, call, loop, workers, ctx, ret, client, ghosts>>

\* The serial callback returns to the loop that dispatched it.  A changed
\* timeline ends a serial epoch at once; run_until_idle goes on.
ContextReturn ==
    /\ mode = "Callback"
    /\ \/ /\ call = "until_idle" \/ (call \in SerialCalls /\ ~revised)
          /\ mode' = "Serial"
          /\ ctx' = [partition |-> 0, now |-> 0] /\ revised' = FALSE
          /\ UNCHANGED <<now, pnow, call, loop, workers, ret>>
       \/ /\ call = "mixed" \/ (call = "epoch" /\ revised)
          /\ AdvancePartitionsTo(now)
          /\ Return("Ok")
       \/ /\ call = "conservative" /\ revised
          /\ AdvancePartitionsTo(now)
          /\ mode' = "Plan" /\ horizon' = TickMax
          /\ ctx' = [partition |-> 0, now |-> 0] /\ revised' = FALSE
          /\ UNCHANGED <<call, before, executed, workers, ret>>
    /\ UNCHANGED <<pending, counters, client, ghosts>>

-----------------------------------------------------------------------------
(* Parallel epochs.                                                        *)

NoParallelEpoch ==
    /\ mode = "Plan" /\ call \in ParallelCalls
    /\ Idle \/ (call = "parallel" /\ now >= horizon)
    /\ Return("Ok")
    /\ UNCHANGED <<now, queues, client, ghosts>>

\* EpochHorizonOverflow, or a serial event at or before the horizon
RefuseParallelEpoch ==
    /\ mode = "Plan" /\ call \in ParallelCalls
    /\ ~Idle
    /\ call = "parallel" => now < horizon
    /\ \/ ~FrontiersOk
       \/ \E h \in Tick : IsHorizon(h) /\ SerialAtOrBefore(Min2(h, horizon))
    /\ Return("Err")
    /\ UNCHANGED <<now, queues, client, ghosts>>

BeginParallelEpoch ==
    /\ mode = "Plan" /\ call \in ParallelCalls
    /\ ~Idle /\ FrontiersOk
    /\ call = "parallel" => now < horizon
    /\ \E h \in Tick :
          /\ IsHorizon(h)
          /\ ~SerialAtOrBefore(Min2(h, horizon))
          /\ horizon' = Min2(h, horizon)
    /\ mode' = "Epoch" /\ before' = now /\ executed' = FALSE
    /\ UNCHANGED <<now, queues, call, workers, serial, ret, client, ghosts>>

\* run_parallel_batch takes the queues of the first ready partitions.
BeginBatch ==
    /\ mode = "Epoch"
    /\ Ready(horizon) # {}
    /\ \A p \in BatchOf(horizon) : pnow[p] + min_remote_delay <= TickMax
    /\ mode' = "Batch"
    /\ worker' = [p \in Partitions |-> IF p \in BatchOf(horizon) THEN "run" ELSE "off"]
    /\ partition_nows' = pnow
    /\ UNCHANGED <<now, queues, call, loop, rollback, remote_events, batch_error,
                   serial, ret, client, ghosts>>

\* The first partition of the batch whose clock is too close to the end makes
\* run_parallel_batch return after mem::replace has put an empty queue in the
\* place of that partition's and of those before it.
BatchOverflow ==
    /\ mode = "Epoch"
    /\ \E p \in BatchOf(horizon) :
          /\ pnow[p] + min_remote_delay > TickMax
          /\ \A q \in BatchOf(horizon) :
                Sooner(q, p) => pnow[q] + min_remote_delay <= TickMax
          /\ LET lost == {q \in BatchOf(horizon) : q = p \/ Sooner(q, p)}
                 Cleared(f) == [q \in Partitions |-> IF q \in lost THEN 0 ELSE f[q]]
             IN  /\ pending' = [q \in Partitions |-> IF q \in lost THEN {} ELSE pending[q]]
                 /\ pnow' = Cleared(pnow)
                 /\ next_id' = Cleared(next_id)
                 /\ next_order' = Cleared(next_order)
                 /\ next_runtime_token' = Cleared(next_runtime_token)
                 /\ next_remote_order' = Cleared(next_remote_order)
    /\ corrupt' = TRUE
    /\ Return("Err")
    /\ UNCHANGED <<now, client, failed>>

\* Mutant of WorkerPop: the worker peeks at the event and leaves it queued.
MutantWorkerPeek(p, e) ==
    /\ mode = "Batch" /\ worker[p] = "run"
    /\ IsHead(p, e) /\ e.tick <= horizon
    /\ pnow' = [pnow EXCEPT ![p] = e.tick]
    /\ worker' = [worker EXCEPT ![p] = IF e.kind = "Parallel" THEN "busy" ELSE "failed"]
    /\ rollback' = [rollback EXCEPT ![p] =
                      [id |-> next_id[p], order |-> next_order[p],
                       remote |-> next_remote_order[p], pending |-> pending[p],
                       remotes |-> {r \in remote_events : r.source = p}]]
    /\ UNCHANGED <<now, pending, counters, mode, call, loop, partition_nows, remote_events,
                   batch_error, serial, ret, client, ghosts>>

\* run_parallel_partition: the next event at or before the horizon
WorkerPop(p, e) ==
    /\ mode = "Batch" /\ worker[p] = "run"
    /\ IsHead(p, e) /\ e.tick <= horizon
    /\ PopNext(p, e)
    /\ worker' = [worker EXCEPT ![p] = IF e.kind = "Parallel" THEN "busy" ELSE "failed"]
    /\ rollback' = [rollback EXCEPT ![p] =
                      [id |-> next_id[p], order |-> next_order[p],
                       remote |-> next_remote_order[p], pending |-> pending[p] \ {e},
                       remotes |-> {r \in remote_events : r.source = p}]]
    /\ UNCHANGED <<now, mode, call, loop, partition_nows, remote_events, batch_error,
                   serial, ret, client, ghosts>>

\* ParallelSchedulerContext::schedule_local_after; context.now is the clock
WorkerScheduleLocal(p, d) ==
    /\ mode = "Batch" /\ worker[p] = "busy"
    /\ Room(p)
    /\ pnow[p] + d <= TickMax
    /\ ScheduleEventAt(p, pnow[p] + d, "Parallel")
    /\ UNCHANGED <<now, mode, call, loop, workers, serial, ret, client, ghosts>>

\* Mutant of WorkerScheduleRemote: only the copied clocks are checked.
MutantWorkerScheduleRemote(p, q, d) ==
    /\ mode = "Batch" /\ worker[p] = "busy"
    /\ q # p
    /\ pnow[p] + d <= TickMax
    /\ pnow[p] + d >= partition_nows[q]
    /\ Room(q)
    /\ next_remote_order[p] < MaxEvents
    /\ remote_events' = remote_events \cup
          {[source |-> p, target |-> q, tick |-> pnow[p] + d, order |-> next_remote_order[p]]}
    /\ next_remote_order' = [next_remote_order EXCEPT ![p] = @ + 1]
    /\ UNCHANGED <<now, pnow, next_id, next_order, next_runtime_token, pending,
                   mode, call, loop, worker, rollback, partition_nows, batch_error,
                   serial, ret, client, ghosts>>

\* ParallelSchedulerContext::schedule_remote_after to another partition: the
\* lookahead, and the target's clock as it was when the batch started
WorkerScheduleRemote(p, q, d) ==
    /\ mode = "Batch" /\ worker[p] = "busy"
    /\ q # p
    /\ d >= min_remote_delay
    /\ pnow[p] + d <= TickMax
    /\ pnow[p] + d >= partition_nows[q]
    /\ Room(q)
    /\ next_remote_order[p] < MaxEvents
    /\ remote_events' = remote_events \cup
          {[source |-> p, target |-> q, tick |-> pnow[p] + d, order |-> next_remote_order[p]]}
    /\ next_remote_order' = [next_remote_order EXCEPT ![p] = @ + 1]
    /\ UNCHANGED <<now, pnow, next_id, next_order, next_runtime_token, pending,
                   mode, call, loop, worker, rollback, partition_nows, batch_error,
                   serial, ret, client, ghosts>>

WorkerReturn(p) ==
    /\ mode = "Batch" /\ worker[p] = "busy"
    /\ worker' = [worker EXCEPT ![p] = IF call = "mixed" THEN "done" ELSE "run"]
    /\ rollback' = [rollback EXCEPT ![p] = NoRollback]
    /\ executed' = TRUE
    /\ UNCHANGED <<now, queues, mode, call, horizon, before, partition_nows,
                   remote_events, batch_error, serial, ret, client, ghosts>>

\* The callback panics inside catch_unwind; the worker stops.
WorkerPanic(p) ==
    /\ mode = "Batch" /\ worker[p] = "busy" /\ call # "mixed"
    /\ RollbackScheduledEvents(p)
    /\ remote_events' = TruncatedRemotes(p)
    /\ worker' = [worker EXCEPT ![p] = "failed"]
    /\ rollback' = [rollback EXCEPT ![p] = NoRollback]
    /\ UNCHANGED <<now, pnow, mode, call, loop, partition_nows, batch_error,
                   serial, ret, client, ghosts>>

Finished(p) ==
    \/ worker[p] \in {"off", "failed", "done"}
    \/ worker[p] = "run" /\ \A e \in pending[p] : e.tick > horizon

\* Mutant of JoinBatch: a failed batch leaves the scheduler's clock where it was.
MutantJoinBatch ==
    /\ mode = "Batch"
    /\ \A p \in Partitions : Finished(p)
    /\ LET error == \E p \in Partitions : worker[p] = "failed"
       IN  /\ batch_error' = error
           /\ failed' = (failed \/ error)
           /\ now' = IF ~error /\ call = "mixed" THEN horizon ELSE now
    /\ mode' = "Merge"
    /\ worker' = [p \in Partitions |-> "off"]
    /\ partition_nows' = [p \in Partitions |-> 0]
    /\ UNCHANGED <<queues, call, loop, rollback, remote_events, serial, ret, client, corrupt>>

\* Every worker has joined.  After an error the scheduler's clock follows the
\* furthest worker; a mixed event moves it to the event.
JoinBatch ==
    /\ mode = "Batch"
    /\ \A p \in Partitions : Finished(p)
    /\ LET error == \E p \in Partitions : worker[p] = "failed"
       IN  /\ batch_error' = error
           /\ failed' = (failed \/ error)
           /\ \/ error /\ \E t \in Tick :
                           /\ IsMaxOf(t, {now} \cup {pnow[p] : p \in Batch})
                           /\ now' = t
              \/ ~error /\ now' = IF call = "mixed" THEN horizon ELSE now
    /\ mode' = "Merge"
    /\ worker' = [p \in Partitions |-> "off"]
    /\ partition_nows' = [p \in Partitions |-> 0]
    /\ UNCHANGED <<queues, call, loop, rollback, remote_events, serial, ret, client, corrupt>>

\* remote_event_delivery_key: (target, tick, source, order)
DeliveredBefore(r, u) ==
    \/ r.target < u.target
    \/ r.target = u.target /\ r.tick < u.tick
    \/ r.target = u.target /\ r.tick = u.tick /\ r.source < u.source
    \/ r.target = u.target /\ r.tick = u.tick /\ r.source = u.source /\ r.order < u.order

NextDelivery(r) == r \in remote_events /\ \A u \in remote_events : ~DeliveredBefore(u, r)

\* Mutant of MergeRemoteEvent: messages for one target and tick are merged.
MutantMergeRemoteEvent(r) ==
    /\ mode = "Merge"
    /\ NextDelivery(r)
    /\ ScheduleEventAt(r.target, r.tick, "Parallel")
    /\ remote_events' = {u \in remote_events : u.target # r.target \/ u.tick # r.tick}
    /\ UNCHANGED <<mode, call, loop, worker, rollback, partition_nows, batch_error, serial,
                   ret, now, client, ghosts>>

\* One round of merge_remote_parallel_events.  If schedule_parallel_at refused
\* the event, the rest of the outbox would be dropped with it.
MergeRemoteEvent(r) ==
    /\ mode = "Merge"
    /\ NextDelivery(r)
    /\ IF r.tick >= pnow[r.target]
       THEN /\ ScheduleEventAt(r.target, r.tick, "Parallel")
            /\ remote_events' = remote_events \ {r}
            /\ UNCHANGED <<mode, call, loop, worker, rollback, partition_nows,
                           batch_error, serial, ret>>
       ELSE /\ Return("Err")
            /\ UNCHANGED queues
    /\ UNCHANGED <<now, client, ghosts>>

\* The epoch goes on with the partitions that are ready now, unless a worker
\* failed or a serial event has appeared; a mixed event is over.
EndMerge ==
    /\ mode = "Merge"
    /\ remote_events = {}
    /\ \/ /\ call # "mixed" /\ ~batch_error /\ ~SerialAtOrBefore(horizon)
          /\ mode' = "Epoch"
          /\ UNCHANGED <<now, pnow, call, loop, workers, serial, ret>>
       \/ /\ call # "mixed" /\ (batch_error \/ SerialAtOrBefore(horizon))
          /\ Return("Err")
          /\ UNCHANGED <<now, pnow>>
       \/ /\ call = "mixed"
          /\ AdvancePartitionsTo(now)
          /\ Return(IF FrontiersOk' THEN "Ok" ELSE "Err")
    /\ UNCHANGED <<pending, counters, client, ghosts>>

\* Every partition moves to the horizon.  run_until_idle_parallel plans again
\* unless the epoch neither moved the clock nor executed anything.
EndParallelEpoch ==
    /\ mode = "Epoch"
    /\ Ready(horizon) = {}
    /\ AdvancePartitionsTo(horizon)
    /\ \/ /\ ~FrontiersOk'
          /\ Return("Err")
       \/ /\ FrontiersOk'
          /\ call = "parallel" \/ (horizon = before /\ ~executed)
          /\ Return("Ok")
       \/ /\ FrontiersOk'
          /\ call = "parallel_until_idle" /\ ~(horizon = before /\ ~executed)
          /\ mode' = "Plan" /\ horizon' = TickMax
          /\ UNCHANGED <<call, before, executed, workers, serial, ret>>
    /\ UNCHANGED <<pending, counters, client, ghosts>>

-----------------------------------------------------------------------------
(* A single event, serial or parallel, under a plan the client holds.      *)

\* validate_parallel_epoch_plan: planning again up to the plan's horizon
\* gives the same plan, event tokens included
PlanIsCurrent(pl) ==
    /\ ~Idle /\ FrontiersOk
    /\ \E h \in Tick : IsHorizon(h) /\ pl.horizon <= h
    /\ pl = PlanAt(pl.horizon)

MixedEvent(pl, p, e) ==
    /\ mode = "Rest" /\ "mixed" \in Calls
    /\ PlanIsCurrent(pl)
    /\ IsNextPartition(p, e)
    /\ e.tick <= pl.horizon
    /\ call' = "mixed"
    /\ ret' = <<"none", "Ok">>

RunNextMixedEventSerial(pl, p, e) ==
    /\ MixedEvent(pl, p, e)
    /\ DispatchSerial(p, e)
    /\ UNCHANGED <<loop, workers, client, ghosts>>

\* dispatch_next_parallel_in_partition: one worker, one event
RunNextMixedEventParallel(pl, p, e) ==
    /\ MixedEvent(pl, p, e)
    /\ e.kind = "Parallel"
    /\ PopNext(p, e)
    /\ mode' = "Batch"
    /\ horizon' = e.tick
    /\ worker' = [worker EXCEPT ![p] = "busy"]
    /\ rollback' = [rollback EXCEPT ![p] =
                      [id |-> next_id[p], order |-> next_order[p],
                       remote |-> next_remote_order[p], pending |-> pending[p] \ {e},
                       remotes |-> {}]]
    /\ partition_nows' = pnow
    /\ UNCHANGED <<now, before, executed, remote_events, batch_error, serial,
                   client, ghosts>>

\* Mutant of MixedPanic: the error path returns before the clocks move.
MutantMixedPanic(p) ==
    /\ mode = "Batch" /\ worker[p] = "busy" /\ call = "mixed"
    /\ RollbackScheduledEvents(p)
    /\ Return("Err")
    /\ UNCHANGED <<now, pnow, client, ghosts>>

\* A panic undoes the callback, drops its outbox and still moves every clock
\* to the event.
MixedPanic(p) ==
    /\ mode = "Batch" /\ worker[p] = "busy" /\ call = "mixed"
    /\ RollbackScheduledEvents(p)
    /\ AdvancePartitionsTo(horizon)
    /\ Return("Err")
    /\ UNCHANGED <<client, ghosts>>

-----------------------------------------------------------------------------
ClientStep ==
    \/ \E p \in Partitions, t \in ClientTicks, k \in Kinds : ScheduleAt(p, t, k)
    \/ \E p \in Partitions, d \in Delays : ScheduleAfter(p, d)
    \/ \E p \in Partitions : \E e \in pending[p] :
          CancelEvent(p, e) \/ \E t \in ClientTicks : RescheduleEvent(p, e, t)
    \/ QuiescentSnapshot
    \/ \E s \in saved :
          RestoreQuiescent(s) \/ \E f \in Preservable : RestoreCheckpoint(s, f)
    \/ \E f \in Preservable : DiscardExactEvents(f)
    \/ \E t \in ClientTicks \cup {TickMax} : PlanNextParallelEpoch(t)

StartStep ==
    \/ RunUntilIdle
    \/ \E t \in ClientTicks \cup {TickMax} : RunNextEpochUntil(t)
    \/ RunUntilIdleConservative
    \/ \E t \in ClientTicks \cup {TickMax} : RunNextEpochParallelUntil(t)
    \/ RunUntilIdleParallel
    \/ \E pl \in plan, p \in Partitions : \E e \in pending[p] :
          RunNextMixedEventSerial(pl, p, e) \/ RunNextMixedEventParallel(pl, p, e)

\* What a callback does of its own accord
CallbackStep ==
    \/ \E q \in Partitions, d \in Delays : ContextSchedule(q, d)
    \/ \E s \in saved, f \in Preservable : ContextRestore(s, f)
    \/ \E f \in Preservable : ContextDiscard(f)
    \/ \E p \in Partitions, d \in Delays :
          \/ WorkerScheduleLocal(p, d)
          \/ \E q \in Partitions : WorkerScheduleRemote(p, q, d)
    \/ \E p \in Partitions : "panic" \in Calls /\ (WorkerPanic(p) \/ MixedPanic(p))

\* What the scheduler does once a call is running
RunStep ==
    \/ NoSerialEpoch \/ BeginSerialEpoch \/ EndSerial
    \/ DispatchNextInPartition \/ ParallelEventReachedSerialDispatcher
    \/ ContextReturn
    \/ NoParallelEpoch \/ RefuseParallelEpoch \/ BeginParallelEpoch
    \/ BeginBatch \/ BatchOverflow
    \/ \E p \in Partitions : \E e \in pending[p] : WorkerPop(p, e)
    \/ \E p \in Partitions : WorkerReturn(p)
    \/ JoinBatch
    \/ \E r \in remote_events : MergeRemoteEvent(r)
    \/ EndMerge
    \/ EndParallelEpoch

\* The process is gone once the serial dispatcher has panicked.
Halted == mode = "Aborted" /\ UNCHANGED vars

Next == ClientStep \/ StartStep \/ CallbackStep \/ RunStep \/ Halted

Spec == Init /\ [][Next]_vars

\* The thread that called keeps running, and so does every worker.
FairSpec ==
    /\ Spec
    /\ WF_vars(RunStep)

-----------------------------------------------------------------------------
(* Properties                                                              *)

Modes == {"Rest", "Plan", "Serial", "Callback", "Epoch", "Batch", "Merge", "Aborted"}

CallNames == {"none", "until_idle", "epoch", "conservative", "parallel",
              "parallel_until_idle", "mixed"}

Snapshot == [now : Tick, pnow : [Partitions -> Tick], next_id : [Partitions -> Nat],
             next_order : [Partitions -> Nat], next_remote_order : [Partitions -> Nat]]

Rollback == [id : Nat, order : Nat, remote : Nat, pending : SUBSET Event,
             remotes : SUBSET RemoteEvent]

QueueType ==
    /\ now \in Tick
    /\ pnow \in [Partitions -> Tick]
    /\ next_id \in [Partitions -> Nat]
    /\ next_order \in [Partitions -> Nat]
    /\ next_runtime_token \in [Partitions -> Nat]
    /\ next_remote_order \in [Partitions -> Nat]
    /\ pending \in [Partitions -> SUBSET Event]

RunType ==
    /\ mode \in Modes /\ call \in CallNames
    /\ horizon \in Tick /\ before \in Tick /\ executed \in BOOLEAN
    /\ ctx \in [partition : Partitions, now : Tick] /\ revised \in BOOLEAN

WorkerType ==
    /\ worker \in [Partitions -> {"off", "run", "busy", "failed", "done"}]
    /\ rollback \in [Partitions -> Rollback]
    /\ partition_nows \in [Partitions -> Tick]
    /\ remote_events \in SUBSET RemoteEvent
    /\ batch_error \in BOOLEAN

ClientType ==
    /\ saved \in SUBSET Snapshot
    /\ \A pl \in plan : pl.horizon \in Tick
    /\ failed \in BOOLEAN /\ corrupt \in BOOLEAN

\* The shape of the scheduler's state (struct PartitionedScheduler and the
\* locals of the running call).
TypeOK == QueueType /\ RunType /\ WorkerType /\ ClientType

\* Runtime invariant 3 of the architecture: a remote message that respects the
\* lookahead is never in the target's past.  It holds of what is in an outbox
\* while the target's worker moves its clock (schedule_remote_after checks only
\* a copy of the clocks), and of whatever a running callback may still send.
LegalRemoteNeverInPast ==
    ~corrupt =>
      /\ \A r \in remote_events : r.tick >= pnow[r.target]
      /\ mode = "Batch" =>
           \A p, q \in Partitions :
              worker[p] = "busy" => /\ partition_nows[q] <= pnow[q]
                                    /\ pnow[q] <= pnow[p] + min_remote_delay
      /\ mode = "Callback" /\ ~revised =>
           \A q \in Partitions : pnow[q] <= ctx.now + min_remote_delay

\* No partition's clock passes one of its pending events, whoever moved it: a
\* worker, the end of an epoch, a mixed event, a panic or a restore.
PendingNotBeforeClock ==
    ~corrupt => \A p \in Partitions : \A e \in pending[p] : pnow[p] <= e.tick

\* Between calls every clock is on the scheduler's clock, which is what
\* restore_quiescent demands of a snapshot, unless a batch failed half way; and even
\* then no two clocks, the scheduler's own included, are further apart than the
\* lookahead.
SkewBounded ==
    mode = "Rest" /\ ~corrupt =>
      /\ ~failed => \A p \in Partitions : pnow[p] = now
      /\ \A p, q \in Partitions : /\ pnow[p] <= pnow[q] + min_remote_delay
                                  /\ pnow[p] <= now + min_remote_delay
                                  /\ now <= pnow[p] + min_remote_delay

\* A worker never meets a serial event (it would drop it), and the test for one
\* after every merge never succeeds.
NoSerialInParallelEpoch ==
    mode \in {"Epoch", "Batch", "Merge"} /\ call \in ParallelCalls
      => ~SerialAtOrBefore(horizon)

\* The ids, the orders and the tokens of a partition's pending events are
\* distinct and below its counters, through rollbacks and restores.
EventsDistinct ==
    ~corrupt => \A p \in Partitions :
      /\ \A e \in pending[p] : /\ e.id < next_id[p]
                               /\ e.order < next_order[p]
                               /\ e.token < next_runtime_token[p]
      /\ \A e, f \in pending[p] :
            e.id = f.id \/ e.order = f.order \/ e.token = f.token => e = f

\* What rollback_scheduled_events and the truncation of the outbox keep is
\* exactly what was there when the callback started.
PanicLeavesNoTrace ==
    ~corrupt => \A p \in Partitions : worker[p] = "busy" =>
      /\ KeptEvents(p) = rollback[p].pending
      /\ {r \in TruncatedRemotes(p) : r.source = p} = rollback[p].remotes

RestoreStep == \E s \in saved : now' = s.now /\ pnow' = s.pnow

ForwardStep ==
    corrupt' \/ RestoreStep \/ /\ \A p \in Partitions : pnow[p] <= pnow'[p]
                               /\ failed \/ now <= now'

FreshTokenStep ==
    corrupt' \/ \A p \in Partitions :
      /\ next_runtime_token[p] <= next_runtime_token'[p]
      /\ \A e \in pending'[p] :
            \/ \E f \in pending[p] : f.token = e.token /\ f.id = e.id
            \/ e.token >= next_runtime_token[p]

DeliveryStep ==
    corrupt' \/ \A r \in remote_events \ remote_events' :
      \/ /\ remote_events' = remote_events \ {r}
         /\ \E f \in pending'[r.target] :
               f.tick = r.tick /\ f.token = next_runtime_token[r.target]
      \/ worker[r.source] = "busy" /\ r.order >= rollback[r.source].remote

\* A partition's clock only moves back in a restore.  The scheduler's own clock
\* may also move back after a batch failed.
ClocksMoveForward == [][ForwardStep]_vars

\* A token names one event for ever: an event that was not pending before has a
\* token never handed out, and the counter never goes back.  The comparison of
\* plans (validate_parallel_epoch_plan) and the exact-event checks of a restore
\* rest on it, ids and orders being reused.
TokenNamesOneEvent == [][FreshTokenStep]_vars

\* A message accepted into an outbox leaves it only by becoming an event of its
\* target at its tick, one event for each message, or because the callback that sent it panicked: merging
\* never refuses a message and so never drops the rest of the outbox.
NoRemoteLost == [][DeliveryStep]_vars

\* Every call returns: no worker, batch, merge or epoch loop runs for ever when
\* the callbacks schedule finitely many events.
CallsReturn == mode # "Rest" ~> mode \in {"Rest", "Aborted"}

\* run_until_idle_parallel returns Ok only when nothing is pending.
UntilIdleMeansIdle ==
    mode = "Rest" /\ ret = <<"parallel_until_idle", "Ok">> => Idle

\* An epoch that stops, also because a horizon is too close to the end of time,
\* leaves pending what it did not dispatch (run_parallel_batch).
OverflowKeepsEvents == [][mode = "Epoch" /\ mode' = "Rest" => pending' = pending]_vars
===============================================================================
