---------------------- MODULE PartitionedSchedulerProofs ----------------------
(***************************************************************************)
(* The inductive invariant of PartitionedScheduler, that every step keeps  *)
(* it, and the theorems that follow from it: for every number of           *)
(* partitions, every lookahead, worker limit, set of delays and set of     *)
(* client calls.                                                           *)
(***************************************************************************)
EXTENDS PartitionedScheduler, TLAPS

-----------------------------------------------------------------------------
(* The inductive invariant behind those properties: what the clocks, the   *)
(* horizon and the pending events have to do with each other in every mode *)
(* of a call.                                                              *)

InParallel == mode \in {"Epoch", "Batch", "Merge"}
InSerial   == mode \in {"Serial", "Callback"}

\* Which call can be in which mode, and which worker states go with it
ControlInv ==
    /\ mode = "Rest" => call = "none"
    /\ mode = "Plan" => call \in SerialCalls \cup ParallelCalls
    /\ mode = "Plan" /\ call \in {"conservative", "parallel_until_idle"} => horizon = TickMax
    /\ call = "until_idle" => horizon = TickMax
    /\ mode = "Serial" => call \in SerialCalls \cup {"until_idle"}
    /\ mode = "Callback" => call \in SerialCalls \cup {"until_idle", "mixed"}
    /\ mode = "Epoch" => call \in ParallelCalls
    /\ mode \in {"Batch", "Merge"} => call \in ParallelCalls \cup {"mixed"}
    /\ mode # "Batch" => \A p \in Partitions : worker[p] = "off"
    /\ mode \notin {"Batch", "Merge"} => remote_events = {} /\ ~batch_error
    /\ call = "mixed" => /\ ~batch_error
                         /\ \A p \in Partitions : worker[p] \in {"off", "busy", "done"}
                         /\ mode = "Merge" => now = horizon
    /\ mode = "Batch" => ~batch_error
    /\ batch_error => failed

\* Clocks at rest, and in the mode that plans the next epoch
Calm ==
    /\ \A p, q \in Partitions : /\ pnow[p] <= pnow[q] + min_remote_delay
                                /\ pnow[p] <= now + min_remote_delay
                                /\ now <= pnow[p] + min_remote_delay
    /\ \E p \in Partitions : pnow[p] <= now
    /\ ~failed => \A p \in Partitions : pnow[p] = now

RestInv == mode \in {"Rest", "Plan"} => Calm

\* The horizon bounds every clock a worker can reach, and every message a
\* worker can send lies at or beyond the horizon.
EpochInv ==
    InParallel =>
      /\ \A p, q \in Partitions : pnow[p] <= pnow[q] + min_remote_delay
      /\ \A p \in Partitions : /\ horizon <= pnow[p] + min_remote_delay
                               /\ pnow[p] <= now + min_remote_delay
                               /\ now <= pnow[p] + min_remote_delay
                               /\ ~failed => pnow[p] <= horizon
                               /\ mode = "Batch" => partition_nows[p] <= pnow[p]
      /\ ~batch_error /\ call # "mixed" => now <= horizon
      /\ ~failed => now <= horizon
      /\ horizon <= now + min_remote_delay
      /\ \E p \in Partitions : pnow[p] <= horizon
      /\ batch_error => \E p \in Partitions : pnow[p] <= now
      /\ \A r \in remote_events : r.tick >= horizon /\ r.tick >= pnow[r.target]
      /\ call = "mixed" =>
           \A p \in Partitions : /\ worker[p] = "busy" => pnow[p] = horizon
                                 /\ \A e \in pending[p] : e.tick >= horizon

\* Serial execution dispatches the globally first event, so no clock is more
\* than the lookahead ahead of what is still pending.
SerialInv ==
    /\ InSerial =>
         /\ \A q \in Partitions : pnow[q] <= now + min_remote_delay
         /\ \E q \in Partitions : pnow[q] <= now
         /\ ~failed => \A q \in Partitions : pnow[q] <= now
    /\ mode = "Serial" =>
         \A p, q \in Partitions : \A e \in pending[p] :
            pnow[q] <= e.tick + min_remote_delay /\ (~failed => now <= e.tick)
    /\ call \in SerialCalls /\ (mode = "Serial" \/ (mode = "Callback" /\ ~revised)) =>
            /\ now <= horizon
            /\ \A q \in Partitions : /\ pnow[q] <= horizon + min_remote_delay
                                     /\ ~failed => pnow[q] <= horizon
    /\ mode = "Callback" =>
         \/ revised /\ \A q \in Partitions : pnow[q] = now
         \/ ctx.now = now /\ \A p \in Partitions : \A e \in pending[p] : now <= e.tick

\* The counters of a running worker have only moved on since its callback
\* started, an outbox never names the same send twice, and a mixed event runs
\* alone.
RollbackInv ==
    /\ \A p \in Partitions : worker[p] = "busy" =>
         /\ rollback[p].id <= next_id[p]
         /\ rollback[p].order <= next_order[p]
         /\ rollback[p].remote <= next_remote_order[p]
    /\ \A r \in remote_events : r.order < next_remote_order[r.source]
    /\ call = "mixed" => \A p \in Partitions : worker[p] = "busy" =>
         /\ rollback[p].remotes = {}
         /\ \A r \in remote_events : r.source = p
         /\ \A q \in Partitions : worker[q] = "busy" => q = p

\* The inductive invariant: the checked invariants with, while no batch was
\* abandoned, the bounds on clocks and horizon in every mode of a call.
IInv ==
    /\ TypeOK
    /\ ControlInv
    /\ NoSerialInParallelEpoch
    /\ PendingNotBeforeClock /\ EventsDistinct /\ PanicLeavesNoTrace
    /\ ~corrupt => RestInv /\ EpochInv /\ SerialInv /\ RollbackInv

-----------------------------------------------------------------------------
(* Typing                                                                  *)

\* A horizon is a tick, and so is a smaller limit.
LEMMA Min2Tick ==
    ASSUME NEW a \in Tick, NEW b \in Tick
    PROVE  Min2(a, b) \in Tick /\ Max2(a, b) \in Tick
  BY Zenon DEF Min2, Max2

\* Scheduling keeps a queue well formed (PartitionQueue::schedule_event_at).
LEMMA ScheduleType ==
    ASSUME QueueType, NEW p \in Partitions, NEW t \in Tick, NEW k \in Kinds,
           ScheduleEventAt(p, t, k), now' = now
    PROVE  QueueType'
  BY TickAssumption, SMTT(60) DEF QueueType, ScheduleEventAt, Event, Kinds, Tick

\* A call that returns leaves run and worker state well formed.
LEMMA SettleType == Settle => RunType' /\ WorkerType'
  <1> SUFFICES ASSUME Settle PROVE RunType' /\ WorkerType'
    BY Zenon
  <1> 0 \in Partitions /\ 0 \in Tick
    BY PartitionsAssumption, TickAssumption DEF Partitions, Tick
  <1>1. RunType'
    BY Zenon DEF Settle, RunType, Modes, CallNames
  <1>2. NoRollback \in Rollback
    BY Zenon DEF NoRollback, Rollback
  <1>3. WorkerType'
    BY Zenon, <1>2 DEF Settle, WorkerType
  <1> QED
    BY Zenon, <1>1, <1>3

\* A new scheduler is well formed (PartitionedScheduler::new).
LEMMA InitType == Init => TypeOK
  <1> SUFFICES ASSUME Init PROVE TypeOK
    BY Zenon
  <1> 0 \in Partitions /\ 0 \in Tick
    BY PartitionsAssumption, TickAssumption DEF Partitions, Tick
  <1> NoRollback \in Rollback
    BY Zenon DEF NoRollback, Rollback
  <1>1. QueueType
    BY Zenon DEF Init, QueueType
  <1>2. RunType
    BY Zenon DEF Init, RunType, Modes, CallNames
  <1>3. WorkerType
    BY Zenon DEF Init, WorkerType
  <1>4. ClientType
    BY Zenon DEF Init, ClientType
  <1> QED
    BY Zenon, <1>1, <1>2, <1>3, <1>4 DEF TypeOK

\* Popping the head of a queue, and moving its clock to it.
LEMMA PopType ==
    ASSUME QueueType, NEW p \in Partitions, NEW e \in pending[p], PopNext(p, e)
    PROVE  /\ pnow' \in [Partitions -> Tick]
           /\ pending' \in [Partitions -> SUBSET Event]
           /\ UNCHANGED counters
           /\ e \in Event /\ e.tick \in Tick
  BY DEF QueueType, PopNext, Event

\* Moving the clocks up keeps the queues well formed.
LEMMA AdvanceType ==
    ASSUME QueueType, NEW t \in Tick, AdvancePartitionsTo(t)
    PROVE  now' \in Tick /\ pnow' \in [Partitions -> Tick]
  BY Zenon, Min2Tick DEF QueueType, AdvancePartitionsTo

\* A rollback only removes events and takes the saved counters.
LEMMA RollbackType ==
    ASSUME QueueType, WorkerType, NEW p \in Partitions, RollbackScheduledEvents(p)
    PROVE  /\ next_id' \in [Partitions -> Nat]
           /\ next_order' \in [Partitions -> Nat]
           /\ next_runtime_token' \in [Partitions -> Nat]
           /\ next_remote_order' \in [Partitions -> Nat]
           /\ pending' \in [Partitions -> SUBSET Event]
  BY Zenon DEF QueueType, WorkerType, RollbackScheduledEvents, KeptEvents, Rollback

\* A restored projection is well formed (restore_checkpoint_projection).
LEMMA RestoreType ==
    ASSUME QueueType, NEW s \in Snapshot, NEW f \in Preservable, RestoreProjection(s, f)
    PROVE  QueueType'
  <1>1. pending' \in [Partitions -> SUBSET Event]
    BY Zenon DEF QueueType, RestoreProjection, Preservable
  <1>2. next_id' \in [Partitions -> Nat] /\ next_order' \in [Partitions -> Nat]
    BY BoundAssumption DEF RestoreProjection
  <1> QED
    BY Zenon, <1>1, <1>2 DEF QueueType, RestoreProjection, Snapshot

\* The queues as they are may be preserved, or any part of them.
LEMMA PendingPreservable == QueueType => pending \in Preservable
  BY Zenon DEF QueueType, Preservable

\* A client call between two runs changes queues or what the client keeps.
LEMMA ClientStepType == TypeOK /\ ClientStep => TypeOK'
  <1> SUFFICES ASSUME TypeOK, ClientStep PROVE TypeOK'
    BY Zenon
  <1> USE DEF TypeOK
  <1>a. ASSUME NEW c, AtRest(c) PROVE RunType' /\ WorkerType'
    BY Zenon, <1>a DEF AtRest, RunType, WorkerType, loop, workers, serial
  <1>b. ASSUME UNCHANGED <<client, ghosts>> PROVE ClientType'
    BY Zenon, <1>b DEF ClientType, client, ghosts
  <1>1. ASSUME NEW p \in Partitions, NEW t \in ClientTicks, NEW k \in Kinds, ScheduleAt(p, t, k)
        PROVE TypeOK'
    BY Zenon, <1>1, <1>a, <1>b, ScheduleType, ClientAssumption DEF ScheduleAt, Tick
  <1>2. ASSUME NEW p \in Partitions, NEW d \in Delays, ScheduleAfter(p, d) PROVE TypeOK'
    <2>1. now + d \in Tick /\ "Serial" \in Kinds
      BY <1>2, DelaysAssumption, TickAssumption DEF ScheduleAfter, QueueType, Tick, Kinds
    <2> QED
      BY Zenon, <1>2, <2>1, <1>a, <1>b, ScheduleType DEF ScheduleAfter
  <1>3. ASSUME NEW p \in Partitions, NEW e \in pending[p], CancelEvent(p, e) PROVE TypeOK'
    <2>1. QueueType'
      BY Zenon, <1>3 DEF CancelEvent, QueueType, counters
    <2> QED
      BY Zenon, <1>3, <2>1, <1>a, <1>b DEF CancelEvent
  <1>4. ASSUME NEW p \in Partitions, NEW e \in pending[p], NEW t \in ClientTicks,
               RescheduleEvent(p, e, t)
        PROVE TypeOK'
    <2>1. [e EXCEPT !.tick = t] \in Event
      BY ClientAssumption DEF QueueType, Event, Tick
    <2>2. QueueType'
      BY Zenon, <1>4, <2>1 DEF RescheduleEvent, QueueType, counters
    <2> QED
      BY Zenon, <1>4, <2>2, <1>a, <1>b DEF RescheduleEvent
  <1>5. ASSUME QuiescentSnapshot PROVE TypeOK'
    <2>1. QueueType'
      BY Zenon, <1>5 DEF QuiescentSnapshot, QueueType, queues, counters
    <2>2. ClientType'
      BY <1>5 DEF QuiescentSnapshot, QueueType, ClientType, Snapshot, ghosts
    <2> QED
      BY Zenon, <1>5, <2>1, <2>2, <1>a DEF QuiescentSnapshot
  <1>6. ASSUME NEW s \in saved, RestoreQuiescent(s) PROVE TypeOK'
    <2>1. QueueType'
      BY Zenon, <1>6, RestoreType, PendingPreservable DEF RestoreQuiescent, ClientType
    <2>2. ClientType'
      BY Zenon, <1>6 DEF RestoreQuiescent, ClientType, client
    <2> QED
      BY Zenon, <1>6, <2>1, <2>2, <1>a DEF RestoreQuiescent
  <1>7. ASSUME NEW s \in saved, NEW f \in Preservable, RestoreCheckpoint(s, f) PROVE TypeOK'
    <2>1. QueueType'
      BY Zenon, <1>7, RestoreType DEF RestoreCheckpoint, ClientType
    <2>2. ClientType'
      BY Zenon, <1>7 DEF RestoreCheckpoint, ClientType, client
    <2> QED
      BY Zenon, <1>7, <2>1, <2>2, <1>a DEF RestoreCheckpoint
  <1>8. ASSUME NEW f \in Preservable, DiscardExactEvents(f) PROVE TypeOK'
    <2>1. QueueType'
      BY Zenon, <1>8 DEF DiscardExactEvents, QueueType, Preservable, counters
    <2> QED
      BY Zenon, <1>8, <2>1, <1>a, <1>b DEF DiscardExactEvents
  <1>9. ASSUME NEW t \in ClientTicks \cup {TickMax}, PlanNextParallelEpoch(t) PROVE TypeOK'
    <2>1. QueueType'
      BY Zenon, <1>9 DEF PlanNextParallelEpoch, QueueType, queues, counters
    <2>2. t \in Tick
      BY ClientAssumption, TickAssumption DEF Tick
    <2>3. ClientType'
      BY <1>9, <2>2, Min2Tick DEF PlanNextParallelEpoch, ClientType, PlanAt, ghosts
    <2> QED
      BY Zenon, <1>9, <2>1, <2>3, <1>a DEF PlanNextParallelEpoch
  <1> QED
    BY Zenon, <1>1, <1>2, <1>3, <1>4, <1>5, <1>6, <1>7, <1>8, <1>9 DEF ClientStep

\* Starting a run call keeps the type.
LEMMA StartStepType == TypeOK /\ StartStep => TypeOK'
  <1> SUFFICES ASSUME TypeOK, StartStep PROVE TypeOK'
    BY Zenon
  <1> USE DEF TypeOK
  <1>a. ASSUME NEW c \in CallNames, NEW m \in Modes, NEW h \in Tick, Start(c, m, h) PROVE TypeOK'
    <2>1. QueueType' /\ ClientType'
      BY Zenon, <1>a DEF Start, QueueType, ClientType, queues, counters, client, ghosts
    <2>2. RunType'
      BY Zenon, <1>a DEF Start, RunType, serial
    <2>3. WorkerType'
      BY Zenon, <1>a DEF Start, WorkerType, workers
    <2> QED
      BY Zenon, <2>1, <2>2, <2>3
  <1>b. ClientTicks \cup {TickMax} \subseteq Tick
    BY ClientAssumption, TickAssumption DEF Tick
  <1>1. CASE RunUntilIdle
    BY Zenon, <1>1, <1>a, <1>b DEF RunUntilIdle, CallNames, Modes
  <1>2. ASSUME NEW t \in ClientTicks \cup {TickMax}, RunNextEpochUntil(t) PROVE TypeOK'
    BY Zenon, <1>2, <1>a, <1>b DEF RunNextEpochUntil, CallNames, Modes
  <1>3. CASE RunUntilIdleConservative
    BY Zenon, <1>3, <1>a, <1>b DEF RunUntilIdleConservative, CallNames, Modes
  <1>4. ASSUME NEW t \in ClientTicks \cup {TickMax}, RunNextEpochParallelUntil(t) PROVE TypeOK'
    BY Zenon, <1>4, <1>a, <1>b DEF RunNextEpochParallelUntil, CallNames, Modes
  <1>5. CASE RunUntilIdleParallel
    BY Zenon, <1>5, <1>a, <1>b DEF RunUntilIdleParallel, CallNames, Modes
  <1>6. ASSUME NEW pl \in plan, NEW p \in Partitions, NEW e \in pending[p],
               RunNextMixedEventSerial(pl, p, e)
        PROVE TypeOK'
    <2> USE <1>6 DEF RunNextMixedEventSerial, MixedEvent, DispatchSerial
    <2>1. QueueType'
      BY Zenon, PopType DEF QueueType, counters
    <2>2. RunType'
      BY Zenon, PopType DEF RunType, Modes, CallNames, loop
    <2>3. WorkerType' /\ ClientType'
      BY Zenon DEF WorkerType, ClientType, workers, client, ghosts
    <2> QED
      BY Zenon, <2>1, <2>2, <2>3
  <1>7. ASSUME NEW pl \in plan, NEW p \in Partitions, NEW e \in pending[p],
               RunNextMixedEventParallel(pl, p, e)
        PROVE TypeOK'
    <2> USE <1>7 DEF RunNextMixedEventParallel, MixedEvent
    <2>1. QueueType'
      BY Zenon, PopType DEF QueueType, counters
    <2>2. RunType' /\ ClientType'
      BY Zenon, PopType DEF RunType, Modes, CallNames, serial, ClientType, client, ghosts
    <2>3. [id |-> next_id[p], order |-> next_order[p],
           remote |-> next_remote_order[p], pending |-> pending[p] \ {e},
           remotes |-> {}] \in Rollback
      BY Zenon DEF QueueType, Rollback
    <2>4. WorkerType'
      BY Zenon, <2>3 DEF WorkerType, QueueType
    <2> QED
      BY Zenon, <2>1, <2>2, <2>4
  <1> QED
    BY Zenon, <1>1, <1>2, <1>3, <1>4, <1>5, <1>6, <1>7 DEF StartStep

\* What a serial or parallel callback does keeps the type.
LEMMA CallbackStepType == TypeOK /\ CallbackStep => TypeOK'
  <1> SUFFICES ASSUME TypeOK, CallbackStep PROVE TypeOK'
    BY Zenon
  <1> USE DEF TypeOK
  <1>k. "Serial" \in Kinds /\ "Parallel" \in Kinds
    BY Zenon DEF Kinds
  <1>1. ASSUME NEW q \in Partitions, NEW d \in Delays, ContextSchedule(q, d) PROVE TypeOK'
    <2>1. ctx.now + d \in Tick
      BY <1>1, DelaysAssumption, TickAssumption DEF ContextSchedule, RunType, Tick
    <2>2. QueueType'
      BY Zenon, <1>1, <1>k, <2>1, ScheduleType DEF ContextSchedule
    <2> QED
      BY Zenon, <1>1, <2>2 DEF ContextSchedule, RunType, WorkerType, ClientType, loop, workers, serial,
         client, ghosts
  <1>2. ASSUME NEW s \in saved, NEW f \in Preservable, ContextRestore(s, f) PROVE TypeOK'
    <2>1. QueueType'
      BY Zenon, <1>2, RestoreType DEF ContextRestore, ClientType
    <2>2. RunType' /\ WorkerType' /\ ClientType'
      BY Zenon, <1>2 DEF ContextRestore, RunType, WorkerType, ClientType, loop, workers, client
    <2> QED
      BY Zenon, <2>1, <2>2
  <1>3. ASSUME NEW f \in Preservable, ContextDiscard(f) PROVE TypeOK'
    <2>1. QueueType'
      BY Zenon, <1>3 DEF ContextDiscard, QueueType, Preservable, counters
    <2>2. RunType' /\ WorkerType' /\ ClientType'
      BY Zenon, <1>3 DEF ContextDiscard, RunType, WorkerType, ClientType, loop, workers, client, ghosts
    <2> QED
      BY Zenon, <2>1, <2>2
  <1>4. ASSUME NEW p \in Partitions, NEW d \in Delays, WorkerScheduleLocal(p, d) PROVE TypeOK'
    <2>1. pnow[p] + d \in Tick
      BY <1>4, DelaysAssumption, TickAssumption DEF WorkerScheduleLocal, QueueType, Tick
    <2>2. QueueType'
      BY Zenon, <1>4, <1>k, <2>1, ScheduleType DEF WorkerScheduleLocal
    <2> QED
      BY Zenon, <1>4, <2>2 DEF WorkerScheduleLocal, RunType, WorkerType, ClientType, loop, workers, serial,
         client, ghosts
  <1>5. ASSUME NEW p \in Partitions, NEW d \in Delays, NEW q \in Partitions,
               WorkerScheduleRemote(p, q, d)
        PROVE TypeOK'
    <2> USE <1>5 DEF WorkerScheduleRemote
    <2>1. pnow[p] + d \in Tick
      BY DelaysAssumption, TickAssumption DEF QueueType, Tick
    <2>2. [source |-> p, target |-> q, tick |-> pnow[p] + d, order |-> next_remote_order[p]]
             \in RemoteEvent
      BY Zenon, <2>1 DEF RemoteEvent, QueueType
    <2>3. QueueType'
      BY DEF QueueType
    <2>4. RunType' /\ WorkerType' /\ ClientType'
      BY Zenon, <2>2 DEF RunType, WorkerType, ClientType, loop, serial, client, ghosts
    <2> QED
      BY Zenon, <2>3, <2>4
  <1>6. ASSUME NEW p \in Partitions, WorkerPanic(p) PROVE TypeOK'
    <2> USE <1>6 DEF WorkerPanic
    <2>1. QueueType'
      BY Zenon, RollbackType DEF QueueType
    <2>2. NoRollback \in Rollback
      BY Zenon DEF NoRollback, Rollback
    <2>3. RunType' /\ WorkerType' /\ ClientType'
      BY Zenon, <2>2 DEF RunType, WorkerType, ClientType, TruncatedRemotes, loop, serial, client, ghosts
    <2> QED
      BY Zenon, <2>1, <2>3
  <1>7. ASSUME NEW p \in Partitions, MixedPanic(p) PROVE TypeOK'
    <2> USE <1>7 DEF MixedPanic
    <2>1. QueueType'
      BY Zenon, RollbackType, AdvanceType DEF QueueType, RunType
    <2>2. RunType' /\ WorkerType' /\ ClientType'
      BY Zenon, SettleType DEF Return, ClientType, client, ghosts
    <2> QED
      BY Zenon, <2>1, <2>2
  <1> QED
    BY Zenon, <1>1, <1>2, <1>3, <1>4, <1>5, <1>6, <1>7 DEF CallbackStep

\* Both loops of plans and the serial loop
LEMMA PlanStepType ==
    ASSUME TypeOK, \/ NoSerialEpoch \/ BeginSerialEpoch \/ NoParallelEpoch
                   \/ RefuseParallelEpoch \/ BeginParallelEpoch
    PROVE  TypeOK'
  <1> USE DEF TypeOK
  <1>1. CASE NoSerialEpoch
    BY Zenon, <1>1, SettleType
       DEF NoSerialEpoch, Return, QueueType, ClientType, queues, counters, client, ghosts
  <1>2. CASE BeginSerialEpoch
    <2>1. QueueType' /\ ClientType' /\ WorkerType'
      BY Zenon, <1>2 DEF BeginSerialEpoch, QueueType, ClientType, WorkerType, queues, counters, workers,
         client, ghosts
    <2>2. RunType'
      BY Zenon, <1>2, Min2Tick DEF BeginSerialEpoch, RunType, QueueType, Modes, serial
    <2> QED
      BY Zenon, <2>1, <2>2
  <1>3. CASE NoParallelEpoch
    BY Zenon, <1>3, SettleType
       DEF NoParallelEpoch, Return, QueueType, ClientType, queues, counters, client, ghosts
  <1>4. CASE RefuseParallelEpoch
    BY Zenon, <1>4, SettleType
       DEF RefuseParallelEpoch, Return, QueueType, ClientType, queues, counters, client, ghosts
  <1>5. CASE BeginParallelEpoch
    <2>1. QueueType' /\ ClientType' /\ WorkerType'
      BY Zenon, <1>5 DEF BeginParallelEpoch, QueueType, ClientType, WorkerType, queues, counters, workers,
         client, ghosts
    <2>2. RunType'
      BY ZenonT(30), <1>5, Min2Tick DEF BeginParallelEpoch, RunType, QueueType, Modes, serial
    <2> QED
      BY Zenon, <2>1, <2>2
  <1> QED
    BY Zenon, <1>1, <1>2, <1>3, <1>4, <1>5

\* The steps of the serial dispatcher keep the type.
LEMMA SerialStepType ==
    ASSUME TypeOK, \/ DispatchNextInPartition \/ ParallelEventReachedSerialDispatcher
                   \/ EndSerial \/ ContextReturn
    PROVE  TypeOK'
  <1> USE DEF TypeOK
  <1>0. 0 \in Partitions /\ 0 \in Tick /\ TickMax \in Tick
    BY PartitionsAssumption, TickAssumption DEF Partitions, Tick
  <1>1. CASE DispatchNextInPartition
    <2> USE <1>1 DEF DispatchNextInPartition, DispatchSerial
    <2>1. PICK p \in Partitions : \E e \in pending[p] : DispatchSerial(p, e)
      BY Zenon
    <2>2. PICK e \in pending[p] : DispatchSerial(p, e)
      BY Zenon, <2>1
    <2>3. QueueType'
      BY Zenon, <2>2, PopType DEF QueueType, counters
    <2>4. RunType'
      BY Zenon, <2>2, PopType DEF RunType, Modes
    <2>5. WorkerType' /\ ClientType'
      BY Zenon DEF WorkerType, ClientType, workers, client, ghosts
    <2> QED
      BY Zenon, <2>3, <2>4, <2>5
  <1>2. CASE ParallelEventReachedSerialDispatcher
    <2> USE <1>2 DEF ParallelEventReachedSerialDispatcher
    <2>1. PICK p \in Partitions : \E e \in pending[p] : PopNext(p, e) /\ now' = e.tick
      BY Zenon
    <2>2. PICK e \in pending[p] : PopNext(p, e) /\ now' = e.tick
      BY Zenon, <2>1
    <2>3. QueueType'
      BY Zenon, <2>2, PopType DEF QueueType, counters
    <2>4. RunType' /\ WorkerType' /\ ClientType'
      BY Zenon DEF RunType, Modes, WorkerType, ClientType, loop, workers, serial, client, ghosts
    <2> QED
      BY Zenon, <2>3, <2>4
  <1>3. CASE EndSerial
    <2> USE <1>3 DEF EndSerial
    <2>1. QueueType'
      BY Zenon, AdvanceType DEF QueueType, RunType, counters
    <2>2. RunType' /\ WorkerType'
      BY Zenon, <1>0, SettleType DEF RunType, WorkerType, Return, Modes, workers, serial
    <2> QED
      BY Zenon, <2>1, <2>2 DEF ClientType, client, ghosts
  <1>4. CASE ContextReturn
    <2> USE <1>4 DEF ContextReturn
    <2>1. QueueType'
      BY Zenon, AdvanceType DEF QueueType, counters
    <2>2. RunType' /\ WorkerType'
      <3>1. CASE Settle
        BY Zenon, <3>1, SettleType
      <3>2. CASE ~Settle
        <4>1. WorkerType' /\ call' \in CallNames
          BY Zenon, <3>2 DEF RunType, WorkerType, Return, workers
        <4>2. mode' \in Modes /\ horizon' \in Tick /\ before' \in Tick /\ executed' \in BOOLEAN
          BY Zenon, <1>0, <3>2 DEF RunType, Return, Modes, loop
        <4>3. ctx' \in [partition : Partitions, now : Tick] /\ revised' \in BOOLEAN
          <5>1. ctx' = [partition |-> 0, now |-> 0] /\ revised' = FALSE
            BY Zenon, <3>2, Zenon DEF Return
          <5> QED
            BY Zenon, <1>0, <5>1
        <4> QED
          BY Zenon, <4>1, <4>2, <4>3 DEF RunType
      <3> QED
        BY Zenon, <3>1, <3>2
    <2> QED
      BY Zenon, <2>1, <2>2 DEF ClientType, client, ghosts
  <1> QED
    BY Zenon, <1>1, <1>2, <1>3, <1>4

\* The steps of a parallel epoch keep the type.
LEMMA ParallelStepType ==
    ASSUME TypeOK, \/ BeginBatch \/ BatchOverflow
                   \/ \E p \in Partitions : \E e \in pending[p] : WorkerPop(p, e)
                   \/ \E p \in Partitions : WorkerReturn(p)
                   \/ JoinBatch
                   \/ \E r \in remote_events : MergeRemoteEvent(r)
                   \/ EndMerge \/ EndParallelEpoch
    PROVE  TypeOK'
  <1> USE DEF TypeOK
  <1>0. 0 \in Partitions /\ 0 \in Tick /\ TickMax \in Tick /\ "Parallel" \in Kinds
    BY PartitionsAssumption, TickAssumption DEF Partitions, Tick, Kinds
  <1>1. CASE BeginBatch
    <2> USE <1>1 DEF BeginBatch
    <2>1. QueueType' /\ RunType' /\ ClientType'
      BY Zenon DEF QueueType, RunType, ClientType, Modes, queues, counters, loop, serial, client, ghosts
    <2>2. WorkerType'
      BY Zenon DEF WorkerType, QueueType
    <2> QED
      BY Zenon, <2>1, <2>2
  <1>2. CASE BatchOverflow
    <2> USE <1>2 DEF BatchOverflow
    <2>1. QueueType'
      BY <1>0 DEF QueueType
    <2> QED
      BY Zenon, <2>1, SettleType DEF Return, ClientType, client
  <1>3. ASSUME NEW p \in Partitions, NEW e \in pending[p], WorkerPop(p, e) PROVE TypeOK'
    <2> USE <1>3 DEF WorkerPop
    <2>1. QueueType' /\ RunType' /\ ClientType'
      BY Zenon, PopType DEF QueueType, RunType, ClientType, counters, loop, serial, client, ghosts
    <2>2. [id |-> next_id[p], order |-> next_order[p],
           remote |-> next_remote_order[p], pending |-> pending[p] \ {e},
           remotes |-> {r \in remote_events : r.source = p}] \in Rollback
      BY Zenon DEF QueueType, WorkerType, Rollback
    <2>3. WorkerType'
      BY Zenon, <2>2 DEF WorkerType
    <2> QED
      BY Zenon, <2>1, <2>3
  <1>4. ASSUME NEW p \in Partitions, WorkerReturn(p) PROVE TypeOK'
    <2> USE <1>4 DEF WorkerReturn
    <2>1. QueueType' /\ RunType' /\ ClientType'
      BY Zenon DEF QueueType, RunType, ClientType, queues, counters, serial, client, ghosts
    <2>2. NoRollback \in Rollback
      BY Zenon DEF NoRollback, Rollback
    <2>3. WorkerType'
      BY Zenon, <2>2 DEF WorkerType
    <2> QED
      BY Zenon, <2>1, <2>3
  <1>5. CASE JoinBatch
    <2> USE <1>5 DEF JoinBatch
    <2>1. now' \in Tick
      BY Zenon DEF QueueType, RunType
    <2>2. QueueType' /\ RunType'
      BY Zenon, <2>1 DEF QueueType, RunType, Modes, queues, counters, loop, serial
    <2>3. batch_error' \in BOOLEAN /\ failed' \in BOOLEAN
      BY Zenon
    <2>4. WorkerType' /\ ClientType'
      BY Zenon, <1>0, <2>3 DEF WorkerType, ClientType, client
    <2> QED
      BY Zenon, <2>2, <2>4
  <1>6. ASSUME NEW r \in remote_events, MergeRemoteEvent(r) PROVE TypeOK'
    <2> USE <1>6 DEF MergeRemoteEvent
    <2>1. r.target \in Partitions /\ r.tick \in Tick
      BY Zenon DEF WorkerType, RemoteEvent
    <2>2. QueueType'
      BY Zenon, <1>0, <2>1, ScheduleType DEF QueueType, queues, counters
    <2>3. RunType' /\ WorkerType'
      BY Zenon, SettleType DEF Return, RunType, WorkerType, loop, serial
    <2> QED
      BY Zenon, <2>2, <2>3 DEF ClientType, client, ghosts
  <1>7. CASE EndMerge
    <2> USE <1>7 DEF EndMerge
    <2>1. QueueType'
      BY Zenon, AdvanceType DEF QueueType, counters
    <2>2. RunType' /\ WorkerType'
      BY Zenon, SettleType DEF Return, RunType, WorkerType, Modes, loop, workers, serial
    <2> QED
      BY Zenon, <2>1, <2>2 DEF ClientType, client, ghosts
  <1>8. CASE EndParallelEpoch
    <2> USE <1>8 DEF EndParallelEpoch
    <2>1. QueueType'
      BY Zenon, AdvanceType DEF QueueType, RunType, counters
    <2>2. RunType' /\ WorkerType'
      BY Zenon, <1>0, SettleType DEF Return, RunType, WorkerType, Modes, workers, serial
    <2> QED
      BY Zenon, <2>1, <2>2 DEF ClientType, client, ghosts
  <1> QED
    BY Zenon, <1>1, <1>2, <1>3, <1>4, <1>5, <1>6, <1>7, <1>8

\* Every step keeps the type.
LEMMA TypeStep == TypeOK /\ [Next]_vars => TypeOK'
  <1> SUFFICES ASSUME TypeOK, [Next]_vars PROVE TypeOK'
    BY Zenon
  <1>1. CASE RunStep
    BY Zenon, <1>1, PlanStepType, SerialStepType, ParallelStepType DEF RunStep
  <1>2. CASE UNCHANGED vars
    BY Zenon, <1>2 DEF vars, TypeOK, QueueType, RunType, WorkerType, ClientType, queues, counters, loop,
       workers, serial, client, ghosts
  <1> QED
    BY Zenon, <1>1, <1>2, ClientStepType, StartStepType, CallbackStepType DEF Next, Halted

\* The state of the scheduler and of the running call always has its shape.
THEOREM TypeCorrect == Spec => []TypeOK
  BY InitType, TypeStep, PTL DEF Spec

-----------------------------------------------------------------------------
(* Control, pending events and names                                       *)

\* Once a call has returned nothing of it is left.
LEMMA SettleControl == Settle => ControlInv'
  BY Zenon DEF Settle, ControlInv, SerialCalls, ParallelCalls

\* Every step keeps mode, call and horizon consistent.
LEMMA ControlStep == TypeOK /\ ControlInv /\ [Next]_vars => ControlInv'
  <1> SUFFICES ASSUME TypeOK, ControlInv, Next PROVE ControlInv'
    BY DEF vars, ControlInv, queues, loop, workers, serial, client, ghosts
  <1> USE DEF SerialCalls, ParallelCalls
  <1>1. CASE ClientStep
    <2>1. UNCHANGED <<mode, call, loop, workers>> /\ mode = "Rest"
      BY Zenon, <1>1 DEF ClientStep, ScheduleAt, ScheduleAfter, CancelEvent, RescheduleEvent,
         QuiescentSnapshot, RestoreQuiescent, RestoreCheckpoint, DiscardExactEvents,
         PlanNextParallelEpoch, AtRest
    <2> QED
      BY Zenon, <2>1 DEF ControlInv, loop, workers
  <1>2. CASE StartStep
    <2>1. ASSUME NEW pl \in plan, NEW p \in Partitions, NEW e \in pending[p],
                 RunNextMixedEventSerial(pl, p, e)
          PROVE ControlInv'
      BY Zenon, <2>1 DEF RunNextMixedEventSerial, MixedEvent, DispatchSerial, ControlInv, workers, ghosts
    <2>2. ASSUME NEW pl \in plan, NEW p \in Partitions, NEW e \in pending[p],
                 RunNextMixedEventParallel(pl, p, e)
          PROVE ControlInv'
      BY Zenon, <2>2 DEF RunNextMixedEventParallel, MixedEvent, ControlInv, ghosts, TypeOK, WorkerType
    <2>3. CASE \/ RunUntilIdle
               \/ \E t \in ClientTicks \cup {TickMax} : RunNextEpochUntil(t)
               \/ RunUntilIdleConservative
               \/ \E t \in ClientTicks \cup {TickMax} : RunNextEpochParallelUntil(t)
               \/ RunUntilIdleParallel
      BY <2>3 DEF RunUntilIdle, RunNextEpochUntil, RunUntilIdleConservative,
         RunNextEpochParallelUntil, RunUntilIdleParallel, Start, ControlInv, workers, ghosts
    <2> QED
      BY Zenon, <1>2, <2>1, <2>2, <2>3 DEF StartStep
  <1>3. CASE CallbackStep
    <2>1. ASSUME NEW q \in Partitions, NEW d \in Delays, ContextSchedule(q, d) PROVE ControlInv'
      BY Zenon, <2>1 DEF ContextSchedule, ControlInv, loop, workers, ghosts
    <2>2. ASSUME NEW s \in saved, NEW f \in Preservable, ContextRestore(s, f) PROVE ControlInv'
      BY Zenon, <2>2 DEF ContextRestore, ControlInv, loop, workers
    <2>3. ASSUME NEW f \in Preservable, ContextDiscard(f) PROVE ControlInv'
      BY Zenon, <2>3 DEF ContextDiscard, ControlInv, loop, workers, ghosts
    <2>4. ASSUME NEW p \in Partitions, NEW d \in Delays, WorkerScheduleLocal(p, d) PROVE ControlInv'
      BY Zenon, <2>4 DEF WorkerScheduleLocal, ControlInv, loop, workers, ghosts
    <2>5. ASSUME NEW p \in Partitions, NEW d \in Delays, NEW q \in Partitions,
                 WorkerScheduleRemote(p, q, d)
          PROVE ControlInv'
      BY Zenon, <2>5 DEF WorkerScheduleRemote, ControlInv, loop, ghosts
    <2>6. ASSUME NEW p \in Partitions, WorkerPanic(p) PROVE ControlInv'
      BY Zenon, <2>6 DEF WorkerPanic, ControlInv, loop, ghosts, TypeOK, WorkerType
    <2>7. ASSUME NEW p \in Partitions, MixedPanic(p) PROVE ControlInv'
      BY Zenon, <2>7, SettleControl DEF MixedPanic, Return
    <2> QED
      BY Zenon, <1>3, <2>1, <2>2, <2>3, <2>4, <2>5, <2>6, <2>7 DEF CallbackStep
  <1>4. CASE RunStep
    <2>1. CASE NoSerialEpoch \/ NoParallelEpoch \/ RefuseParallelEpoch \/ BatchOverflow
      BY Zenon, <2>1, SettleControl
         DEF NoSerialEpoch, NoParallelEpoch, RefuseParallelEpoch, BatchOverflow, Return
    <2>2. CASE BeginSerialEpoch
      BY Zenon, <2>2 DEF BeginSerialEpoch, ControlInv, workers, ghosts
    <2>3. CASE BeginParallelEpoch
      BY Zenon, <2>3 DEF BeginParallelEpoch, ControlInv, workers, ghosts
    <2>4. CASE DispatchNextInPartition \/ ParallelEventReachedSerialDispatcher
      BY <2>4 DEF DispatchNextInPartition, DispatchSerial, ParallelEventReachedSerialDispatcher,
         ControlInv, loop, workers, ghosts
    <2>5. CASE EndSerial
      BY Zenon, <2>5, SettleControl DEF EndSerial, Return, ControlInv, workers, ghosts
    <2>6. CASE ContextReturn
      BY <2>6, SettleControl DEF ContextReturn, Return, ControlInv, loop, workers, ghosts
    <2>7. CASE BeginBatch
      BY Zenon, <2>7 DEF BeginBatch, ControlInv, loop, ghosts
    <2>8. ASSUME NEW p \in Partitions, NEW e \in pending[p], WorkerPop(p, e) PROVE ControlInv'
      BY Zenon, <2>8 DEF WorkerPop, ControlInv, loop, ghosts, TypeOK, WorkerType
    <2>9. ASSUME NEW p \in Partitions, WorkerReturn(p) PROVE ControlInv'
      BY Zenon, <2>9 DEF WorkerReturn, ControlInv, loop, ghosts, TypeOK, WorkerType
    <2>10. CASE JoinBatch
      BY Zenon, <2>10 DEF JoinBatch, ControlInv, loop, TypeOK, WorkerType
    <2>11. ASSUME NEW r \in remote_events, MergeRemoteEvent(r) PROVE ControlInv'
      BY Zenon, <2>11, SettleControl DEF MergeRemoteEvent, Return, ControlInv, loop, ghosts
    <2>12. CASE EndMerge
      BY <2>12, SettleControl DEF EndMerge, Return, ControlInv, loop, workers, ghosts
    <2>13. CASE EndParallelEpoch
      BY <2>13, SettleControl DEF EndParallelEpoch, Return, ControlInv, workers, ghosts
    <2> QED
      BY Zenon, <1>4, <2>1, <2>2, <2>3, <2>4, <2>5, <2>6, <2>7, <2>8, <2>9, <2>10, <2>11, <2>12, <2>13
         DEF RunStep
  <1>5. CASE Halted
    BY Zenon, <1>5 DEF Halted, vars, ControlInv, queues, loop, workers, serial, client, ghosts
  <1> QED
    BY Zenon, <1>1, <1>2, <1>3, <1>4, <1>5 DEF Next

\* Callbacks of workers and the merge of their outboxes add parallel events only.
LEMMA NoSerialStep ==
    TypeOK /\ ControlInv /\ NoSerialInParallelEpoch /\ [Next]_vars => NoSerialInParallelEpoch'
  <1> SUFFICES ASSUME TypeOK, ControlInv, NoSerialInParallelEpoch, Next,
                      mode' \in {"Epoch", "Batch", "Merge"}, call' \in ParallelCalls,
                      SerialAtOrBefore(horizon)'
               PROVE  FALSE
    BY Zenon DEF vars, NoSerialInParallelEpoch, SerialAtOrBefore, queues, loop
  <1>q. ASSUME InParallel, call \in ParallelCalls, horizon' = horizon,
               \A p \in Partitions : \A e \in pending'[p] : e \in pending[p] \/ e.kind = "Parallel"
        PROVE  FALSE
    BY Zenon, <1>q DEF NoSerialInParallelEpoch, SerialAtOrBefore, InParallel
  <1> USE DEF TypeOK, QueueType, ParallelCalls
  <1>1. CASE ClientStep
    BY Zenon, <1>1 DEF ClientStep, ScheduleAt, ScheduleAfter, CancelEvent, RescheduleEvent,
       QuiescentSnapshot, RestoreQuiescent, RestoreCheckpoint, DiscardExactEvents,
       PlanNextParallelEpoch, AtRest
  <1>2. CASE StartStep
    BY <1>2 DEF StartStep, RunNextMixedEventSerial, RunNextMixedEventParallel, MixedEvent,
       DispatchSerial, RunUntilIdle, RunNextEpochUntil, RunUntilIdleConservative,
       RunNextEpochParallelUntil, RunUntilIdleParallel, Start
  <1>3. CASE CallbackStep
    <2>1. ASSUME NEW p \in Partitions, NEW d \in Delays, WorkerScheduleLocal(p, d) PROVE FALSE
      BY <2>1, <1>q DEF WorkerScheduleLocal, ScheduleEventAt, InParallel, loop
    <2>2. ASSUME NEW p \in Partitions, NEW d \in Delays, NEW q \in Partitions,
                 WorkerScheduleRemote(p, q, d)
          PROVE FALSE
      BY Zenon, <2>2, <1>q DEF WorkerScheduleRemote, InParallel, loop
    <2>3. ASSUME NEW p \in Partitions, WorkerPanic(p) PROVE FALSE
      BY Zenon, <2>3, <1>q DEF WorkerPanic, RollbackScheduledEvents, KeptEvents, InParallel, loop
    <2>4. ASSUME NEW p \in Partitions, MixedPanic(p) PROVE FALSE
      BY Zenon, <2>4 DEF MixedPanic, Return, Settle
    <2> QED
      BY Zenon, <1>3, <2>1, <2>2, <2>3, <2>4
         DEF CallbackStep, ContextSchedule, ContextRestore, ContextDiscard
  <1>4. CASE RunStep
    <2>1. CASE BeginParallelEpoch
      BY Zenon, <2>1 DEF BeginParallelEpoch, SerialAtOrBefore, queues
    <2>2. CASE BeginBatch
      BY Zenon, <2>2, <1>q DEF BeginBatch, InParallel, loop, queues
    <2>3. ASSUME NEW p \in Partitions, NEW e \in pending[p], WorkerPop(p, e) PROVE FALSE
      BY Zenon, <2>3, <1>q DEF WorkerPop, PopNext, InParallel, loop
    <2>4. ASSUME NEW p \in Partitions, WorkerReturn(p) PROVE FALSE
      BY Zenon, <2>4, <1>q DEF WorkerReturn, InParallel, queues
    <2>5. CASE JoinBatch
      BY Zenon, <2>5, <1>q DEF JoinBatch, InParallel, loop, queues
    <2>6. ASSUME NEW r \in remote_events, MergeRemoteEvent(r) PROVE FALSE
      BY <2>6, <1>q DEF MergeRemoteEvent, ScheduleEventAt, Return, Settle, InParallel, loop,
         WorkerType, RemoteEvent
    <2>7. CASE EndMerge
      BY Zenon, <2>7, <1>q DEF EndMerge, Return, Settle, InParallel, loop
    <2> QED
      BY Zenon, <1>4, <2>1, <2>2, <2>3, <2>4, <2>5, <2>6, <2>7
         DEF RunStep, NoSerialEpoch, BeginSerialEpoch, EndSerial, DispatchNextInPartition,
             DispatchSerial, ParallelEventReachedSerialDispatcher, ContextReturn, NoParallelEpoch,
             RefuseParallelEpoch, BatchOverflow, EndParallelEpoch, Return, Settle
  <1>5. CASE Halted
    BY Zenon, <1>5 DEF Halted, vars
  <1> QED
    BY Zenon, <1>1, <1>2, <1>3, <1>4, <1>5 DEF Next

\* The head of a queue has its least tick, and the event next_partition_with_event
\* finds the least tick of all.
LEMMA HeadFirst ==
    ASSUME QueueType, NEW p \in Partitions, NEW e \in pending[p], IsHead(p, e)
    PROVE  \A f \in pending[p] : e.tick <= f.tick
  BY TickAssumption DEF QueueType, IsHead, Earlier, Event, Tick

\* The event next_partition_with_event finds has the least tick of all.
LEMMA NextFirst ==
    ASSUME QueueType, NEW p \in Partitions, NEW e \in pending[p], IsNextPartition(p, e)
    PROVE  \A q \in Partitions : \A f \in pending[q] : e.tick <= f.tick
  BY TickAssumption DEF QueueType, IsNextPartition, Event, Tick

\* Moving clocks up to t passes no pending event when none lies before t.
LEMMA AdvanceKeepsPending ==
    ASSUME QueueType, NEW t \in Tick, AdvancePartitionsTo(t), pending' = pending,
           \A p \in Partitions : \A e \in pending[p] : pnow[p] <= e.tick /\ t <= e.tick
    PROVE  \A p \in Partitions : \A e \in pending'[p] : pnow'[p] <= e.tick
  BY Zenon DEF QueueType, AdvancePartitionsTo, Max2

\* A partition that is not ready at h has its pending events beyond h.
LEMMA NotReady ==
    ASSUME QueueType, NEW h \in Tick, Ready(h) = {}
    PROVE  \A p \in Partitions : \A e \in pending[p] : h <= e.tick /\ h # e.tick
  BY TickAssumption DEF QueueType, Ready, Event, Tick

\* An abandoned batch is never repaired.
LEMMA CorruptStays ==
    ASSUME [Next]_vars, corrupt
    PROVE  corrupt'
  <1>1. CASE ClientStep
    BY Zenon, <1>1 DEF ClientStep, ScheduleAt, ScheduleAfter, CancelEvent, RescheduleEvent,
       QuiescentSnapshot, RestoreQuiescent, RestoreCheckpoint, DiscardExactEvents,
       PlanNextParallelEpoch, ghosts
  <1>2. CASE StartStep
    BY Zenon, <1>2 DEF StartStep, RunNextMixedEventSerial, RunNextMixedEventParallel, RunUntilIdle,
       RunNextEpochUntil, RunUntilIdleConservative, RunNextEpochParallelUntil,
       RunUntilIdleParallel, Start, ghosts
  <1>3. CASE CallbackStep
    BY Zenon, <1>3 DEF CallbackStep, ContextSchedule, ContextRestore, ContextDiscard,
       WorkerScheduleLocal, WorkerScheduleRemote, WorkerPanic, MixedPanic, ghosts
  <1>4. CASE RunStep
    BY Zenon, <1>4 DEF RunStep, NoSerialEpoch, BeginSerialEpoch, EndSerial, DispatchNextInPartition,
       ParallelEventReachedSerialDispatcher, ContextReturn, NoParallelEpoch, RefuseParallelEpoch,
       BeginParallelEpoch, BeginBatch, BatchOverflow, WorkerPop, WorkerReturn, JoinBatch,
       MergeRemoteEvent, EndMerge, EndParallelEpoch, ghosts
  <1>5. CASE UNCHANGED vars
    BY Zenon, <1>5 DEF vars, ghosts
  <1> QED
    BY Zenon, <1>1, <1>2, <1>3, <1>4, <1>5 DEF Next, Halted

\* No step moves a clock past a pending event of its partition.
LEMMA PendingStep == IInv /\ [Next]_vars => PendingNotBeforeClock'
  <1> DEFINE Goal == \A p \in Partitions : \A e \in pending'[p] : pnow'[p] <= e.tick
  <1> SUFFICES ASSUME IInv, Next, ~corrupt' PROVE Goal
    BY Zenon DEF vars, IInv, PendingNotBeforeClock, queues, ghosts
  <1> HIDE DEF Goal
  <1>c. ~corrupt
    BY Zenon, CorruptStays
  <1>p. \A p \in Partitions : \A e \in pending[p] : pnow[p] <= e.tick
    BY Zenon, <1>c DEF IInv, PendingNotBeforeClock
  <1>t. QueueType /\ RunType /\ WorkerType
    BY Zenon DEF IInv, TypeOK
  <1>e. \A p \in Partitions : pnow[p] \in Tick /\ \A e \in pending[p] : e \in Event /\ e.tick \in Tick
    BY <1>t DEF QueueType, Event
  <1>q. ASSUME UNCHANGED pnow, \A p \in Partitions : pending'[p] \subseteq pending[p] PROVE Goal
    BY Zenon, <1>q, <1>p DEF Goal
  <1>s. ASSUME NEW p \in Partitions, NEW t, NEW k, ScheduleEventAt(p, t, k) PROVE Goal
    BY <1>s, <1>p, <1>t DEF ScheduleEventAt, QueueType, Goal
  <1>r. ASSUME NEW s, NEW f, RestoreProjection(s, f) PROVE Goal
    BY Zenon, <1>r DEF RestoreProjection, Goal
  <1>o. ASSUME NEW p \in Partitions, NEW e \in pending[p],
               \A f \in pending[p] : e.tick <= f.tick, PopNext(p, e)
        PROVE  Goal
    BY Zenon, <1>o, <1>p, <1>t DEF PopNext, QueueType, Goal
  <1>1. CASE ClientStep
    <2>1. ASSUME NEW p \in Partitions, NEW e \in pending[p], NEW t \in ClientTicks,
                 RescheduleEvent(p, e, t)
          PROVE Goal
      <3>1. e \in Event
        BY Zenon, <1>e
      <3> QED
        BY Zenon, <2>1, <3>1, <1>p, <1>t DEF RescheduleEvent, QueueType, Event, Goal
    <2>2. ASSUME NEW p \in Partitions, NEW e \in pending[p], CancelEvent(p, e) PROVE Goal
      BY Zenon, <2>2, <1>q, <1>t DEF CancelEvent, QueueType
    <2>3. ASSUME NEW f \in Preservable, DiscardExactEvents(f) PROVE Goal
      BY Zenon, <2>3, <1>q DEF DiscardExactEvents, Preservable
    <2>4. CASE QuiescentSnapshot \/ \E t \in ClientTicks \cup {TickMax} : PlanNextParallelEpoch(t)
      BY Zenon, <2>4, <1>q DEF QuiescentSnapshot, PlanNextParallelEpoch, queues
    <2> QED
      BY Zenon, <1>1, <2>1, <2>2, <2>3, <2>4, <1>s, <1>r
         DEF ClientStep, ScheduleAt, ScheduleAfter, RestoreQuiescent, RestoreCheckpoint
  <1>2. CASE StartStep
    <2>1. ASSUME NEW pl \in plan, NEW p \in Partitions, NEW e \in pending[p],
                 RunNextMixedEventSerial(pl, p, e) \/ RunNextMixedEventParallel(pl, p, e)
          PROVE Goal
      <3>1. IsNextPartition(p, e) /\ PopNext(p, e)
        BY Zenon, <2>1 DEF RunNextMixedEventSerial, RunNextMixedEventParallel, MixedEvent, DispatchSerial
      <3> QED
        BY Zenon, <3>1, <1>o, <1>t, NextFirst
    <2> QED
      BY Zenon, <1>2, <2>1, <1>q DEF StartStep, RunUntilIdle, RunNextEpochUntil, RunUntilIdleConservative,
         RunNextEpochParallelUntil, RunUntilIdleParallel, Start, queues
  <1>3. CASE CallbackStep
    <2>1. ASSUME NEW f \in Preservable, ContextDiscard(f) PROVE Goal
      BY Zenon, <2>1, <1>q DEF ContextDiscard, Preservable
    <2>2. ASSUME NEW p \in Partitions, WorkerPanic(p) PROVE Goal
      BY Zenon, <2>2, <1>q, <1>t DEF WorkerPanic, RollbackScheduledEvents, KeptEvents, QueueType
    <2>3. ASSUME NEW p \in Partitions, MixedPanic(p) PROVE Goal
      <3>1. \A q \in Partitions : \A e \in pending[q] : horizon <= e.tick
        BY Zenon, <2>3, <1>c DEF MixedPanic, IInv, EpochInv, InParallel
      <3>2. \A q \in Partitions : pending'[q] \subseteq pending[q]
        BY Zenon, <2>3, <1>t DEF MixedPanic, RollbackScheduledEvents, KeptEvents, QueueType
      <3> QED
        BY Zenon, <2>3, <3>1, <3>2, <1>p, <1>t DEF MixedPanic, AdvancePartitionsTo, Max2, Goal
    <2>4. ASSUME NEW p \in Partitions, NEW d \in Delays, NEW q \in Partitions,
                 WorkerScheduleRemote(p, q, d)
          PROVE Goal
      BY Zenon, <2>4, <1>q DEF WorkerScheduleRemote
    <2> QED
      BY Zenon, <1>3, <2>1, <2>2, <2>3, <2>4, <1>s, <1>r
         DEF CallbackStep, ContextSchedule, ContextRestore, WorkerScheduleLocal
  <1>4. CASE RunStep
    <2>1. CASE \/ NoSerialEpoch \/ BeginSerialEpoch \/ NoParallelEpoch \/ RefuseParallelEpoch
               \/ BeginParallelEpoch \/ BeginBatch \/ JoinBatch
               \/ \E p \in Partitions : WorkerReturn(p)
      BY Zenon, <2>1, <1>q DEF NoSerialEpoch, BeginSerialEpoch, NoParallelEpoch, RefuseParallelEpoch,
         BeginParallelEpoch, BeginBatch, JoinBatch, WorkerReturn, queues
    <2>2. CASE DispatchNextInPartition \/ ParallelEventReachedSerialDispatcher
      <3>1. PICK p \in Partitions : \E e \in pending[p] : IsNextPartition(p, e) /\ PopNext(p, e)
        BY Zenon, <2>2 DEF DispatchNextInPartition, DispatchSerial, ParallelEventReachedSerialDispatcher
      <3> QED
        BY Zenon, <3>1, <1>o, <1>t, NextFirst
    <2>3. CASE EndSerial
      <3>1. \A p \in Partitions : \A e \in pending[p] : horizon <= e.tick /\ horizon # e.tick
        BY Zenon, <2>3, <1>t, NotReady DEF EndSerial, RunType
      <3>2. CASE call = "until_idle"
        <4>1. horizon = TickMax
          BY Zenon, <2>3, <3>2 DEF EndSerial, IInv, ControlInv
        <4>2. \A p \in Partitions : pending[p] = {}
          BY <3>1, <4>1, <1>e, TickAssumption DEF Tick
        <4> QED
          BY Zenon, <2>3, <4>2 DEF EndSerial, Goal
      <3>3. CASE call # "until_idle"
        BY Zenon, <2>3, <3>1, <3>3, <1>p, <1>t, AdvanceKeepsPending DEF EndSerial, RunType, Goal
      <3> QED
        BY Zenon, <3>2, <3>3
    <2>4. CASE ContextReturn
      <3>1. CASE UNCHANGED pnow
        BY Zenon, <2>4, <3>1, <1>q DEF ContextReturn
      <3>2. CASE AdvancePartitionsTo(now)
        <4>1. CASE \A p \in Partitions : pnow[p] = now
          BY <2>4, <3>2, <4>1, <1>p, <1>t, AdvanceKeepsPending DEF ContextReturn, QueueType, Goal
        <4>2. CASE \A p \in Partitions : \A e \in pending[p] : now <= e.tick
          BY Zenon, <2>4, <3>2, <4>2, <1>p, <1>t, AdvanceKeepsPending DEF ContextReturn, QueueType, Goal
        <4> QED
          BY Zenon, <2>4, <4>1, <4>2, <1>c DEF ContextReturn, IInv, SerialInv
      <3> QED
        BY Zenon, <2>4, <3>1, <3>2 DEF ContextReturn
    <2>5. ASSUME NEW p \in Partitions, NEW e \in pending[p], WorkerPop(p, e) PROVE Goal
      BY Zenon, <2>5, <1>o, <1>t, HeadFirst DEF WorkerPop
    <2>6. ASSUME NEW r \in remote_events, MergeRemoteEvent(r) PROVE Goal
      BY Zenon, <2>6, <1>s, <1>q, <1>t DEF MergeRemoteEvent, WorkerType, RemoteEvent, queues
    <2>7. CASE EndMerge
      <3>1. CASE call = "mixed"
        <4>1. now = horizon /\ \A p \in Partitions : \A e \in pending[p] : horizon <= e.tick
          BY Zenon, <2>7, <3>1, <1>c DEF EndMerge, IInv, ControlInv, EpochInv, InParallel
        <4> QED
          BY Zenon, <2>7, <3>1, <4>1, <1>p, <1>t, AdvanceKeepsPending DEF EndMerge, QueueType, Goal
      <3>2. CASE call # "mixed"
        BY Zenon, <2>7, <3>2, <1>q DEF EndMerge
      <3> QED
        BY Zenon, <3>1, <3>2
    <2>8. CASE EndParallelEpoch
      <3>1. \A p \in Partitions : \A e \in pending[p] : horizon <= e.tick
        BY Zenon, <2>8, <1>t, NotReady DEF EndParallelEpoch, RunType
      <3> QED
        BY Zenon, <2>8, <3>1, <1>p, <1>t, AdvanceKeepsPending DEF EndParallelEpoch, RunType, Goal
    <2>9. CASE BatchOverflow
      BY Zenon, <2>9 DEF BatchOverflow
    <2> QED
      BY Zenon, <1>4, <2>1, <2>2, <2>3, <2>4, <2>5, <2>6, <2>7, <2>8, <2>9 DEF RunStep
  <1>5. CASE Halted
    BY Zenon, <1>5, <1>q DEF Halted, vars, queues
  <1> QED
    BY Zenon, <1>1, <1>2, <1>3, <1>4, <1>5 DEF Next, Goal

\* Names stay distinct: a new event takes the counters, a rollback removes the
\* events whose names it gives back, a restore goes above what it preserves.
LEMMA DistinctStep == IInv /\ [Next]_vars => EventsDistinct'
  <1> DEFINE Below(p) == \A e \in pending[p] : /\ e.id < next_id[p]
                                               /\ e.order < next_order[p]
                                               /\ e.token < next_runtime_token[p]
             Apart(p) == \A e, f \in pending[p] :
                            e.id = f.id \/ e.order = f.order \/ e.token = f.token => e = f
             Goal == \A p \in Partitions : Below(p)' /\ Apart(p)'
  <1> SUFFICES ASSUME IInv, Next, ~corrupt' PROVE Goal
    BY Zenon DEF vars, IInv, EventsDistinct, queues, counters, ghosts
  <1>d. \A p \in Partitions : Below(p) /\ Apart(p)
    BY Zenon, CorruptStays DEF IInv, EventsDistinct
  <1>t. QueueType /\ RunType /\ WorkerType
    BY Zenon DEF IInv, TypeOK
  <1>e. \A p \in Partitions : \A e \in pending[p] :
           e \in Event /\ e.id \in Nat /\ e.order \in Nat /\ e.token \in Nat
    BY <1>t DEF QueueType, Event
  <1>n. \A p \in Partitions : /\ next_id[p] \in Nat /\ next_order[p] \in Nat
                              /\ next_runtime_token[p] \in Nat
    BY Zenon, <1>t DEF QueueType
  <1> HIDE DEF Goal
  <1>q. ASSUME UNCHANGED counters, \A p \in Partitions : pending'[p] \subseteq pending[p] PROVE Goal
    BY Zenon, <1>q, <1>d DEF Goal, counters
  <1>s. ASSUME NEW p \in Partitions, NEW t, NEW k, ScheduleEventAt(p, t, k) PROVE Goal
    <2> DEFINE n == [tick |-> t, order |-> next_order[p], id |-> next_id[p],
                     token |-> next_runtime_token[p], kind |-> k]
    <2>1. pending'[p] = pending[p] \cup {n}
      BY Zenon, <1>s, <1>t DEF ScheduleEventAt, QueueType
    <2>2. n.id = next_id[p] /\ n.order = next_order[p] /\ n.token = next_runtime_token[p]
      BY Zenon
    <2>3. /\ next_id'[p] = next_id[p] + 1 /\ next_order'[p] = next_order[p] + 1
          /\ next_runtime_token'[p] = next_runtime_token[p] + 1
      BY Zenon, <1>s, <1>t DEF ScheduleEventAt, QueueType
    <2> HIDE DEF n
    <2>4. Below(p)' /\ Apart(p)'
      BY <2>1, <2>2, <2>3, <1>d, <1>e, <1>n
    <2>5. \A q \in Partitions \ {p} : Below(q)' /\ Apart(q)'
      BY <1>s, <1>d, <1>t DEF ScheduleEventAt, QueueType
    <2> QED
      BY Zenon, <2>4, <2>5 DEF Goal
  <1>r. ASSUME NEW s \in Snapshot, NEW f \in Preservable, RestoreProjection(s, f) PROVE Goal
    <2>1. \A p \in Partitions : pending'[p] \subseteq pending[p]
      BY Zenon, <1>r DEF RestoreProjection, Preservable
    <2>2. \A p \in Partitions : Apart(p)'
      BY Zenon, <2>1, <1>d
    <2>3. \A p \in Partitions : \A e \in pending'[p] : e.id + 1 <= next_id'[p]
                                                      /\ e.order + 1 <= next_order'[p]
      BY Zenon, <1>r DEF RestoreProjection, IsMaxOf
    <2>4. \A p \in Partitions : next_id'[p] \in Nat /\ next_order'[p] \in Nat
      BY <1>r, BoundAssumption DEF RestoreProjection
    <2>5. \A p \in Partitions : Below(p)'
      BY <1>r, <2>1, <2>3, <2>4, <1>d, <1>e DEF RestoreProjection
    <2> QED
      BY Zenon, <2>2, <2>5 DEF Goal
  <1>o. ASSUME NEW p \in Partitions, NEW e, PopNext(p, e) PROVE Goal
    BY Zenon, <1>o, <1>q, <1>t DEF PopNext, QueueType
  <1>k. ASSUME NEW p \in Partitions, RollbackScheduledEvents(p) PROVE Goal
    <2>1. Below(p)' /\ Apart(p)'
      BY ZenonT(30), <1>k, <1>d, <1>t DEF RollbackScheduledEvents, KeptEvents, QueueType
    <2>2. \A q \in Partitions \ {p} : Below(q)' /\ Apart(q)'
      BY <1>k, <1>d, <1>t DEF RollbackScheduledEvents, KeptEvents, QueueType
    <2> QED
      BY Zenon, <2>1, <2>2 DEF Goal
  <1>1. CASE ClientStep
    <2>1. ASSUME NEW p \in Partitions, NEW e \in pending[p], NEW t \in ClientTicks,
                 RescheduleEvent(p, e, t)
          PROVE Goal
      <3> DEFINE n == [e EXCEPT !.tick = t]
      <3>1. n.id = e.id /\ n.order = e.order /\ n.token = e.token
        BY Zenon, <1>e DEF Event
      <3>2. pending'[p] = (pending[p] \ {e}) \cup {n} /\ UNCHANGED counters
        BY Zenon, <2>1, <1>t DEF RescheduleEvent, QueueType
      <3> HIDE DEF n
      <3>3. Below(p)' /\ Apart(p)'
        BY ZenonT(30), <3>1, <3>2, <1>d DEF counters
      <3>4. \A q \in Partitions \ {p} : Below(q)' /\ Apart(q)'
        BY <2>1, <1>d, <1>t DEF RescheduleEvent, QueueType, counters
      <3> QED
        BY Zenon, <3>3, <3>4 DEF Goal
    <2>2. ASSUME NEW p \in Partitions, NEW e \in pending[p], CancelEvent(p, e) PROVE Goal
      BY Zenon, <2>2, <1>q, <1>t DEF CancelEvent, QueueType
    <2>3. ASSUME NEW f \in Preservable, DiscardExactEvents(f) PROVE Goal
      BY Zenon, <2>3, <1>q DEF DiscardExactEvents, Preservable
    <2>4. CASE QuiescentSnapshot \/ \E t \in ClientTicks \cup {TickMax} : PlanNextParallelEpoch(t)
      BY Zenon, <2>4, <1>q DEF QuiescentSnapshot, PlanNextParallelEpoch, queues
    <2>5. saved \subseteq Snapshot /\ pending \in Preservable
      BY Zenon, <1>t, PendingPreservable DEF IInv, TypeOK, ClientType
    <2> QED
      BY Zenon, <1>1, <2>1, <2>2, <2>3, <2>4, <2>5, <1>s, <1>r
         DEF ClientStep, ScheduleAt, ScheduleAfter, RestoreQuiescent, RestoreCheckpoint
  <1>2. CASE StartStep
    BY Zenon, <1>2, <1>o, <1>q DEF StartStep, RunNextMixedEventSerial, RunNextMixedEventParallel,
       DispatchSerial, RunUntilIdle, RunNextEpochUntil, RunUntilIdleConservative,
       RunNextEpochParallelUntil, RunUntilIdleParallel, Start, queues
  <1>3. CASE CallbackStep
    <2>1. ASSUME NEW f \in Preservable, ContextDiscard(f) PROVE Goal
      BY Zenon, <2>1, <1>q DEF ContextDiscard, Preservable
    <2>2. ASSUME NEW p \in Partitions, WorkerPanic(p) \/ MixedPanic(p) PROVE Goal
      BY Zenon, <2>2, <1>k DEF WorkerPanic, MixedPanic
    <2>3. ASSUME NEW p \in Partitions, NEW d \in Delays, NEW q \in Partitions,
                 WorkerScheduleRemote(p, q, d)
          PROVE Goal
      BY Zenon, <2>3, <1>d DEF WorkerScheduleRemote, Goal
    <2>4. saved \subseteq Snapshot
      BY Zenon DEF IInv, TypeOK, ClientType
    <2> QED
      BY Zenon, <1>3, <2>1, <2>2, <2>3, <2>4, <1>s, <1>r
         DEF CallbackStep, ContextSchedule, ContextRestore, WorkerScheduleLocal
  <1>4. CASE RunStep
    <2>1. CASE \/ NoSerialEpoch \/ BeginSerialEpoch \/ NoParallelEpoch \/ RefuseParallelEpoch
               \/ BeginParallelEpoch \/ BeginBatch \/ JoinBatch
               \/ \E p \in Partitions : WorkerReturn(p)
      BY Zenon, <2>1, <1>q DEF NoSerialEpoch, BeginSerialEpoch, NoParallelEpoch, RefuseParallelEpoch,
         BeginParallelEpoch, BeginBatch, JoinBatch, WorkerReturn, queues
    <2>2. CASE DispatchNextInPartition \/ ParallelEventReachedSerialDispatcher
      BY Zenon, <2>2, <1>o
         DEF DispatchNextInPartition, DispatchSerial, ParallelEventReachedSerialDispatcher
    <2>3. CASE EndSerial \/ ContextReturn \/ EndMerge \/ EndParallelEpoch
      BY Zenon, <2>3, <1>q DEF EndSerial, ContextReturn, EndMerge, EndParallelEpoch
    <2>4. ASSUME NEW p \in Partitions, NEW e \in pending[p], WorkerPop(p, e) PROVE Goal
      BY Zenon, <2>4, <1>o DEF WorkerPop
    <2>5. ASSUME NEW r \in remote_events, MergeRemoteEvent(r) PROVE Goal
      BY Zenon, <2>5, <1>s, <1>q, <1>t DEF MergeRemoteEvent, WorkerType, RemoteEvent, queues
    <2>6. CASE BatchOverflow
      BY Zenon, <2>6 DEF BatchOverflow
    <2> QED
      BY Zenon, <1>4, <2>1, <2>2, <2>3, <2>4, <2>5, <2>6 DEF RunStep
  <1>5. CASE Halted
    BY Zenon, <1>5, <1>q DEF Halted, vars, queues
  <1> QED
    BY Zenon, <1>1, <1>2, <1>3, <1>4, <1>5 DEF Next

-------------------------------------------------------------------------------
(* What a panic rolls back to, and the bounds of clocks, horizon and       *)
(* messages between calls, in parallel epochs and in serial ones; then     *)
(* the invariant as a whole and its theorems.                              *)

\* What a panic would leave is what was there when the callback started.
LEMMA PanicStep == IInv /\ [Next]_vars => PanicLeavesNoTrace' /\ (~corrupt' => RollbackInv')
  <1> DEFINE Kept(p)    == {e \in pending[p] : e.id < rollback[p].id /\ e.order < rollback[p].order}
             Sent(p)    == {r \in remote_events : r.source = p /\ r.order < rollback[p].remote}
             Exact(p)   == Kept(p) = rollback[p].pending /\ Sent(p) = rollback[p].remotes
             Ordered(p) == /\ rollback[p].id <= next_id[p]
                           /\ rollback[p].order <= next_order[p]
                           /\ rollback[p].remote <= next_remote_order[p]
             Alone(p)   == /\ rollback[p].remotes = {}
                           /\ \A r \in remote_events : r.source = p
                           /\ \A q \in Partitions : worker[q] = "busy" => q = p
             Goal == /\ \A p \in Partitions : worker'[p] = "busy" => Exact(p)' /\ Ordered(p)'
                     /\ \A r \in remote_events' : r.order < next_remote_order'[r.source]
                     /\ call' = "mixed" => \A p \in Partitions : worker'[p] = "busy" => Alone(p)'
  <1> SUFFICES ASSUME IInv, Next, ~corrupt' PROVE Goal
    BY DEF vars, IInv, PanicLeavesNoTrace, RollbackInv, KeptEvents, TruncatedRemotes, queues,
       counters, workers, ghosts
  <1>d. /\ \A p \in Partitions : worker[p] = "busy" => Exact(p) /\ Ordered(p)
        /\ \A r \in remote_events : r.order < next_remote_order[r.source]
        /\ call = "mixed" => \A p \in Partitions : worker[p] = "busy" => Alone(p)
    BY Zenon, CorruptStays DEF IInv, PanicLeavesNoTrace, RollbackInv, KeptEvents, TruncatedRemotes
  <1>t. QueueType /\ RunType /\ WorkerType
    BY Zenon DEF IInv, TypeOK
  <1>n. \A p \in Partitions : /\ next_id[p] \in Nat /\ next_order[p] \in Nat
                              /\ next_remote_order[p] \in Nat
                              /\ rollback[p].id \in Nat /\ rollback[p].order \in Nat
                              /\ rollback[p].remote \in Nat
    BY Zenon, <1>t DEF QueueType, WorkerType, Rollback
  <1>r. \A r \in remote_events : r.source \in Partitions /\ r.target \in Partitions /\ r.order \in Nat
    BY Zenon, <1>t DEF WorkerType, RemoteEvent
  <1>b. \A p \in Partitions : \A e \in pending[p] :
           /\ e.id \in Nat /\ e.order \in Nat
           /\ e.id < next_id[p] /\ e.order < next_order[p]
    BY <1>t, CorruptStays DEF IInv, EventsDistinct, QueueType, Event
  <1>c. ControlInv /\ ControlInv'
    BY Zenon, ControlStep DEF IInv
  <1> HIDE DEF Goal
  <1>q. ASSUME mode' \notin {"Batch", "Merge"} PROVE Goal
    BY Zenon, <1>q, <1>c DEF ControlInv, Goal
  <1>u. ASSUME UNCHANGED <<pending, counters, rollback, call>>, remote_events' = remote_events,
               \A p \in Partitions : worker'[p] = "busy" => worker[p] = "busy"
        PROVE  Goal
    BY Zenon, <1>u, <1>d DEF Goal, counters
  <1>1. CASE ClientStep
    BY Zenon, <1>1, <1>q, <1>c DEF ClientStep, ScheduleAt, ScheduleAfter, CancelEvent, RescheduleEvent,
       QuiescentSnapshot, RestoreQuiescent, RestoreCheckpoint, DiscardExactEvents,
       PlanNextParallelEpoch, AtRest
  <1>2. CASE StartStep
    <2>1. ASSUME NEW pl \in plan, NEW p \in Partitions, NEW e \in pending[p],
                 RunNextMixedEventParallel(pl, p, e)
          PROVE Goal
      <3> USE <2>1 DEF RunNextMixedEventParallel, MixedEvent
      <3>1. \A q \in Partitions : worker'[q] = "busy" => q = p
        BY Zenon, <1>c, <1>t DEF ControlInv, WorkerType
      <3>2. remote_events' = {}
        BY Zenon, <1>c DEF ControlInv
      <3>3. /\ rollback'[p].id = next_id[p] /\ rollback'[p].order = next_order[p]
            /\ rollback'[p].remote = next_remote_order[p]
            /\ rollback'[p].pending = pending[p] \ {e} /\ rollback'[p].remotes = {}
        BY Zenon, <1>t DEF WorkerType
      <3>4. pending'[p] = pending[p] \ {e} /\ UNCHANGED counters
        BY Zenon, <1>t DEF PopNext, QueueType
      <3>5. Exact(p)' /\ Ordered(p)'
        BY <3>2, <3>3, <3>4, <1>b, <1>n DEF counters
      <3> QED
        BY Zenon, <3>1, <3>2, <3>3, <3>5 DEF Goal
    <2> QED
      BY Zenon, <1>2, <2>1, <1>q DEF StartStep, RunNextMixedEventSerial, DispatchSerial, RunUntilIdle,
         RunNextEpochUntil, RunUntilIdleConservative, RunNextEpochParallelUntil,
         RunUntilIdleParallel, Start
  <1>3. CASE CallbackStep
    <2>1. CASE \/ \E q \in Partitions, d \in Delays : ContextSchedule(q, d)
               \/ \E s \in saved, f \in Preservable : ContextRestore(s, f)
               \/ \E f \in Preservable : ContextDiscard(f)
               \/ \E p \in Partitions : MixedPanic(p)
      BY Zenon, <2>1, <1>q DEF ContextSchedule, ContextRestore, ContextDiscard, MixedPanic, Return, Settle
    <2>2. ASSUME NEW p \in Partitions, NEW d \in Delays, WorkerScheduleLocal(p, d) PROVE Goal
      <3> USE <2>2 DEF WorkerScheduleLocal, ScheduleEventAt
      <3> DEFINE n == [tick |-> pnow[p] + d, order |-> next_order[p], id |-> next_id[p],
                       token |-> next_runtime_token[p], kind |-> "Parallel"]
      <3>1. pending'[p] = pending[p] \cup {n} /\ n.id = next_id[p]
        BY Zenon, <1>t DEF QueueType
      <3> HIDE DEF n
      <3>2. rollback' = rollback /\ remote_events' = remote_events /\ worker' = worker
        BY Zenon DEF workers
      <3>3. Exact(p)'
        BY <3>1, <3>2, <1>d, <1>n
      <3>4. Ordered(p)'
        BY <3>2, <1>d, <1>n, <1>t DEF QueueType
      <3>5. \A q \in Partitions \ {p} : worker'[q] = "busy" => Exact(q)' /\ Ordered(q)'
        BY Zenon, <3>2, <1>d, <1>t DEF QueueType
      <3> QED
        BY <3>2, <3>3, <3>4, <3>5, <1>d DEF Goal
    <2>3. ASSUME NEW p \in Partitions, NEW d \in Delays, NEW q \in Partitions,
                 WorkerScheduleRemote(p, q, d)
          PROVE Goal
      <3> USE <2>3 DEF WorkerScheduleRemote
      <3> DEFINE n == [source |-> p, target |-> q, tick |-> pnow[p] + d, order |-> next_remote_order[p]]
      <3>1. remote_events' = remote_events \cup {n} /\ n.source = p /\ n.order = next_remote_order[p]
        BY Zenon
      <3> HIDE DEF n
      <3>2. /\ next_remote_order'[p] = next_remote_order[p] + 1
            /\ \A z \in Partitions \ {p} : next_remote_order'[z] = next_remote_order[z]
        BY Zenon, <1>t DEF QueueType
      <3>3. \A z \in Partitions : worker'[z] = "busy" => Sent(z)' = Sent(z)
        BY <3>1, <1>d, <1>n
      <3>4. \A z \in Partitions : worker'[z] = "busy" => Exact(z)'
        BY Zenon, <3>3, <1>d
      <3>5. \A z \in Partitions : worker'[z] = "busy" => Ordered(z)'
        BY <3>2, <1>d, <1>n
      <3>6. \A r \in remote_events' : r.order < next_remote_order'[r.source]
        BY <3>1, <3>2, <1>d, <1>n, <1>r
      <3> QED
        BY <3>1, <3>4, <3>5, <3>6, <1>d DEF Goal
    <2>4. ASSUME NEW p \in Partitions, WorkerPanic(p) PROVE Goal
      <3> USE <2>4 DEF WorkerPanic, RollbackScheduledEvents
      <3>1. \A z \in Partitions : worker'[z] = "busy" => z # p /\ worker[z] = "busy"
        BY Zenon, <1>t DEF WorkerType
      <3>2. \A z \in Partitions \ {p} : /\ pending'[z] = pending[z] /\ rollback'[z] = rollback[z]
                                        /\ next_id'[z] = next_id[z] /\ next_order'[z] = next_order[z]
                                        /\ next_remote_order'[z] = next_remote_order[z]
                                        /\ {r \in remote_events' : r.source = z}
                                             = {r \in remote_events : r.source = z}
        BY Zenon, <1>t DEF QueueType, WorkerType, TruncatedRemotes
      <3>3. \A z \in Partitions : worker'[z] = "busy" => Sent(z)' = Sent(z)
        BY <3>1, <3>2
      <3>4. \A z \in Partitions : worker'[z] = "busy" => Exact(z)' /\ Ordered(z)'
        BY ZenonT(30), <3>1, <3>2, <3>3, <1>d
      <3>5. next_remote_order'[p] = rollback[p].remote
        BY Zenon, <1>t DEF QueueType
      <3>6. \A r \in remote_events' : r.order < next_remote_order'[r.source]
        BY Zenon, <3>2, <3>5, <1>d, <1>r DEF TruncatedRemotes
      <3> QED
        BY Zenon, <3>4, <3>6 DEF Goal, ParallelCalls
    <2> QED
      BY Zenon, <1>3, <2>1, <2>2, <2>3, <2>4 DEF CallbackStep
  <1>4. CASE RunStep
    <2>1. CASE \/ NoSerialEpoch \/ BeginSerialEpoch \/ NoParallelEpoch \/ RefuseParallelEpoch
               \/ BeginParallelEpoch \/ DispatchNextInPartition
               \/ ParallelEventReachedSerialDispatcher \/ EndSerial \/ ContextReturn
               \/ EndParallelEpoch \/ BatchOverflow \/ EndMerge
      BY Zenon, <2>1, <1>q DEF NoSerialEpoch, BeginSerialEpoch, NoParallelEpoch, RefuseParallelEpoch,
         BeginParallelEpoch, DispatchNextInPartition, DispatchSerial,
         ParallelEventReachedSerialDispatcher, EndSerial, ContextReturn, EndParallelEpoch,
         BatchOverflow, EndMerge, Return, Settle
    <2>2. CASE BeginBatch
      BY Zenon, <2>2, <1>u DEF BeginBatch, queues
    <2>3. CASE JoinBatch
      BY Zenon, <2>3, <1>u DEF JoinBatch, queues
    <2>4. ASSUME NEW p \in Partitions, WorkerReturn(p) PROVE Goal
      <3> USE <2>4 DEF WorkerReturn
      <3>1. \A z \in Partitions : worker'[z] = "busy" => z # p /\ worker[z] = "busy"
        BY Zenon, <1>t DEF WorkerType
      <3>2. \A z \in Partitions \ {p} : rollback'[z] = rollback[z]
        BY Zenon, <1>t DEF WorkerType
      <3>3. call' = "mixed" => \A z \in Partitions : worker'[z] = "busy" => Alone(z)'
        BY Zenon, <3>1, <3>2, <1>d
      <3> QED
        BY <3>1, <3>2, <3>3, <1>d DEF Goal, queues, counters
    <2>5. ASSUME NEW p \in Partitions, NEW e \in pending[p], WorkerPop(p, e) PROVE Goal
      <3> USE <2>5 DEF WorkerPop
      <3>1. /\ rollback'[p].id = next_id[p] /\ rollback'[p].order = next_order[p]
            /\ rollback'[p].remote = next_remote_order[p]
            /\ rollback'[p].pending = pending[p] \ {e}
            /\ rollback'[p].remotes = {r \in remote_events : r.source = p}
        BY Zenon, <1>t DEF WorkerType
      <3>2. pending'[p] = pending[p] \ {e} /\ UNCHANGED counters
        BY Zenon, <1>t DEF PopNext, QueueType
      <3>3. Exact(p)' /\ Ordered(p)'
        BY <3>1, <3>2, <1>b, <1>n, <1>d DEF counters
      <3>4. \A z \in Partitions \ {p} : /\ pending'[z] = pending[z] /\ rollback'[z] = rollback[z]
                                        /\ worker'[z] = worker[z]
        BY Zenon, <1>t DEF QueueType, WorkerType, PopNext
      <3>5. \A z \in Partitions \ {p} : worker'[z] = "busy" => Exact(z)' /\ Ordered(z)'
        BY <3>2, <3>4, <1>d DEF counters
      <3>6. call' # "mixed"
        BY Zenon, <1>c DEF ControlInv
      <3> QED
        BY ZenonT(30), <3>2, <3>3, <3>5, <3>6, <1>d DEF Goal, counters
    <2>6. ASSUME NEW r \in remote_events, MergeRemoteEvent(r) PROVE Goal
      <3> USE <2>6 DEF MergeRemoteEvent
      <3>1. CASE r.tick >= pnow[r.target]
        <4>1. \A p \in Partitions : worker'[p] = "off"
          BY Zenon, <3>1, <1>c DEF ControlInv
        <4>2. remote_events' \subseteq remote_events /\ UNCHANGED next_remote_order
          BY Zenon, <3>1 DEF ScheduleEventAt
        <4> QED
          BY Zenon, <4>1, <4>2, <1>d DEF Goal
      <3>2. CASE ~(r.tick >= pnow[r.target])
        BY Zenon, <3>2, <1>q DEF Return, Settle
      <3> QED
        BY Zenon, <3>1, <3>2
    <2> QED
      BY Zenon, <1>4, <2>1, <2>2, <2>3, <2>4, <2>5, <2>6 DEF RunStep
  <1>5. CASE Halted
    BY Zenon, <1>5, <1>u DEF Halted, vars, queues, workers
  <1> QED
    BY Zenon, <1>1, <1>2, <1>3, <1>4, <1>5 DEF Next

\* Moving every clock up to t gathers clocks that are at most the lookahead
\* ahead of t.
LEMMA AdvanceCalm ==
    ASSUME QueueType, NEW t \in Tick, AdvancePartitionsTo(t),
           \A p \in Partitions : pnow[p] <= t + min_remote_delay,
           \E p \in Partitions : pnow[p] <= t,
           ~failed' => \A p \in Partitions : pnow[p] <= t
    PROVE  Calm'
  <1> USE LookaheadAssumption, TickAssumption DEF Tick
  <1>1. now' = t /\ \A p \in Partitions : /\ pnow[p] \in Tick
                                          /\ pnow'[p] = IF pnow[p] < t THEN t ELSE pnow[p]
    BY Zenon DEF AdvancePartitionsTo, Max2, QueueType
  <1>2. \A p \in Partitions : t <= pnow'[p] /\ pnow'[p] <= t + min_remote_delay
    BY <1>1
  <1>3. \A p \in Partitions : pnow'[p] \in Int
    BY <1>1
  <1>4. \E p \in Partitions : pnow'[p] <= now'
    BY <1>1
  <1>5. ~failed' => \A p \in Partitions : pnow'[p] = now'
    BY <1>1
  <1> QED
    BY <1>1, <1>2, <1>3, <1>4, <1>5 DEF Calm

\* A restored timeline has all its clocks on one tick.
LEMMA RestoreCalm ==
    ASSUME NEW s \in Snapshot, NEW f, RestoreProjection(s, f)
    PROVE  Calm' /\ \A p \in Partitions : pnow'[p] = now'
  <1>1. now' \in Tick /\ \A p \in Partitions : pnow'[p] = now'
    BY Zenon DEF RestoreProjection, Compatible, Snapshot
  <1>2. 0 \in Partitions
    BY PartitionsAssumption DEF Partitions
  <1> QED
    BY <1>1, <1>2, LookaheadAssumption, TickAssumption DEF Calm, Tick

\* A call that returns leaves the clocks as the next call needs them.
LEMMA RestStep == IInv /\ [Next]_vars /\ ~corrupt' => RestInv'
  <1> SUFFICES ASSUME IInv, Next, ~corrupt', mode' \in {"Rest", "Plan"} PROVE Calm'
    BY Zenon DEF vars, IInv, RestInv, Calm, queues, ghosts
  <1>c. ~corrupt
    BY Zenon, CorruptStays
  <1>t. QueueType /\ RunType /\ WorkerType /\ saved \subseteq Snapshot
    BY Zenon DEF IInv, TypeOK, ClientType
  <1>v. ControlInv /\ RestInv /\ EpochInv /\ SerialInv
    BY Zenon, <1>c DEF IInv
  <1>n. now \in Tick /\ horizon \in Tick /\ \A p \in Partitions : pnow[p] \in Tick
    BY Zenon, <1>t DEF QueueType, RunType
  <1>u. ASSUME mode \in {"Rest", "Plan"}, UNCHANGED <<now, pnow, failed>> PROVE Calm'
    BY Zenon, <1>u, <1>v DEF RestInv, Calm
  <1> USE LookaheadAssumption, TickAssumption DEF Tick
  <1>h. ASSUME InParallel, batch_error => call = "mixed",
               UNCHANGED failed, AdvancePartitionsTo(horizon)
        PROVE Calm'
    <2>1. \E p \in Partitions : pnow[p] <= horizon
      BY Zenon, <1>h, <1>v DEF EpochInv
    <2>2. \A p \in Partitions : pnow[p] <= horizon + min_remote_delay
      BY <1>h, <2>1, <1>v, <1>n DEF EpochInv
    <2>3. ~failed' => \A p \in Partitions : pnow[p] <= horizon
      BY Zenon, <1>h, <1>v DEF EpochInv
    <2> QED
      BY Zenon, <1>h, <1>t, <1>n, <2>1, <2>2, <2>3, AdvanceCalm
  <1>1. CASE ClientStep
    <2>1. ASSUME NEW s \in saved, \/ RestoreQuiescent(s)
                                  \/ \E f \in Preservable : RestoreCheckpoint(s, f)
          PROVE Calm'
      BY Zenon, <2>1, <1>t, RestoreCalm DEF RestoreQuiescent, RestoreCheckpoint
    <2> QED
      BY Zenon, <1>1, <2>1, <1>u DEF ClientStep, ScheduleAt, ScheduleAfter, CancelEvent, RescheduleEvent,
         QuiescentSnapshot, DiscardExactEvents, PlanNextParallelEpoch, AtRest, ScheduleEventAt,
         queues, ghosts
  <1>2. CASE StartStep
    BY Zenon, <1>2, <1>u DEF StartStep, RunNextMixedEventSerial, RunNextMixedEventParallel, DispatchSerial,
       RunUntilIdle, RunNextEpochUntil, RunUntilIdleConservative, RunNextEpochParallelUntil,
       RunUntilIdleParallel, Start, queues, ghosts
  <1>3. CASE CallbackStep
    <2>1. ASSUME NEW p \in Partitions, MixedPanic(p) PROVE Calm'
      BY Zenon, <2>1, <1>h DEF MixedPanic, InParallel, ghosts
    <2> QED
      BY ZenonT(30), <1>3, <2>1 DEF CallbackStep, ContextSchedule, ContextRestore, ContextDiscard,
         WorkerScheduleLocal, WorkerScheduleRemote, WorkerPanic
  <1>4. CASE RunStep
    <2>1. CASE NoSerialEpoch \/ NoParallelEpoch \/ RefuseParallelEpoch
      BY Zenon, <2>1, <1>u DEF NoSerialEpoch, NoParallelEpoch, RefuseParallelEpoch, queues, ghosts
    <2>2. CASE EndSerial
      <3> USE <2>2 DEF EndSerial, ghosts
      <3>1. call \in SerialCalls \cup {"until_idle"}
        BY Zenon, <1>v DEF ControlInv
      <3>2. CASE call = "until_idle"
        BY Zenon, <3>2, <1>v, <1>n, <1>t, AdvanceCalm DEF SerialInv, InSerial
      <3>3. CASE call \in SerialCalls
        <4>1. /\ \A p \in Partitions : pnow[p] <= horizon + min_remote_delay
              /\ ~failed => \A p \in Partitions : pnow[p] <= horizon
              /\ now <= horizon /\ \E p \in Partitions : pnow[p] <= now
          BY Zenon, <3>3, <1>v DEF SerialInv, InSerial
        <4>2. \E p \in Partitions : pnow[p] <= horizon
          BY <4>1, <1>n
        <4>3. AdvancePartitionsTo(horizon)
          BY Zenon, <3>3 DEF SerialCalls
        <4> QED
          BY Zenon, <4>1, <4>2, <4>3, <1>n, <1>t, AdvanceCalm
      <3> QED
        BY Zenon, <3>1, <3>2, <3>3
    <2>3. CASE ContextReturn
      <3>1. AdvancePartitionsTo(now) /\ UNCHANGED failed /\ mode = "Callback"
        BY Zenon, <2>3 DEF ContextReturn, ghosts
      <3> QED
        BY Zenon, <3>1, <1>v, <1>n, <1>t, AdvanceCalm DEF SerialInv, InSerial
    <2>4. ASSUME NEW r \in remote_events, MergeRemoteEvent(r) PROVE Calm'
      <3>1. r.tick >= pnow[r.target]
        BY Zenon, <2>4, <1>v DEF MergeRemoteEvent, EpochInv, InParallel
      <3> QED
        BY Zenon, <2>4, <3>1 DEF MergeRemoteEvent
    <2>5. CASE EndMerge
      <3> USE <2>5 DEF EndMerge, ghosts
      <3>1. CASE call = "mixed"
        BY Zenon, <3>1, <1>h, <1>v DEF InParallel, ControlInv
      <3>2. CASE call # "mixed"
        <4>1. call \in ParallelCalls
          BY Zenon, <3>2, <1>v DEF ControlInv
        <4>2. ~SerialAtOrBefore(horizon)
          BY Zenon, <4>1 DEF IInv, NoSerialInParallelEpoch
        <4>3. batch_error /\ failed
          BY Zenon, <3>2, <4>2, <1>v DEF ControlInv
        <4> QED
          BY Zenon, <3>2, <4>3, <1>v DEF EpochInv, InParallel, Calm
      <3> QED
        BY Zenon, <3>1, <3>2
    <2>6. CASE EndParallelEpoch
      BY Zenon, <2>6, <1>h, <1>v DEF EndParallelEpoch, InParallel, ControlInv, ghosts
    <2> QED
      BY Zenon, <1>4, <2>1, <2>2, <2>3, <2>4, <2>5, <2>6
         DEF RunStep, BeginSerialEpoch, DispatchNextInPartition, DispatchSerial,
             ParallelEventReachedSerialDispatcher, BeginParallelEpoch, BeginBatch, BatchOverflow,
             WorkerPop, WorkerReturn, JoinBatch
  <1>5. CASE Halted
    BY Zenon, <1>5 DEF Halted, vars
  <1> QED
    BY Zenon, <1>1, <1>2, <1>3, <1>4, <1>5 DEF Next

\* A horizon lies at most the lookahead above every clock, and no lower than
\* the scheduler's clock when a call starts.
LEMMA HorizonBounds ==
    ASSUME QueueType, Calm, NEW h \in Tick, IsHorizon(h)
    PROVE  /\ \A p \in Partitions : h <= pnow[p] + min_remote_delay
           /\ h <= now + min_remote_delay
           /\ now <= h
  <1> USE LookaheadAssumption, TickAssumption DEF Tick
  <1>1. \A p \in Partitions : h <= pnow[p] + min_remote_delay
    BY Zenon DEF IsHorizon, IsMinOf
  <1>2. h <= now + min_remote_delay
    BY <1>1 DEF Calm, QueueType
  <1>3. now <= h
    BY Zenon DEF IsHorizon, IsMinOf, Calm
  <1> QED
    BY Zenon, <1>1, <1>2, <1>3

\* A batch keeps every clock between where the epoch found it and the horizon,
\* so what its workers send lies at or beyond the horizon.
LEMMA EpochStep == IInv /\ [Next]_vars /\ ~corrupt' => EpochInv'
  <1> SUFFICES ASSUME IInv, Next, ~corrupt', InParallel' PROVE EpochInv'
    BY DEF vars, IInv, EpochInv, InParallel, queues, loop, workers, ghosts
  <1>c. ~corrupt
    BY Zenon, CorruptStays
  <1>t. QueueType /\ RunType /\ WorkerType
    BY Zenon DEF IInv, TypeOK
  <1>v. ControlInv /\ RestInv /\ EpochInv /\ PendingNotBeforeClock /\ ControlInv'
    BY Zenon, <1>c, ControlStep DEF IInv
  <1>n. now \in Tick /\ horizon \in Tick /\ \A p \in Partitions : pnow[p] \in Tick
    BY Zenon, <1>t DEF QueueType, RunType
  <1>e. \A p \in Partitions : \A e \in pending[p] : e.tick \in Tick /\ pnow[p] <= e.tick
    BY <1>c, <1>t, <1>v DEF QueueType, Event, PendingNotBeforeClock
  <1> USE LookaheadAssumption, TickAssumption DEF Tick
  <1>1. CASE ClientStep
    BY Zenon, <1>1 DEF ClientStep, ScheduleAt, ScheduleAfter, CancelEvent, RescheduleEvent,
       QuiescentSnapshot, RestoreQuiescent, RestoreCheckpoint, DiscardExactEvents,
       PlanNextParallelEpoch, AtRest, InParallel
  <1>2. CASE StartStep
    <2>1. ASSUME NEW pl \in plan, NEW p \in Partitions, NEW e \in pending[p],
                 RunNextMixedEventParallel(pl, p, e)
          PROVE EpochInv'
      <3> USE <2>1 DEF RunNextMixedEventParallel, MixedEvent
      <3>1. PICK h \in Tick : IsHorizon(h) /\ pl.horizon <= h
        BY ZenonT(30) DEF PlanIsCurrent
      <3>2. e.tick \in Tick /\ pl.horizon \in Tick /\ e.tick <= h
        <4>1. e.tick \in Tick /\ e.tick <= pl.horizon
          BY Zenon, <1>e
        <4>2. pl.horizon \in Tick
          BY DEF IInv, TypeOK, ClientType
        <4> HIDE <2>1 DEF RunNextMixedEventParallel, MixedEvent
        <4> QED
          BY <3>1, <4>1, <4>2
      <3>3. Calm
        BY Zenon, <1>v DEF RestInv
      <3>4. /\ \A q \in Partitions : e.tick <= pnow[q] + min_remote_delay
            /\ e.tick <= now + min_remote_delay
        BY <3>1, <3>2, <3>3, <1>t, <1>n, HorizonBounds
      <3>5. pnow' = [pnow EXCEPT ![p] = e.tick] /\ horizon' = e.tick /\ partition_nows' = pnow
            /\ remote_events' = {} /\ ~batch_error'
        BY Zenon, <1>v DEF PopNext, ControlInv
      <3>6. pnow'[p] = e.tick /\ \A q \in Partitions \ {p} : pnow'[q] = pnow[q]
        BY Zenon, <3>5, <1>t DEF QueueType
      <3>7. pnow[p] <= e.tick
        BY Zenon, <1>e
      <3>8. \A q, z \in Partitions : pnow'[q] <= pnow'[z] + min_remote_delay
        BY <3>2, <3>3, <3>4, <3>6, <3>7, <1>n DEF Calm
      <3>9. \A q \in Partitions : /\ horizon' <= pnow'[q] + min_remote_delay
                                  /\ pnow'[q] <= now + min_remote_delay
                                  /\ now <= pnow'[q] + min_remote_delay
                                  /\ ~failed => pnow'[q] <= horizon' /\ now <= horizon'
                                  /\ partition_nows'[q] <= pnow'[q]
        BY <3>2, <3>3, <3>4, <3>5, <3>6, <3>7, <1>n DEF Calm
      <3>10. \A q \in Partitions : \A f \in pending'[q] : f.tick >= horizon'
        BY <3>5, <1>t, <1>e, NextFirst DEF PopNext, QueueType
      <3>11. \A q \in Partitions : worker'[q] = "busy" => q = p
        BY Zenon, <1>v, <1>t DEF ControlInv, WorkerType
      <3>12. UNCHANGED <<now, failed>> /\ call' = "mixed"
        BY Zenon DEF ghosts
      <3>13. /\ ~failed' => now' <= horizon'
             /\ horizon' <= now' + min_remote_delay
             /\ \E q \in Partitions : pnow'[q] <= horizon'
        BY <3>2, <3>4, <3>5, <3>6, <3>9, <3>12
      <3> HIDE <2>1 DEF RunNextMixedEventParallel, MixedEvent
      <3> QED
        BY Zenon, <3>5, <3>6, <3>8, <3>9, <3>10, <3>11, <3>12, <3>13 DEF EpochInv
    <2> QED
      BY ZenonT(30), <1>2, <2>1 DEF StartStep, RunNextMixedEventSerial, DispatchSerial, RunUntilIdle,
         RunNextEpochUntil, RunUntilIdleConservative, RunNextEpochParallelUntil,
         RunUntilIdleParallel, Start, InParallel
  <1>3. CASE CallbackStep
    <2>1. ASSUME NEW p \in Partitions, NEW d \in Delays, WorkerScheduleLocal(p, d) PROVE EpochInv'
      <3> USE <2>1 DEF WorkerScheduleLocal, ScheduleEventAt, loop, workers, ghosts
      <3>1. call = "mixed" => \A q \in Partitions : \A e \in pending'[q] : e.tick >= horizon
        BY <1>v, <1>n, <1>t, DelaysAssumption DEF EpochInv, InParallel, QueueType
      <3> QED
        BY Zenon, <3>1, <1>v DEF EpochInv, InParallel
    <2>2. ASSUME NEW p \in Partitions, NEW d \in Delays, NEW q \in Partitions,
                 WorkerScheduleRemote(p, q, d)
          PROVE EpochInv'
      <3> USE <2>2 DEF WorkerScheduleRemote, loop, ghosts
      <3>1. pnow[p] + d >= horizon /\ pnow[p] + d >= pnow[q]
        BY <1>v, <1>n, DelaysAssumption DEF EpochInv, InParallel
      <3>2. \A r \in remote_events' : r.tick >= horizon /\ r.tick >= pnow[r.target]
        BY <3>1, <1>v DEF EpochInv, InParallel
      <3> QED
        BY Zenon, <3>2, <1>v DEF EpochInv, InParallel
    <2>3. ASSUME NEW p \in Partitions, WorkerPanic(p) PROVE EpochInv'
      <3> USE <2>3 DEF WorkerPanic, RollbackScheduledEvents, KeptEvents, loop, ghosts
      <3>1. remote_events' \subseteq remote_events
        BY Zenon DEF TruncatedRemotes
      <3> QED
        BY Zenon, <3>1, <1>v DEF EpochInv, InParallel
    <2>4. ASSUME NEW p \in Partitions, MixedPanic(p) PROVE EpochInv'
      BY Zenon, <2>4 DEF MixedPanic, Return, Settle, InParallel
    <2> QED
      BY Zenon, <1>3, <2>1, <2>2, <2>3, <2>4
         DEF CallbackStep, ContextSchedule, ContextRestore, ContextDiscard, InParallel
  <1>4. CASE RunStep
    <2>1. CASE BeginParallelEpoch
      <3> USE <2>1 DEF BeginParallelEpoch
      <3>1. PICK h \in Tick : IsHorizon(h) /\ horizon' = Min2(h, horizon)
        BY Zenon
      <3>2. Calm
        BY Zenon, <1>v DEF RestInv
      <3>3. horizon' <= h /\ horizon' \in Tick /\ (now <= horizon => now <= horizon')
        BY <3>1, <3>2, <1>t, <1>n, HorizonBounds DEF Min2
      <3>4. now <= horizon
        BY <1>v, <1>n DEF ControlInv, ParallelCalls
      <3>5. UNCHANGED <<pnow, now, failed, remote_events, batch_error, call>> /\ mode' = "Epoch"
        BY Zenon DEF queues, workers, ghosts
      <3>6. remote_events' = {} /\ ~batch_error' /\ call' # "mixed"
        BY Zenon, <1>v DEF ControlInv, ParallelCalls
      <3>7. \A p \in Partitions : horizon' <= pnow[p] + min_remote_delay
        BY <3>1, <3>2, <3>3, <1>t, <1>n, HorizonBounds
      <3>8. horizon' <= now + min_remote_delay /\ \E p \in Partitions : pnow[p] <= horizon'
        BY <3>1, <3>2, <3>3, <3>4, <1>t, <1>n, HorizonBounds DEF Calm
      <3> QED
        BY Zenon, <3>2, <3>3, <3>4, <3>5, <3>6, <3>7, <3>8 DEF EpochInv, Calm
    <2>2. CASE BeginBatch
      BY <2>2, <1>v, <1>n DEF BeginBatch, EpochInv, InParallel, ControlInv, ParallelCalls, queues,
         loop, ghosts
    <2>3. ASSUME NEW p \in Partitions, NEW e \in pending[p], WorkerPop(p, e) PROVE EpochInv'
      <3> USE <2>3 DEF WorkerPop, loop, ghosts
      <3>1. e.tick \in Tick /\ pnow[p] <= e.tick /\ e.tick <= horizon
        BY Zenon, <1>e
      <3>2. pnow'[p] = e.tick /\ \A q \in Partitions \ {p} : pnow'[q] = pnow[q]
        BY Zenon, <1>t DEF PopNext, QueueType
      <3>3. call # "mixed" /\ ~batch_error
        BY ZenonT(30), <1>v DEF ControlInv
      <3>4. \A q, z \in Partitions : pnow'[q] <= pnow'[z] + min_remote_delay
        BY <3>1, <3>2, <1>v, <1>n DEF EpochInv, InParallel
      <3>5. \A q \in Partitions : /\ horizon' <= pnow'[q] + min_remote_delay
                                  /\ pnow'[q] <= now + min_remote_delay
                                  /\ now <= pnow'[q] + min_remote_delay
                                  /\ ~failed => pnow'[q] <= horizon'
        BY <3>1, <3>2, <1>v, <1>n, SMTT(30) DEF EpochInv, InParallel
      <3>6. \A q \in Partitions : partition_nows'[q] <= pnow'[q]
        BY <3>1, <3>2, <1>v, <1>n, <1>t DEF EpochInv, InParallel, WorkerType
      <3>7. \E q \in Partitions : pnow'[q] <= horizon'
        BY Zenon, <3>1, <3>2
      <3>8. \A r \in remote_events : r.tick >= horizon /\ r.tick >= pnow'[r.target]
        BY <3>1, <3>2, <1>v, <1>n, <1>t DEF EpochInv, InParallel, WorkerType, RemoteEvent
      <3> QED
        BY Zenon, <3>3, <3>4, <3>5, <3>6, <3>7, <3>8, <1>v DEF EpochInv, InParallel
    <2>4. ASSUME NEW p \in Partitions, WorkerReturn(p) PROVE EpochInv'
      <3> USE <2>4 DEF WorkerReturn, queues, ghosts
      <3>1. \A q \in Partitions : worker'[q] = "busy" => worker[q] = "busy"
        BY Zenon, <1>t DEF WorkerType
      <3> QED
        BY Zenon, <3>1, <1>v DEF EpochInv, InParallel
    <2>5. CASE JoinBatch
      <3> USE <2>5 DEF JoinBatch, queues, loop
      <3>1. CASE \E p \in Partitions : worker[p] = "failed"
        <4>1. batch_error' /\ failed' /\ call # "mixed"
          BY Zenon, <3>1, <1>v DEF ControlInv
        <4>2. \E t \in Tick : IsMaxOf(t, {now} \cup {pnow[p] : p \in Batch}) /\ now' = t
          BY Zenon, <3>1
        <4>3. /\ now' \in Tick /\ now <= now' /\ \A p \in Batch : pnow[p] <= now'
              /\ now' = now \/ \E p \in Partitions : now' = pnow[p]
          BY Zenon, <4>2 DEF IsMaxOf, Batch
        <4>4. \E p \in Partitions : pnow[p] <= now'
          BY Zenon, <3>1, <4>3 DEF Batch
        <4>5. \A p \in Partitions : now' <= pnow[p] + min_remote_delay
          BY Zenon, <4>3, <1>v, <1>n DEF EpochInv, InParallel
        <4>6. /\ horizon <= now' + min_remote_delay
              /\ \A p \in Partitions : pnow[p] <= now' + min_remote_delay
          BY Zenon, <4>3, <1>v, <1>n DEF EpochInv, InParallel
        <4> QED
          BY Zenon, <4>1, <4>4, <4>5, <4>6, <1>v DEF EpochInv, InParallel
      <3>2. CASE ~ \E p \in Partitions : worker[p] = "failed"
        <4>1. ~batch_error' /\ failed' = failed
          BY ZenonT(30), <3>2, <1>v DEF IInv, TypeOK, ClientType
        <4>2. CASE call = "mixed"
          <5>1. now' = horizon
            BY Zenon, <3>2, <4>2
          <5>2. \A p \in Partitions : pnow[p] <= horizon + min_remote_delay
            BY <1>v, <1>n DEF EpochInv, InParallel
          <5> QED
            BY <4>1, <4>2, <5>1, <5>2, <1>v, <1>n DEF EpochInv, InParallel
        <4>3. CASE call # "mixed"
          <5>1. now' = now /\ ~batch_error
            BY Zenon, <3>2, <4>3, <1>v DEF ControlInv
          <5> QED
            BY Zenon, <4>1, <4>3, <5>1, <1>v DEF EpochInv, InParallel
        <4> QED
          BY Zenon, <4>2, <4>3
      <3> QED
        BY Zenon, <3>1, <3>2
    <2>6. ASSUME NEW r \in remote_events, MergeRemoteEvent(r) PROVE EpochInv'
      <3> USE <2>6 DEF MergeRemoteEvent
      <3>1. r.tick >= pnow[r.target] /\ r.tick >= horizon
        BY Zenon, <1>v DEF EpochInv, InParallel
      <3>2. /\ ScheduleEventAt(r.target, r.tick, "Parallel")
            /\ remote_events' = remote_events \ {r}
            /\ UNCHANGED <<mode, call, loop, worker, batch_error, now, failed, pnow>>
        BY Zenon, <3>1 DEF ghosts, ScheduleEventAt
      <3>3. call = "mixed" => \A q \in Partitions : \A e \in pending'[q] : e.tick >= horizon
        BY <3>1, <3>2, <1>v, <1>t DEF ScheduleEventAt, QueueType, EpochInv, InParallel, WorkerType, RemoteEvent
      <3> QED
        BY Zenon, <3>2, <3>3, <1>v DEF EpochInv, InParallel, loop
    <2>7. CASE EndMerge
      BY Zenon, <2>7, <1>v DEF EndMerge, Return, Settle, EpochInv, InParallel, loop, workers, ghosts
    <2> QED
      BY Zenon, <1>4, <2>1, <2>2, <2>3, <2>4, <2>5, <2>6, <2>7
         DEF RunStep, NoSerialEpoch, BeginSerialEpoch, EndSerial, DispatchNextInPartition,
             DispatchSerial, ParallelEventReachedSerialDispatcher, ContextReturn, NoParallelEpoch,
             RefuseParallelEpoch, BatchOverflow, EndParallelEpoch, Return, Settle, InParallel
  <1>5. CASE Halted
    BY ZenonT(30), <1>5 DEF Halted, vars, InParallel
  <1> QED
    BY Zenon, <1>1, <1>2, <1>3, <1>4, <1>5 DEF Next

\* Dispatching the globally first event keeps every clock within the lookahead
\* of what is pending, whatever the callback restores or discards.
LEMMA SerialStep == IInv /\ [Next]_vars /\ ~corrupt' => SerialInv'
  <1> SUFFICES ASSUME IInv, Next, ~corrupt', InSerial' PROVE SerialInv'
    BY DEF vars, IInv, SerialInv, InSerial, queues, loop, serial, ghosts
  <1>c. ~corrupt
    BY Zenon, CorruptStays
  <1>t. QueueType /\ RunType /\ saved \subseteq Snapshot
    BY Zenon DEF IInv, TypeOK, ClientType
  <1>v. ControlInv /\ RestInv /\ SerialInv /\ PendingNotBeforeClock
    BY Zenon, <1>c DEF IInv
  <1>n. now \in Tick /\ horizon \in Tick /\ ctx.now \in Tick
        /\ \A p \in Partitions : pnow[p] \in Tick
    BY Zenon, <1>t DEF QueueType, RunType
  <1>e. \A p \in Partitions : \A e \in pending[p] : e.tick \in Tick /\ pnow[p] <= e.tick
    BY <1>c, <1>t, <1>v DEF QueueType, Event, PendingNotBeforeClock
  <1> USE LookaheadAssumption, TickAssumption DEF Tick
  \* A dispatch, from the serial loop or as a mixed event
  <1>d. ASSUME NEW p \in Partitions, NEW e \in pending[p], IsNextPartition(p, e),
               DispatchSerial(p, e), UNCHANGED failed,
               \A q \in Partitions : /\ pnow[q] <= e.tick + min_remote_delay
                                     /\ ~failed => pnow[q] <= e.tick,
               call' \in SerialCalls => /\ UNCHANGED <<call, horizon>> /\ mode = "Serial"
                                        /\ e.tick <= horizon
        PROVE SerialInv'
    <2>1. /\ now' = e.tick /\ ctx'.now = now' /\ mode' = "Callback"
          /\ pnow'[p] = e.tick /\ \A q \in Partitions \ {p} : pnow'[q] = pnow[q]
          /\ \A q \in Partitions : pending'[q] \subseteq pending[q]
      BY Zenon, <1>d, <1>t DEF DispatchSerial, PopNext, QueueType
    <2>2. e.tick \in Tick
      BY Zenon, <1>e
    <2>3. /\ \A q \in Partitions : pnow'[q] <= now' + min_remote_delay
          /\ \E q \in Partitions : pnow'[q] <= now'
          /\ ~failed' => \A q \in Partitions : pnow'[q] <= now'
      BY <1>d, <2>1, <2>2
    <2>4. \A q \in Partitions : \A f \in pending'[q] : now' <= f.tick
      BY Zenon, <1>d, <1>t, <2>1, NextFirst
    <2>5. call' \in SerialCalls =>
            /\ now' <= horizon'
            /\ \A q \in Partitions : /\ pnow'[q] <= horizon' + min_remote_delay
                                     /\ ~failed' => pnow'[q] <= horizon'
      BY <1>d, <1>v, <2>1, <2>2, <1>n DEF SerialInv
    <2> QED
      BY Zenon, <2>1, <2>3, <2>4, <2>5 DEF SerialInv
  \* The serial loop starts with calm clocks
  <1>b. ASSUME Calm, mode' = "Serial", UNCHANGED <<now, pnow, pending, failed>>,
               call' \in SerialCalls => now <= horizon', horizon' \in Tick
        PROVE SerialInv'
    <2>1. \A p, q \in Partitions : \A e \in pending[p] :
             pnow[q] <= e.tick + min_remote_delay /\ (~failed => now <= e.tick)
      BY <1>b, <1>e, <1>n DEF Calm
    <2>2. call' \in SerialCalls =>
            \A q \in Partitions : /\ pnow[q] <= horizon' + min_remote_delay
                                  /\ ~failed => pnow[q] <= horizon'
      BY <1>b, <1>n DEF Calm
    <2> QED
      BY Zenon, <1>b, <2>1, <2>2 DEF Calm, SerialInv
  <1>1. CASE ClientStep
    BY Zenon, <1>1 DEF ClientStep, ScheduleAt, ScheduleAfter, CancelEvent, RescheduleEvent,
       QuiescentSnapshot, RestoreQuiescent, RestoreCheckpoint, DiscardExactEvents,
       PlanNextParallelEpoch, AtRest, InSerial
  <1>2. CASE StartStep
    <2>1. CASE RunUntilIdle
      BY <2>1, <1>b, <1>v DEF RunUntilIdle, Start, RestInv, SerialCalls, queues, ghosts
    <2>2. ASSUME NEW pl \in plan, NEW p \in Partitions, NEW e \in pending[p],
                 RunNextMixedEventSerial(pl, p, e)
          PROVE SerialInv'
      <3> USE <2>2 DEF RunNextMixedEventSerial, MixedEvent
      <3>1. Calm
        BY Zenon, <1>v DEF RestInv
      <3>2. \A q \in Partitions : /\ pnow[q] <= e.tick + min_remote_delay
                                  /\ ~failed => pnow[q] <= e.tick
        BY <3>1, <1>e, <1>n DEF Calm
      <3> QED
        BY Zenon, <3>2, <1>d DEF SerialCalls, ghosts
    <2> QED
      BY Zenon, <1>2, <2>1, <2>2 DEF StartStep, RunNextMixedEventParallel, RunNextEpochUntil,
         RunUntilIdleConservative, RunNextEpochParallelUntil, RunUntilIdleParallel, Start, InSerial
  <1>3. CASE CallbackStep
    <2>1. ASSUME NEW q \in Partitions, NEW d \in Delays, ContextSchedule(q, d) PROVE SerialInv'
      <3> USE <2>1 DEF ContextSchedule, ScheduleEventAt, loop, serial, ghosts
      <3>1. ASSUME ctx.now = now, \A p \in Partitions : \A e \in pending[p] : now <= e.tick
            PROVE  \A p \in Partitions : \A e \in pending'[p] : now <= e.tick
        BY <3>1, <1>n, <1>t, DelaysAssumption DEF QueueType
      <3> QED
        BY Zenon, <3>1, <1>v DEF SerialInv, InSerial
    <2>2. ASSUME NEW s \in saved, NEW f \in Preservable, ContextRestore(s, f) PROVE SerialInv'
      <3> USE <2>2 DEF ContextRestore, loop
      <3>1. Calm' /\ \A q \in Partitions : pnow'[q] = now'
        BY Zenon, <1>t, RestoreCalm
      <3> QED
        BY Zenon, <3>1, <1>v DEF SerialInv, Calm
    <2>3. ASSUME NEW f \in Preservable, ContextDiscard(f) PROVE SerialInv'
      <3> USE <2>3 DEF ContextDiscard, loop, ghosts
      <3>1. \A q \in Partitions : pending'[q] \subseteq pending[q]
        BY Zenon DEF Preservable
      <3> QED
        BY Zenon, <3>1, <1>v DEF SerialInv, InSerial
    <2> QED
      BY ZenonT(30), <1>3, <2>1, <2>2, <2>3 DEF CallbackStep, WorkerScheduleLocal, WorkerScheduleRemote,
         WorkerPanic, MixedPanic, Return, Settle, InSerial
  <1>4. CASE RunStep
    <2>1. CASE BeginSerialEpoch
      <3> USE <2>1 DEF BeginSerialEpoch, queues, ghosts
      <3>1. PICK h \in Tick : IsHorizon(h) /\ horizon' = Min2(h, horizon)
        BY Zenon
      <3>2. Calm
        BY Zenon, <1>v DEF RestInv
      <3>3. now <= horizon
        BY <1>v, <1>n DEF ControlInv, SerialCalls
      <3>4. now <= horizon' /\ horizon' \in Tick
        BY Zenon, <3>1, <3>2, <3>3, <1>t, <1>n, HorizonBounds DEF Min2
      <3> QED
        BY Zenon, <3>2, <3>4, <1>b
    <2>2. CASE DispatchNextInPartition
      <3> USE <2>2 DEF DispatchNextInPartition, ghosts
      <3>1. PICK p \in Partitions : \E e \in pending[p] :
               IsNextPartition(p, e) /\ e.tick <= horizon /\ DispatchSerial(p, e)
        BY Zenon
      <3>2. PICK e \in pending[p] :
               IsNextPartition(p, e) /\ e.tick <= horizon /\ DispatchSerial(p, e)
        BY Zenon, <3>1
      <3>3. \A q \in Partitions : /\ pnow[q] <= e.tick + min_remote_delay
                                  /\ ~failed => pnow[q] <= e.tick
        BY <1>v, <1>n, <1>e DEF SerialInv, InSerial
      <3> QED
        BY Zenon, <3>2, <3>3, <1>d
    <2>3. CASE ContextReturn
      <3> USE <2>3 DEF ContextReturn, loop, ghosts
      <3>1. /\ mode' = "Serial" /\ UNCHANGED <<now, pnow, pending, failed, call, horizon>>
            /\ call = "until_idle" \/ (call \in SerialCalls /\ ~revised)
        BY Zenon DEF Return, Settle, InSerial
      <3>2. \A p, q \in Partitions : \A e \in pending[p] :
               pnow[q] <= e.tick + min_remote_delay /\ now <= e.tick
        <4>1. CASE \A q \in Partitions : pnow[q] = now
          BY <4>1, <1>n, <1>e
        <4>2. CASE \A p \in Partitions : \A e \in pending[p] : now <= e.tick
          BY <4>2, <1>v, <1>n, <1>e DEF SerialInv, InSerial
        <4> QED
          BY ZenonT(30), <4>1, <4>2, <1>v DEF SerialInv
      <3> QED
        BY <3>1, <3>2, <1>v DEF SerialInv, InSerial, SerialCalls
    <2> QED
      BY Zenon, <1>4, <2>1, <2>2, <2>3
         DEF RunStep, NoSerialEpoch, EndSerial, ParallelEventReachedSerialDispatcher,
             NoParallelEpoch, RefuseParallelEpoch, BeginParallelEpoch, BeginBatch, BatchOverflow,
             WorkerPop, WorkerReturn, JoinBatch, MergeRemoteEvent, EndMerge, EndParallelEpoch,
             Return, Settle, InSerial
  <1>5. CASE Halted
    BY Zenon, <1>5 DEF Halted, vars, InSerial
  <1> QED
    BY Zenon, <1>1, <1>2, <1>3, <1>4, <1>5 DEF Next

-----------------------------------------------------------------------------
(* The invariant and what follows from it                                  *)

\* A new scheduler satisfies the invariant.
LEMMA InitInv == Init => IInv
  <1> SUFFICES ASSUME Init PROVE IInv
    BY Zenon
  <1>0. 0 \in Partitions
    BY PartitionsAssumption DEF Partitions
  <1>1. TypeOK
    BY Zenon, InitType
  <1>2. ControlInv
    BY Zenon DEF Init, ControlInv
  <1>3. NoSerialInParallelEpoch /\ PendingNotBeforeClock /\ EventsDistinct /\ PanicLeavesNoTrace
    BY Zenon DEF Init, NoSerialInParallelEpoch, PendingNotBeforeClock, EventsDistinct, PanicLeavesNoTrace
  <1>4. Calm
    BY <1>0, LookaheadAssumption DEF Init, Calm
  <1>5. EpochInv /\ SerialInv /\ RollbackInv
    BY Zenon DEF Init, EpochInv, SerialInv, RollbackInv, InParallel, InSerial
  <1> QED
    BY Zenon, <1>1, <1>2, <1>3, <1>4, <1>5 DEF IInv, RestInv

\* Every step keeps the invariant.
LEMMA InvStep == IInv /\ [Next]_vars => IInv'
  <1> SUFFICES ASSUME IInv, [Next]_vars PROVE IInv'
    BY Zenon
  <1>1. TypeOK' /\ ControlInv' /\ NoSerialInParallelEpoch'
    BY Zenon, TypeStep, ControlStep, NoSerialStep DEF IInv
  <1>2. PendingNotBeforeClock' /\ EventsDistinct' /\ PanicLeavesNoTrace'
    BY Zenon, PendingStep, DistinctStep, PanicStep
  <1>3. ~corrupt' => RestInv' /\ EpochInv' /\ SerialInv' /\ RollbackInv'
    BY Zenon, RestStep, EpochStep, SerialStep, PanicStep
  <1> QED
    BY Zenon, <1>1, <1>2, <1>3 DEF IInv

\* The inductive invariant holds in every reachable state.
THEOREM Invariance == Spec => []IInv
  BY InitInv, InvStep, PTL DEF Spec

\* Runtime invariant 3: a remote message that respects the lookahead is never in
\* its target's past, for any number of partitions and workers.
THEOREM LookaheadSafe == Spec => []LegalRemoteNeverInPast
  <1>1. IInv => LegalRemoteNeverInPast
    <2> SUFFICES ASSUME IInv, ~corrupt PROVE LegalRemoteNeverInPast
      BY Zenon DEF LegalRemoteNeverInPast
    <2>t. QueueType /\ RunType /\ ControlInv /\ EpochInv /\ SerialInv
      BY Zenon DEF IInv, TypeOK
    <2>1. \A r \in remote_events : r.tick >= pnow[r.target]
      BY Zenon, <2>t DEF ControlInv, EpochInv, InParallel
    <2>2. mode = "Batch" => \A p, q \in Partitions : /\ partition_nows[q] <= pnow[q]
                                                     /\ pnow[q] <= pnow[p] + min_remote_delay
      BY Zenon, <2>t DEF EpochInv, InParallel
    <2>3. mode = "Callback" /\ ~revised => \A q \in Partitions : pnow[q] <= ctx.now + min_remote_delay
      BY Zenon, <2>t DEF SerialInv, InSerial
    <2> QED
      BY Zenon, <2>1, <2>2, <2>3 DEF LegalRemoteNeverInPast
  <1> QED
    BY <1>1, Invariance, PTL

\* No partition's clock ever passes one of its pending events.
THEOREM NoEventOverrun == Spec => []PendingNotBeforeClock
  <1>1. IInv => PendingNotBeforeClock
    BY Zenon DEF IInv
  <1> QED
    BY <1>1, Invariance, PTL

\* Between calls the clocks are on one tick unless a batch has failed, since every
\* epoch ends with advance_partitions_to; and within the lookahead of each other
\* also then, when run_parallel_batch has put its queues back.
THEOREM ClocksTogether == Spec => []SkewBounded
  <1>1. IInv => SkewBounded
    BY Zenon DEF IInv, RestInv, Calm, SkewBounded
  <1> QED
    BY <1>1, Invariance, PTL

\* Ids and orders of a partition's pending events are distinct, although rollbacks
\* and restores set the counters back (PartitionQueue::schedule).
THEOREM NamesDistinct == Spec => []EventsDistinct
  <1>1. IInv => EventsDistinct
    BY Zenon DEF IInv
  <1> QED
    BY <1>1, Invariance, PTL

\* A panic takes back exactly what its callback scheduled
\* (rollback_scheduled_events, run_parallel_partition).
THEOREM RollbackExactly == Spec => []PanicLeavesNoTrace
  <1>1. IInv => PanicLeavesNoTrace
    BY Zenon DEF IInv
  <1> QED
    BY <1>1, Invariance, PTL

\* A worker of a parallel epoch never meets a serial event.
THEOREM SerialKeptOut == Spec => []NoSerialInParallelEpoch
  <1>1. IInv => NoSerialInParallelEpoch
    BY Zenon DEF IInv
  <1> QED
    BY <1>1, Invariance, PTL

-----------------------------------------------------------------------------
(* Action properties                                                       *)

\* No step but a restore sets a clock back.
LEMMA Forward == IInv /\ [Next]_vars => [ForwardStep]_vars
  <1> DEFINE Goal == /\ \A p \in Partitions : pnow[p] <= pnow'[p]
                     /\ failed \/ now <= now'
  <1> SUFFICES ASSUME IInv, Next, ~corrupt', ~RestoreStep PROVE Goal
    BY Zenon DEF ForwardStep
  <1>c. ~corrupt
    BY Zenon, CorruptStays
  <1>t. QueueType /\ RunType
    BY Zenon DEF IInv, TypeOK
  <1>v. ControlInv /\ RestInv /\ EpochInv /\ SerialInv /\ PendingNotBeforeClock
    BY Zenon, <1>c DEF IInv
  <1>n. now \in Tick /\ horizon \in Tick /\ \A p \in Partitions : pnow[p] \in Tick
    BY Zenon, <1>t DEF QueueType, RunType
  <1>e. \A p \in Partitions : \A e \in pending[p] : e.tick \in Tick /\ pnow[p] <= e.tick
    BY <1>c, <1>t, <1>v DEF QueueType, Event, PendingNotBeforeClock
  <1> USE LookaheadAssumption, TickAssumption DEF Tick
  <1> HIDE DEF Goal
  <1>u. ASSUME UNCHANGED <<now, pnow>> PROVE Goal
    BY <1>u, <1>n DEF Goal
  <1>a. ASSUME NEW t \in Tick, AdvancePartitionsTo(t), failed \/ now <= t PROVE Goal
    BY <1>a, <1>n DEF AdvancePartitionsTo, Max2, Goal
  <1>o. ASSUME NEW p \in Partitions, NEW e \in pending[p], PopNext(p, e),
               failed \/ now <= now'
        PROVE  Goal
    BY <1>o, <1>n, <1>e, <1>t DEF PopNext, QueueType, Goal
  <1>1. CASE ClientStep
    <2>1. ASSUME NEW s \in saved, \/ RestoreQuiescent(s)
                                  \/ \E f \in Preservable : RestoreCheckpoint(s, f)
          PROVE FALSE
      BY Zenon, <2>1 DEF RestoreQuiescent, RestoreCheckpoint, RestoreProjection, RestoreStep
    <2> QED
      BY Zenon, <1>1, <2>1, <1>u DEF ClientStep, ScheduleAt, ScheduleAfter, CancelEvent, RescheduleEvent,
         QuiescentSnapshot, DiscardExactEvents, PlanNextParallelEpoch, ScheduleEventAt, queues
  <1>2. CASE StartStep
    <2>1. ASSUME NEW pl \in plan, NEW p \in Partitions, NEW e \in pending[p],
                 RunNextMixedEventSerial(pl, p, e)
          PROVE Goal
      <3>1. failed \/ now <= e.tick
        BY Zenon, <2>1, <1>v, <1>e DEF RunNextMixedEventSerial, MixedEvent, RestInv, Calm
      <3> QED
        BY Zenon, <2>1, <3>1, <1>o DEF RunNextMixedEventSerial, DispatchSerial
    <2>2. ASSUME NEW pl \in plan, NEW p \in Partitions, NEW e \in pending[p],
                 RunNextMixedEventParallel(pl, p, e)
          PROVE Goal
      BY <2>2, <1>o, <1>n DEF RunNextMixedEventParallel
    <2> QED
      BY Zenon, <1>2, <2>1, <2>2, <1>u DEF StartStep, RunUntilIdle, RunNextEpochUntil,
         RunUntilIdleConservative, RunNextEpochParallelUntil, RunUntilIdleParallel, Start, queues
  <1>3. CASE CallbackStep
    <2>1. ASSUME NEW s \in saved, NEW f \in Preservable, ContextRestore(s, f) PROVE FALSE
      BY Zenon, <2>1 DEF ContextRestore, RestoreProjection, RestoreStep
    <2>2. ASSUME NEW p \in Partitions, MixedPanic(p) PROVE Goal
      BY Zenon, <2>2, <1>a, <1>n, <1>v DEF MixedPanic, EpochInv, InParallel
    <2> QED
      BY ZenonT(30), <1>3, <2>1, <2>2, <1>u DEF CallbackStep, ContextSchedule, ContextDiscard,
         WorkerScheduleLocal, WorkerScheduleRemote, WorkerPanic, ScheduleEventAt
  <1>4. CASE RunStep
    <2>1. CASE \/ NoSerialEpoch \/ BeginSerialEpoch \/ NoParallelEpoch \/ RefuseParallelEpoch
               \/ BeginParallelEpoch \/ BeginBatch \/ \E p \in Partitions : WorkerReturn(p)
      BY Zenon, <2>1, <1>u DEF NoSerialEpoch, BeginSerialEpoch, NoParallelEpoch, RefuseParallelEpoch,
         BeginParallelEpoch, BeginBatch, WorkerReturn, queues
    <2>2. CASE DispatchNextInPartition \/ ParallelEventReachedSerialDispatcher
      <3>1. mode = "Serial" /\ \E p \in Partitions : \E e \in pending[p] :
               PopNext(p, e) /\ now' = e.tick
        BY Zenon, <2>2 DEF DispatchNextInPartition, DispatchSerial, ParallelEventReachedSerialDispatcher
      <3> QED
        BY Zenon, <3>1, <1>o, <1>v DEF SerialInv
    <2>3. CASE EndSerial
      <3>1. call # "until_idle" => now <= horizon
        BY Zenon, <2>3, <1>v DEF EndSerial, ControlInv, SerialInv
      <3> QED
        BY <2>3, <3>1, <1>a, <1>n DEF EndSerial
    <2>4. CASE ContextReturn
      BY <2>4, <1>a, <1>u, <1>n DEF ContextReturn
    <2>5. ASSUME NEW p \in Partitions, NEW e \in pending[p], WorkerPop(p, e) PROVE Goal
      BY <2>5, <1>o, <1>n DEF WorkerPop
    <2>6. CASE JoinBatch
      <3>1. UNCHANGED pnow /\ (failed \/ now <= now')
        BY <2>6, <1>n, <1>v DEF JoinBatch, IsMaxOf, EpochInv, InParallel, queues
      <3> QED
        BY <3>1, <1>n DEF Goal
    <2>7. ASSUME NEW r \in remote_events, MergeRemoteEvent(r) PROVE Goal
      BY Zenon, <2>7, <1>u DEF MergeRemoteEvent, ScheduleEventAt, queues
    <2>8. CASE EndMerge
      BY <2>8, <1>a, <1>u, <1>n DEF EndMerge
    <2>9. CASE EndParallelEpoch
      BY Zenon, <2>9, <1>a, <1>n, <1>v DEF EndParallelEpoch, EpochInv, InParallel
    <2>10. CASE BatchOverflow
      BY Zenon, <2>10 DEF BatchOverflow
    <2> QED
      BY Zenon, <1>4, <2>1, <2>2, <2>3, <2>4, <2>5, <2>6, <2>7, <2>8, <2>9, <2>10 DEF RunStep
  <1>5. CASE Halted
    BY Zenon, <1>5, <1>u DEF Halted, vars, queues
  <1> QED
    BY Zenon, <1>1, <1>2, <1>3, <1>4, <1>5 DEF Next

\* Clocks of partitions never move back except in a restore, and the scheduler's
\* own clock does so only after a failed batch.
THEOREM ClocksForward == Spec => ClocksMoveForward
  BY Invariance, Forward, PTL DEF Spec, ClocksMoveForward

\* Every step gives a new event a token that was never handed out.
LEMMA FreshToken == IInv /\ [Next]_vars => [FreshTokenStep]_vars
  <1> DEFINE Goal == \A p \in Partitions :
                        /\ next_runtime_token[p] <= next_runtime_token'[p]
                        /\ \A e \in pending'[p] :
                              \/ \E f \in pending[p] : f.token = e.token /\ f.id = e.id
                              \/ e.token >= next_runtime_token[p]
  <1> SUFFICES ASSUME IInv, Next, ~corrupt' PROVE Goal
    BY Zenon DEF FreshTokenStep
  <1>t. QueueType /\ WorkerType
    BY Zenon DEF IInv, TypeOK
  <1>n. \A p \in Partitions : next_runtime_token[p] \in Nat
    BY Zenon, <1>t DEF QueueType
  <1>q. ASSUME UNCHANGED next_runtime_token,
               \A p \in Partitions : pending'[p] \subseteq pending[p]
        PROVE Goal
    BY <1>q, <1>n
  <1>s. ASSUME NEW p \in Partitions, NEW t, NEW k, ScheduleEventAt(p, t, k) PROVE Goal
    BY <1>s, <1>t DEF ScheduleEventAt, QueueType
  <1>r. ASSUME NEW s, NEW f \in Preservable, RestoreProjection(s, f) PROVE Goal
    BY Zenon, <1>r, <1>q DEF RestoreProjection, Preservable
  <1>o. ASSUME NEW p \in Partitions, NEW e, PopNext(p, e) PROVE Goal
    BY Zenon, <1>o, <1>q, <1>t DEF PopNext, QueueType, counters
  <1>k. ASSUME NEW p \in Partitions, RollbackScheduledEvents(p) PROVE Goal
    BY Zenon, <1>k, <1>q, <1>t DEF RollbackScheduledEvents, KeptEvents, QueueType
  <1> HIDE DEF Goal
  <1>1. CASE ClientStep
    <2>1. ASSUME NEW p \in Partitions, NEW e \in pending[p], NEW t \in ClientTicks,
                 RescheduleEvent(p, e, t)
          PROVE Goal
      <3> DEFINE n == [e EXCEPT !.tick = t]
      <3>1. n.token = e.token /\ n.id = e.id
        BY <1>t DEF QueueType, Event
      <3>2. \A q \in Partitions : \A g \in pending'[q] : g \in pending[q] \/ (q = p /\ g = n)
        BY Zenon, <2>1, <1>t DEF RescheduleEvent, QueueType
      <3>3. UNCHANGED next_runtime_token
        BY Zenon, <2>1 DEF RescheduleEvent, counters
      <3> HIDE DEF n
      <3> QED
        BY <3>1, <3>2, <3>3, <1>n DEF Goal
    <2>2. ASSUME NEW p \in Partitions, NEW e \in pending[p], CancelEvent(p, e) PROVE Goal
      BY Zenon, <2>2, <1>q, <1>t DEF CancelEvent, QueueType, counters
    <2>3. ASSUME NEW f \in Preservable, DiscardExactEvents(f) PROVE Goal
      BY Zenon, <2>3, <1>q DEF DiscardExactEvents, Preservable, counters
    <2>4. CASE QuiescentSnapshot \/ \E t \in ClientTicks \cup {TickMax} : PlanNextParallelEpoch(t)
      BY Zenon, <2>4, <1>q DEF QuiescentSnapshot, PlanNextParallelEpoch, queues, counters
    <2> QED
      BY Zenon, <1>1, <2>1, <2>2, <2>3, <2>4, <1>s, <1>r, <1>t, PendingPreservable
         DEF ClientStep, ScheduleAt, ScheduleAfter, RestoreQuiescent, RestoreCheckpoint
  <1>2. CASE StartStep
    BY Zenon, <1>2, <1>o, <1>q DEF StartStep, RunNextMixedEventSerial, RunNextMixedEventParallel,
       DispatchSerial, RunUntilIdle, RunNextEpochUntil, RunUntilIdleConservative,
       RunNextEpochParallelUntil, RunUntilIdleParallel, Start, queues, counters
  <1>3. CASE CallbackStep
    <2>1. ASSUME NEW f \in Preservable, ContextDiscard(f) PROVE Goal
      BY Zenon, <2>1, <1>q DEF ContextDiscard, Preservable, counters
    <2>2. ASSUME NEW p \in Partitions, WorkerPanic(p) \/ MixedPanic(p) PROVE Goal
      BY Zenon, <2>2, <1>k DEF WorkerPanic, MixedPanic
    <2>3. ASSUME NEW p \in Partitions, NEW d \in Delays, NEW q \in Partitions,
                 WorkerScheduleRemote(p, q, d)
          PROVE Goal
      BY Zenon, <2>3, <1>q DEF WorkerScheduleRemote
    <2> QED
      BY Zenon, <1>3, <2>1, <2>2, <2>3, <1>s, <1>r
         DEF CallbackStep, ContextSchedule, ContextRestore, WorkerScheduleLocal
  <1>4. CASE RunStep
    <2>1. CASE \/ NoSerialEpoch \/ BeginSerialEpoch \/ NoParallelEpoch \/ RefuseParallelEpoch
               \/ BeginParallelEpoch \/ BeginBatch \/ JoinBatch \/ EndSerial \/ ContextReturn
               \/ EndMerge \/ EndParallelEpoch \/ \E p \in Partitions : WorkerReturn(p)
      BY Zenon, <2>1, <1>q DEF NoSerialEpoch, BeginSerialEpoch, NoParallelEpoch, RefuseParallelEpoch,
         BeginParallelEpoch, BeginBatch, JoinBatch, EndSerial, ContextReturn, EndMerge,
         EndParallelEpoch, WorkerReturn, queues, counters
    <2>2. CASE \/ DispatchNextInPartition \/ ParallelEventReachedSerialDispatcher
               \/ \E p \in Partitions : \E e \in pending[p] : WorkerPop(p, e)
      BY Zenon, <2>2, <1>o DEF DispatchNextInPartition, DispatchSerial,
         ParallelEventReachedSerialDispatcher, WorkerPop
    <2>3. ASSUME NEW r \in remote_events, MergeRemoteEvent(r) PROVE Goal
      BY Zenon, <2>3, <1>s, <1>q, <1>t DEF MergeRemoteEvent, WorkerType, RemoteEvent, queues, counters
    <2>4. CASE BatchOverflow
      BY Zenon, <2>4 DEF BatchOverflow
    <2> QED
      BY Zenon, <1>4, <2>1, <2>2, <2>3, <2>4 DEF RunStep
  <1>5. CASE Halted
    BY Zenon, <1>5, <1>q DEF Halted, vars, queues, counters
  <1> QED
    BY Zenon, <1>1, <1>2, <1>3, <1>4, <1>5 DEF Next

\* An event that was not pending before carries a token never handed out.
THEOREM TokensFresh == Spec => TokenNamesOneEvent
  BY Invariance, FreshToken, PTL DEF Spec, TokenNamesOneEvent

\* Every step keeps, delivers or takes back a message in an outbox.
LEMMA Delivery == IInv /\ [Next]_vars => [DeliveryStep]_vars
  <1> SUFFICES ASSUME IInv, Next, ~corrupt', NEW r \in remote_events, r \notin remote_events'
               PROVE  \/ /\ remote_events' = remote_events \ {r}
                         /\ \E f \in pending'[r.target] :
                               f.tick = r.tick /\ f.token = next_runtime_token[r.target]
                      \/ worker[r.source] = "busy" /\ r.order >= rollback[r.source].remote
    BY Zenon DEF DeliveryStep
  <1>t. QueueType /\ WorkerType /\ r.source \in Partitions /\ r.target \in Partitions /\ r.order \in Nat
    BY Zenon DEF IInv, TypeOK, WorkerType, RemoteEvent
  <1>m. mode \in {"Batch", "Merge"}
    BY Zenon DEF IInv, ControlInv
  <1>v. EpochInv /\ ControlInv
    BY ZenonT(30), CorruptStays DEF IInv
  <1>1. ASSUME NEW p \in Partitions, WorkerPanic(p)
        PROVE worker[r.source] = "busy" /\ r.order >= rollback[r.source].remote
    BY <1>1, <1>t DEF WorkerPanic, TruncatedRemotes, Rollback, WorkerType
  <1>2. ASSUME NEW p \in Partitions, MixedPanic(p)
        PROVE worker[r.source] = "busy" /\ r.order >= rollback[r.source].remote
    <2>1. /\ worker[p] = "busy" /\ r.source = p /\ rollback[p].remotes = {}
          /\ {u \in remote_events : u.source = p /\ u.order < rollback[p].remote}
               = rollback[p].remotes
      BY Zenon, <1>2, CorruptStays DEF MixedPanic, IInv, RollbackInv, PanicLeavesNoTrace, TruncatedRemotes
    <2>2. ~(r.order < rollback[p].remote) /\ rollback[p].remote \in Nat
      BY Zenon, <2>1, <1>t DEF WorkerType, Rollback
    <2> QED
      BY <2>1, <2>2, <1>t
  <1>3. ASSUME NEW u \in remote_events, MergeRemoteEvent(u)
        PROVE  /\ remote_events' = remote_events \ {r}
               /\ \E f \in pending'[r.target] :
                     f.tick = r.tick /\ f.token = next_runtime_token[r.target]
    <2>1. u.tick >= pnow[u.target]
      BY Zenon, <1>3, <1>v DEF MergeRemoteEvent, EpochInv, InParallel
    <2>2. /\ u = r /\ remote_events' = remote_events \ {r}
          /\ ScheduleEventAt(r.target, r.tick, "Parallel")
      BY Zenon, <1>3, <2>1 DEF MergeRemoteEvent
    <2> DEFINE n == [tick |-> r.tick, order |-> next_order[r.target], id |-> next_id[r.target],
                     token |-> next_runtime_token[r.target], kind |-> "Parallel"]
    <2>3. n \in pending'[r.target]
      BY Zenon, <2>2, <1>t DEF ScheduleEventAt, QueueType
    <2>4. n.tick = r.tick /\ n.token = next_runtime_token[r.target]
      BY Zenon
    <2> QED
      BY Zenon, <2>2, <2>3, <2>4
  <1>4. CASE ClientStep \/ StartStep
    BY Zenon, <1>4, <1>m DEF ClientStep, ScheduleAt, ScheduleAfter, CancelEvent, RescheduleEvent,
       QuiescentSnapshot, RestoreQuiescent, RestoreCheckpoint, DiscardExactEvents,
       PlanNextParallelEpoch, AtRest, StartStep, RunNextMixedEventSerial,
       RunNextMixedEventParallel, MixedEvent, RunUntilIdle, RunNextEpochUntil,
       RunUntilIdleConservative, RunNextEpochParallelUntil, RunUntilIdleParallel, Start
  <1>5. CASE CallbackStep
    BY ZenonT(30), <1>5, <1>1, <1>2, <1>m DEF CallbackStep, ContextSchedule, ContextRestore, ContextDiscard,
       WorkerScheduleLocal, WorkerScheduleRemote, workers
  <1>6. CASE RunStep
    <2>1. CASE BeginBatch \/ JoinBatch \/ EndMerge
               \/ (\E p \in Partitions : \E e \in pending[p] : WorkerPop(p, e))
               \/ (\E p \in Partitions : WorkerReturn(p))
      BY Zenon, <2>1 DEF BeginBatch, JoinBatch, EndMerge, WorkerPop, WorkerReturn
    <2> QED
      BY Zenon, <1>6, <2>1, <1>3, <1>m DEF RunStep, NoSerialEpoch, BeginSerialEpoch, EndSerial,
         DispatchNextInPartition, ParallelEventReachedSerialDispatcher, ContextReturn,
         NoParallelEpoch, RefuseParallelEpoch, BeginParallelEpoch, BatchOverflow, EndParallelEpoch
  <1>7. CASE Halted
    BY Zenon, <1>7, <1>m DEF Halted
  <1> QED
    BY Zenon, <1>4, <1>5, <1>6, <1>7 DEF Next

\* A message in an outbox is delivered to its target at its tick or taken back
\* with the callback that sent it; none is lost in a merge.
THEOREM RemotesDelivered == Spec => NoRemoteLost
  BY Invariance, Delivery, PTL DEF Spec, NoRemoteLost
===============================================================================
