# Verification of rem6

rem6 is a deterministic, partitioned full-system simulator written in Rust.
Components live on *partitions*; a scheduler runs the partitions' events in
conservative parallel epochs; caches, directories, devices and CPUs exchange
messages through it.  This directory holds TLA+ modules that model its parts,
the TLC instances that check them, and proofs checked by TLAPS.  Paths below are
relative to the repository root, which is `src/` in `PROJECT.json`; `kernel`
stands for `crates/rem6-kernel/src`.

## 1. Inventory

The parts are those of the table "Workspace Responsibilities" in
`docs/architecture/rem6-architecture.md`.  `PROJECT.json` lists every one with
its sources and status.

| Part | State and operations | Modules | What makes it hard |
| --- | --- | --- | --- |
| Partitioned scheduler (`kernel/scheduler*`) | per partition a clock, counters, a heap of events; schedule, cancel, reschedule, snapshot, restore, run serially, in parallel epochs or one mixed event | `PartitionedScheduler` | worker threads, outboxes merged later, panics, restores from callbacks, ticks near `u64::MAX` |
| Coherent line (`rem6-protocol-*`, `rem6-cache`, `rem6-directory`, `rem6-coherence`, `rem6-memory`) | controller states, owner and sharers, backing store, LR/SC reservations | `MsiLine`, `MesiLine`, `MoesiLine`, `ChiLine`, `CoherentLine`, implementing `LineMemory` | where the newest data is; silent writes; reservations across snoops and restores |
| Cache bank (`rem6-cache/src/bank.rs`, `mshr.rs`, `write_queue.rs`) | lines, miss queue, write queue, replacement, pending fills | `CacheBank`, `MshrQueue`, `MshrIssue` | merged misses, full queues, answers out of order, snapshot with fills in flight |
| Fabric and transport (`rem6-fabric`, `rem6-transport`) | links, lanes with credits, router ports; batches with arbitration and rollback; batches of one tick; message buffers | `FabricModel`, `FabricHops`, `FabricTraffic`, `QosQueueArbiter`, `TargetBatches`, `MessageBuffer` | rollback of half a batch from a snapshot without links; ordering under priorities; state outside the scheduler across a restore |
| Interrupts (`rem6-interrupt`, `rem6-uart`, `rem6-timer`) | pending and claimed lines, PLIC contexts; receive FIFO; CLINT and SP805 counters with their deadline events | `InterruptController`, `UartInterrupts`, `ClintTimer`, `Sp805Watchdog` | signals in flight, claims racing new assertions, stale deadline events |
| Distributed Ethernet link (`rem6-net/src/distributed.rs`) | two processes, barriers, packets in flight, receive descriptors | `DistributedLink` | each side has its own tick; packets arrive any time in a quantum |
| GPU slots (`rem6-gpu`) | booked queues, pumps, running workgroups, snapshots | `GpuSlots` | pumps armed twice, restores onto a scheduler without their events |
| VirtIO split queue (`rem6-virtio`) | rings, 16-bit indices, ISR | `SplitQueue` | lost wake-ups, wrap-around |
| Wait-for graph (`kernel/wait_for.rs`) | edges; depth-first diagnostic | `WaitForGraph` | exact cycle reports with pruning |
| Clock domains (`kernel/clock.rs`) | tree of domains, performance levels, snapshots | `ClockDomains` | cached periods of descendants, overflow half-way |
| Checkpoints (`rem6-system/src/host*`, `scheduler_checkpoint*`, `rem6-checkpoint`) | registry, manifests, claims on events, execution mode | `SystemCheckpoint` | banks captured one by one beside a running scheduler; restore refused by the last bank |
| CPUs, ISAs, DRAM, PCI, storage, workloads, stats, power, boot, CLI | | none, see section 7 | data rather than interleaving |

What must hold is stated by the document's "Runtime Invariants": remote messages
respect the lookahead and are never in the past (3), equal-tick order is
deterministic (5), serial execution allows nothing that parallel execution
refuses (6), blocking leaves a wait-for edge (8), protocol transitions are typed
(9), checkpoints capture pending timing work (10), mode switches keep authority
(12).  The hazards in `PROJECT.json` name the lines where these can go wrong.

How the parts interact: everything timed is an event of the scheduler; components
on different partitions meet only through its remote messages, and otherwise
through locks.  The composing modules are `CoherentLine` (caches, directory and
backing store of one line under any protocol), `CacheBank` (line controllers, miss
queue, write queue, replacement and a memory that answers late), `UartInterrupts`
(UARTs, signals in flight, controller, PLIC, handlers), `ClintTimer` and
`Sp805Watchdog` (timer, scheduled deadlines, controller), `FabricTraffic`
(transport, arbiters, fabric) and `SystemCheckpoint` (executor, registry, banks,
scheduler thread).

## 2. Modules

Operators named `Mutant...` are deliberately wrong variants of the definition
that follows them, used to see that a property notices.

| Module | Contents |
| --- | --- |
| `PartitionedScheduler` | state, actions, properties of the scheduler |
| `PartitionedSchedulerProofs` | the inductive invariant `IInv`; the lemmas on typing, control, pending events, names, rollback and the bounds of clocks and messages; the theorems |
| `MCPartitionedScheduler` | the sets of public calls a TLC instance enables |
| `LineRequests`, `CacheLine` | memory operations, data of a line, reservations, what a controller does with data |
| `MsiLine`, `MesiLine`, `MoesiLine`, `ChiLine` | transition table, directory, harness and its snapshot, per protocol |
| `MesiLineProofs` | the MESI line's invariant and theorems, the refinement of `LineMemory` |
| `LineMemory` | the abstract specification: one line of the uncached store |
| `CoherentLine`, `MCCoherentLine` | a line under any protocol, its properties, the refinement; the harnesses TLC builds |
| `MsiChiAccesses`, `MoesiMesiAccesses` | the invariant of a line under any protocol; that the accesses of each protocol keep it (`MesiLineProofs` is instantiated for MESI) |
| `CoherentLineProofs` | snapshots, the invariant as a whole and the theorems of a line under any protocol |
| `DeviceProofs` | theorems of the watchdog, the CLINT and the UARTs with their interrupt controller |
| `SystemProofs` | theorems of the transport's batches, the message buffer and the checkpoints |
| `FabricModel`, `FabricHops` | the fabric as a value; the fabric under any traffic |
| `NetworkProofs` | theorems of `FabricHops` and `DistributedLink` |
| the other modules of the table above | one component each, with its actions and properties |
| `Platform`, `MCPlatform` | the components beside the scheduler and the line, followed one at a time; their instances |

`Platform` puts components that share no state side by side: the variable `focus`
says which one a behaviour follows, the others stay as they were built.  It is
a way to check them under one configuration, not a claim that they do not
interact; where they do, the composing modules above model it.

## 3. The scheduler

### State

`now`, `pnow`, `next_id`, `next_order`, `next_runtime_token`,
`next_remote_order` and `pending` are the fields of `PartitionedScheduler` and of
its `PartitionQueue`s.  The heap is a set of events; `Earlier` is its `Ord`, so
`IsHead` is what `pop_next` returns.  The locals of the call in progress are
variables too: `mode` (where the call is), `call` (which one), `horizon`,
`before`, `executed`; the worker threads' `worker`, `rollback`,
`partition_nows` (the clocks copied when the batch starts) and `remote_events`
(their outboxes); the `SchedulerContext` of a serial callback is `ctx`, and
`revised` says that this callback changed the timeline revision.  `saved` and `plan`
are what a client keeps between calls: a quiescent snapshot and an epoch plan,
which may be stale when it is used.

`failed` and `corrupt` are ghosts.  `failed` says that a batch failed since the
clocks were last restored; `corrupt` says that a batch was abandoned with its
queues (finding 2).  Where a property is qualified by one of them, that is the
exact case in which the code does not keep it.

### Actions

| Actions | Code |
| --- | --- |
| `ScheduleAt`, `ScheduleAfter`, `CancelEvent`, `RescheduleEvent` | the calls of the same name; `ScheduleAt` with kind `"Parallel"` is `schedule_parallel_at` |
| `QuiescentSnapshot`, `RestoreQuiescent`, `RestoreCheckpoint`, `DiscardExactEvents` | `scheduler.rs` and `scheduler/checkpoint.rs` |
| `PlanNextParallelEpoch` | `plan_next_parallel_epoch_until`; the plan records horizon, ready partitions, frontiers and blockers with their tokens |
| `RunUntilIdle`, `RunNextEpochUntil`, `RunUntilIdleConservative`, `RunNextEpochParallelUntil`, `RunUntilIdleParallel`, `RunNextMixedEvent...` | start of a run call |
| `BeginSerialEpoch`, `DispatchNextInPartition`, `EndSerial`, `NoSerialEpoch`, `ParallelEventReachedSerialDispatcher` | the serial loops; the last is the panic on a parallel event, which ends the process |
| `ContextSchedule`, `ContextRestore`, `ContextDiscard`, `ContextReturn` | what a serial callback may do, in any number and order |
| `BeginParallelEpoch`, `RefuseParallelEpoch`, `NoParallelEpoch`, `BeginBatch`, `BatchOverflow`, `JoinBatch`, `MergeRemoteEvent`, `EndMerge`, `EndParallelEpoch` | `run_parallel_epoch_plan_recorded`, `run_parallel_batch`, the merge and the until-idle loop |
| `WorkerPop`, `WorkerScheduleLocal`, `WorkerScheduleRemote`, `WorkerReturn`, `WorkerPanic` | one worker thread (`run_parallel_partition`) and what its callback may do; workers of a batch interleave freely |
| `MixedPanic` | the panic path of `dispatch_next_parallel_in_partition` |

A call that the code refuses changes nothing and is no step.  A callback is
arbitrary: between its start and its return or panic it may perform any sequence
of context operations, so a theorem holds for every callback.

### Abstractions

* Event payloads are left out, an event being its name, tick and kind.
* Progress transitions (`next_progress_order`) are numbered, rolled back and
  collected exactly as remote events are, and nothing reads them; summaries,
  profiles and records are returned data.
* A limit of `TickMax` stands for the calls without a limit.  With `now` at the
  very last tick those report an overflow where the limited calls return `Ok`;
  neither changes anything.
* A panic inside a serial callback unwinds through the caller and is not caught
  by the scheduler, so nothing of the scheduler follows it.
* `MaxEvents` bounds how many events a partition is ever given, by the client
  and by callbacks.  It is a guard of the scheduling actions, stands for
  callbacks that schedule finitely many events, and is any natural number in the
  proofs.

## 4. The other components

In every table below the action models the whole handler of the code it names;
`PROJECT.json` gives the lines.

**Coherent line.**  One line, its controllers, directory and backing store; the
harness serves one request at a time (`submit_cpu_request`), so a request with its
snoops and its fill is one step, and what interleaves are the requests of the
agents, snapshots and restores.  A word holds one of two values; the operations
are reads, load-locked, unique reads, writes, store-conditionals and atomics.
`CacheBlockZero` and other maintenance operations are left out (a cached
`CacheBlockZero` completes without zeroing anything, see the hazards).

**Cache bank.**  `AcceptCpuRequest`, `AcceptFill`, `AcceptUncacheableWriteResponse`,
`IssueWriteQueue`, `AcceptSnoop`, `Restore`, and the external memory, which takes
the bank's messages in order and whose answers may come back in any order.
A line holds one value, a write stores its own id.  The ids of the CPU and those
the bank makes are disjoint, as the code requires; no Retry replies; snoops come
only for lines the directory is not serving; clean and maintenance requests are left
out; requests are not strict (the run of the miss queue has those).

**Miss queue** (`MshrIssue`).  Allocation and merging with demand reserve, QoS
classes, issue, put-back and delay, completion.

**Distributed link.**  One direction: `Transmit` with the packet's length and a
variation of its delay, the network that delivers at any moment before the
barrier, `PopReady`, `ResumeAfterRestore`, the two ticks and the `Barrier`.
The barriers are external: the code leaves the quantum to whoever synchronises
the processes.  `LinkAssumption` says it is at most the shortest flight, the
condition under which the receiver's checks can be expected to pass.

**UARTs and interrupts.**  `InjectRx` and `ReadData` raise and drop the line
through ports whose signals arrive later and in order; `ReadClaim`, `Finishes` and
register writes are the PLIC's or the plain controller's.  The handler (claim,
read until empty, complete) is the guest's and external.

**CLINT, SP805.**  Each program of the timer leaves an event in the scheduler
which only its generation makes stale; register writes, resets, deliveries and
the tick interleave freely.

**Fabric and transport.**  A batch is ordered by its arbiter (FIFO, LIFO or least
recently granted) among the eligible requests and reserved hop by hop in one
transaction; it fails when a tick passes `MaxFabricTick` (the width of the tick) or
when scheduling fails, and is rolled back.  `TransmitHop` is a packet of a later
hop.  `FabricHops` allows every sequence of hops: what is proved there holds of
`FabricTraffic`.  Packet ids are distinct; the truncation in `fabric_packet_id`
is a hazard without a property.

**Target batches.**  `Enqueue` schedules the event of a (kind, tick) or joins its
batch; `DropBatchEvent` is the scheduler dropping an event: cancelled, or undone with
the callback that panicked.

**Message buffer, wait-for graph, clock domains, virtio queue.**  One action per
method.  The diagnostic of the wait-for graph is the depth-first search of the
code, against the definition of a cycle.  In `SplitQueue` indices wrap at
`IndexSpan` (2^16 in the code); the driver is the guest's and external.

**GPU slots.**  `AcceptLaunch`, the pump and completion events, `RunUntilIdle`,
`GpuSnapshot`, and `GpuRestore` onto a scheduler without the old events.  A snapshot
holds no running workgroups, as the tests of `rem6-gpu` expect
(`tests/compute.rs:490`, `:574`).

**Checkpoints.**  `RunnerTakes`, `RunnerFinishes` and `RunnerReturns` are the thread
that runs the scheduler: an event changes the core, then the memory.  A host action
begins by locking the attached schedulers, captures bank by bank
(`CaptureBank`), or lets every bank validate (`ValidateBank`) before
`CommitRestore` and `RestoreBank`.  Assumed: the scheduler's bank is attached
(without it nothing is locked and no cut is promised), and a bank that validated
does not fail to restore.  Four banks in the order of the code stand for all
its kinds; the UART's may be attached late.  Switch labels carry a tick in
the code, here there is one `SwitchLabel`.

## 5. Runs

| Run | Instance | Shows |
| --- | --- | --- |
| `parallel` | 2 partitions, 2 workers, lookahead 2, ticks to 6, 2 events each, delays 0 and 2; fair | outboxes against moving clocks, zero-delay local loops, panics with work to take back, overflow, clocks after a failed batch: `LegalRemoteNeverInPast`, `PendingNotBeforeClock`, `SkewBounded`, `PanicLeavesNoTrace`, `CallsReturn` |
| `mixed` | 1 worker for 2 partitions, serial and parallel events, kept plans, serial epochs | several batches in an epoch, single events under a plan that may be stale, a parallel event that reaches the serial dispatcher: the invariant of the proofs `IInv`, `NoRemoteLost`, `TokenNamesOneEvent` |
| `timeline` | serial epochs, snapshots, restores and discards also from a callback | names reused after a restore stay distinct: `EventsDistinct` |
| `protocols` | MSI with 2 agents, MESI, MOESI and CHI with 2 and 3; snapshots with 2 | `TypeOK`, `SingleWriter`, `DirectoryMatchesCaches`, `ReservationSurvivesReads`, and `ImplementsLineMemory`: the line implements the uncached store (not claimed for MOESI, see the findings) |
| `components` | the fourteen components of `Platform`, 1.8 million states | the properties of each, below |
| `until_idle`, `overflow`, `msi_third_reader`, `moesi_owned_upgrade`, `bank_atomic`, `miss_order`, `claimed_reassert` | expected violations | the findings |

| Component | Properties in `components` | Instance |
| --- | --- | --- |
| bank | `AnswersInProgramOrder`, `EveryRequestTracked`, `NewestValueKept` | 2 lines, 4 requests, 2 write entries; with and without miss queue and with one way |
| misses | `MissesInOrder` | 3 entries, 2 targets each, 2 lines, strict and uncacheable requests, 2 classes |
| link | `NoPacketRefused`, `PendingInTime` | lengths 1 and 3, quantum 4, two quanta |
| uart | `LineFollowsUart`, `OutputIsNextClaim` | 2 lines, 2 bytes, 3 priorities, PLIC and plain controller |
| clint | `LinesFollowClint` | 3 programs, ticks to 2, both timebases, both reset policies |
| fabric | `OneAtATime`, `CreditsRespected`, `RestoreFaithful`, `GrantsInOrder` | 2 links, a router with two inputs and one output, 1, 2 and unlimited credits, batches to 3 |
| batches | `NoItemOrphaned` | 4 items, 2 ticks |
| buffer | `MessagesInOrder` | 3 messages, 3 ticks |
| waits | `DiagnosticExact` | every graph on 4 nodes |
| watchdog | `RegistersTellTruth`, `NoEarlyReset` | loads 0 to 2, 4 restarts |
| gpu | `RunsOnceAsBooked`, `NoneStranded` | 2 slots, 4 workgroups, 2 runs |
| virtio | `NoLostWakeUp`, `ChainsKept` | 2 descriptors, indices modulo 8, event index and flag |
| checkpoint | `ManifestIsACut`, `RestoreAllOrNothing`, `NoWorkInCheckpoint` | 2 events, ticks 0 and 1, 2 host actions |
| clocks | `DerivedFollowSource` | 3 domains, 2 levels, dividers 1 and 3, periods to 9 |

**Bounds.**  Two partitions suffice for a sender and a receiver, and one worker for
two partitions is the least with a second batch that runs beside a partition that
has already moved.  Two events per partition let a callback reply to an event it
was sent, or a panic take back one event and keep another.  The ticks leave room
for several epochs and for the end of time.  Three agents are the least
with a reader that is neither the writer nor the reader it was downgraded by.  For
the components: four requests fill the miss queue's entries, evict a line and
come back to it; two quanta let a packet cross a barrier; three programs of a
timer make two stale events; indices modulo 8 wrap several times around a ring
of 2; two checkpoint events are one to claim and one to be work; three clock
domains are a source, a child and a grandchild.  The checkpoint instance was also
run alone with 3 events (3.2 million states) and with 3 host actions (2.6 million).
`MaxEvents`, `MaxRequests`, `MaxItems` and the other `Max...` constants are guards of
the actions that create something new.  The two lines of the bank are a
symmetric set: no definition orders them.  Partitions, agents, interrupt lines and
wait-for nodes are ordered by the code and are not.

**Fairness.**  `FairSpec` is weak fairness of `RunStep`, the steps of the call in
progress: the calling thread and the scoped worker threads keep running, and a
callback returns.  Nothing is assumed of the client, which may stop calling, nor
of callbacks beyond their return.  Deadlock is checked in the scheduler's runs,
where after the serial dispatcher's panic the process is gone (`Halted`), and in
those of the line; the components may stop at a bound.

### Findings

1. **`run_until_idle_parallel` can return `Ok` with events pending**
   (`kernel/scheduler/parallel_epoch.rs:137`).  The loop breaks when an epoch
   executed nothing and did not move `now`.  After a failed batch `now` is the
   furthest tick reached while another partition's clock lags, so the next
   horizon can equal `now` with nothing ready before it.  One more epoch would
   have gone on.
2. **An overflow in a later batch drops queues** (`kernel/scheduler.rs:678`).
   `run_parallel_batch` replaces a queue by an empty one before the checked
   addition whose `?` returns.  The plan has checked all frontiers, but before
   the epoch's first batch moved the clocks.
3. **A third MSI reader gets old data** (`rem6-coherence/src/lib.rs:186`).  The
   harness hands the modified owner's data to the peer that downgrades it and does
   not update the backing store; the directory then knows only sharers, and the
   next agent is served from the backing store.
4. **An Owned owner upgrades beside its sharers** (`rem6-directory/src/moesi.rs:500`).
   The directory answers the owner's upgrade with no snoops; the owner writes while
   the sharers keep and read their old copies.  For this reason, and because a
   silent write leaves the directory's Exclusive stale, `ImplementsLineMemory` is not
   claimed for MOESI.
5. **A missed cacheable atomic returns the new value**
   (`rem6-cache/src/bank.rs:1736`).  The answer is built from the line after the fill
   has applied the atomic.  The passing run leaves cacheable atomics out
   (`NoCacheableAtomic`) and has uncacheable ones.
6. **No ready miss may be eligible** (`rem6-cache/src/mshr.rs:1151`).  A plain miss, a
   strict request of the same line in its own entry, then a request that merges into
   the first entry: each entry now waits for the other, and the queue panics.
   `MissesInOrder` speaks of the states where an entry is eligible.
7. **A controller refuses its own snapshot** (`rem6-interrupt/src/lib.rs:611`).  A line
   asserted again while it is claimed is pending and claimed; `validate_snapshot`
   takes that for a corrupt snapshot.

## 6. Proofs

Every theorem holds for every value of the constants that satisfies the `ASSUME`s
of the component's module.

**Scheduler** (`PartitionedSchedulerProofs`): any number of
partitions and workers, any positive lookahead, any last tick, any set of delays
and client ticks, any set of enabled calls; the assumptions are those the
constructor enforces (`with_parallel_worker_limit` refuses zero partitions, delay
or workers).

| Theorem | Says |
| --- | --- |
| `TypeCorrect`, `Invariance` | `TypeOK`, `IInv` |
| `LookaheadSafe` | `LegalRemoteNeverInPast`: runtime invariant 3 |
| `NoEventOverrun` | `PendingNotBeforeClock` |
| `ClocksTogether` | `SkewBounded` |
| `NamesDistinct`, `RollbackExactly` | `EventsDistinct`, `PanicLeavesNoTrace` |
| `SerialKeptOut` | `NoSerialInParallelEpoch` |
| `ClocksForward`, `TokensFresh`, `RemotesDelivered` | the action properties `ClocksMoveForward`, `TokenNamesOneEvent`, `NoRemoteLost` |

**The argument.**  Let L be the lookahead.  The horizon of an epoch is at most
the least clock plus L.  A worker only pops events at or before the horizon, and
none before its own clock, so during the epoch every clock lies between the
least clock of its start and the horizon.  A message sent at tick t goes to
t + L or later, which is at or beyond the horizon, hence not in the past of any
clock, also of one that moved after it was copied into `partition_nows`.  So the
merge never refuses a message, and the epoch's end, which moves every clock up to
the horizon, passes no event.

**Why the invariant is larger.**  None of the checked invariants is inductive.
`IInv` adds `RestInv` (between calls clocks are at most L apart and apart only
after a failure), `EpochInv` (the bounds above, and
`horizon <= now + min_remote_delay`), `SerialInv` (a serial epoch dispatches the
globally first event, so clocks stay within L of what is pending),
`RollbackInv` (what a running callback added is named at or above the saved
counters; a mixed event runs alone), `ControlInv` (which modes, calls and horizons
go together).  They are claimed while no batch was abandoned (`~corrupt`);
`TypeOK` and `NoSerialInParallelEpoch` always hold.

**Link** (`NetworkProofs`): any link timing, packet lengths, delay variations
and quantum with `LinkAssumption`; `LinkRefusesNothing` (`NoPacketRefused`) and
`LinkDeliversInTime` (`PendingInTime`), up to a resume.  `LinkIInv` says that the
sender is busy until a packet has left it, so a later packet is sent no earlier
than an earlier one was done (`LinkOrder`); that what is on the wire was sent after
the last barrier, so it is due after the next one, whenever it arrives; and that
what was delivered last was done before anything still under way was sent
(`LinkDelivered`).  Receive ticks therefore increase along the wire and the
descriptors, and each of the receiver's three checks holds of the next packet.

**Fabric** (`NetworkProofs`): any links, virtual networks, routers, packets, hops,
credits and traffic; `ResourcesExclusive`, `CreditsKept`,
`RollbackExact` (`OneAtATime`, `CreditsRespected`,
`RestoreFaithful`).  The exclusions are not inductive: a link knows only the tick it is
free from, and a lane forgets the credits that have returned.  `HopsInv` ties the
resources to all hops reserved so far: a link is free no earlier than the end of
every hop on it and exactly when the last of its lanes is, which is why a snapshot
without links restores them; and every hop still in flight at a tick not yet
passed by the lane has its credit return in the lane, so the lane's count is
the number of packets in flight.

**MESI line** (`MesiLineProofs`): any agents, words and values.  `MesiCoherent` proves
`TypeOK`, `SingleWriter` and `DirectoryMatchesCaches` of the MESI line, that clean copies
equal the backing store and that no reservation outlives its copy;
`MesiImplementsLineMemory` proves that the harness implements `LineMemory`, snapshots
and restores included.  The refinement assumes that no CPU issues `CacheBlockZero`,
which a controller completes without touching the copy while the store clears the line.
`LineInv` adds to the checked invariants that an owner excludes sharers and that
`Shared` and `Exclusive` copies equal the backing store, and is claimed of the saved
snapshot as well, which a restore makes current.  Every access, hit or miss, is
split in two: it first brings coherent copies about in which the requester's state
allows the request (`Prepared`: same line of memory, no new reservation), then
completes in the requester's copy (`Completes`).  The cases of the protocol are one
lemma each for the first half; the second half is the same for all.

**Line under any protocol** (`MsiChiAccesses`, `MoesiMesiAccesses`, `CoherentLineProofs`):
any set of harnesses over the four protocols (`HarnessAssumption`), any agents, words
and values.

| Theorem | Says |
| --- | --- |
| `LineInvariant` | `Inv`, the invariant of the running line and of its snapshot |
| `LineTypeOK`, `LineSingleWriter`, `LineDirectoryExact` | `TypeOK`, `SingleWriter`, `DirectoryMatchesCaches` |
| `LineReservations` | the action property `ReservationSurvivesReads` |
| `LineImplementsMemory` | `ImplementsLineMemory`, when no CPU issues `CacheBlockZero` and an MSI harness has at most two agents |

The argument has the two halves of the MESI proof, with one invariant per protocol.
`MsiInv` cannot say that shared copies equal the backing store, which the MSI harness
does not update.  It says that with at most two agents (`Pair`) the sharers agree, and
equal the backing store while some agent is not a sharer and could still be served from
it; finding 3 is why that fails for three.  `MoesiInv` has to allow an owner that the
directory believes Exclusive to be Modified, and, once such an owner has been read, an
Owned copy that the directory counts among its sharers: there is at most one and no
recorded owner beside it.  It says nothing of data, so MOESI is proved coherent in its
states and directory and not in its values (finding 4).  `ChiInv` uses that the
directory grants only `UniqueDirty` and `SharedClean`, and that the data of a unique
copy is written back when it becomes shared.  For each protocol a lemma per kind of
access (hit, read miss, write miss) produces the copies the request completes on, and
proves them `Prepared` (well formed, every reservation kept or dropped, and kept by a
read) and, except for MOESI, `Fresh` (the requester's data is the line of memory, the
others agree, and a write finds none).  `Completes` does the rest for all four: it changes
no state, which preserves the protocol's invariant, and on fresh copies it is an
access of the uncached store.  `LineInvariant` was checked with TLC, also for three MSI
agents (153,788 states), before it was proved.

**Devices** (`DeviceProofs`): `WatchdogTellsTruth`, `WatchdogGivesTime`
(`RegistersTellTruth`, `NoEarlyReset`), `ClintLinesFollow` (`LinesFollowClint`),
`UartLinesFollow`, `UartOutputIsNextClaim` (`LineFollowsUart`, `OutputIsNextClaim`), for any
ticks, intervals, numbers of programs, lines, targets, routes, priorities and bytes.  Assumed
are finitely many interrupt lines, natural priorities, a timer and a software line that
differ, and reset values that are natural numbers or none.  The watchdog and the CLINT need the
same invariant (`WatchInv`, `ClintInv`): the counter's or the program's own event is in the
scheduler and every other event carries an earlier generation, so a stale event does
nothing and no deadline is missed.  For the signals under way an invariant on sequences
is needed.  A timer's line would be as the timer is once they all have been
delivered (`Settled`); for a UART, whose line a claim also clears, the
signals of a line alternate, the last one tells whether bytes are waiting, and with none
under way bytes mean a pending line or a handler still draining (`SignalInv`).

**Transport and checkpoints** (`SystemProofs`): `BatchesKeepItems` (`NoItemOrphaned`),
`BufferKeepsOrder` (`MessagesInOrder`), `CheckpointIsACut`, `CheckpointAllOrNothing`,
`CheckpointWithoutWork` (`ManifestIsACut`, `RestoreAllOrNothing`, `NoWorkInCheckpoint`), for
any numbers of items, messages, events, labels, calls and ticks.  `BatchInv`: a pending
event is alone for its key and its batch, and an item waits in exactly one batch, of a
pending event.  `BufferInv` is claimed of the buffer and of its snapshot, each with what
had been popped by then: whatever was popped arrives before whatever is queued.
`CheckpointInv` says who holds the scheduler and what is half-way then (`LockInv`), that
the core and the memory agree unless an event or a restore is between them (`CutInv`), and
how far a capture or a restore has come, bank by bank: nothing has changed before every
bank has agreed, and afterwards the restored banks hold what was captured (`CaptureInv`,
`RestoreInv`, `RestoredInv`).

The theorems on one component are about that component's own specification
(`WatchSpec`, `BufferSpec`, ...); `Platform` runs the same initial states and actions.

**Only model-checked.**
* `CallsReturn`: liveness under fairness is out of the prover's reach, as is `ENABLED`.
* The bank's `AnswersInProgramOrder`, `EveryRequestTracked` and `NewestValueKept`,
  the miss queue's `MissesInOrder` and the arbiter's `GrantsInOrder`: the order of the
  queues is computed by recursive operators, whose modules the prover cannot use.
* `DiagnosticExact` (a recursive search against the definition of a cycle),
  `DerivedFollowSource` (periods computed along the path to the root) and the GPU's
  `RunsOnceAsBooked` and `NoneStranded` (bookings folded over a sequence): each needs an
  induction over data.
* `NoLostWakeUp` and `ChainsKept`: the positions in the rings are remainders of remainders
  by constants, arithmetic the provers have not been taken through.
* `CopiesAgree` and `NoWriterBesideSharers` do not hold; the findings are TLC counterexamples.

## 7. Not modelled

`PROJECT.json` gives every part with its status.  What is left out, and why:

* **Data and formats**: ISA decoders and execution, image loaders, trace codecs,
  workload manifests, statistics, power models, PCI register files, storage images,
  the command line.  They convert data; no state is shared between actors.
* **CPU pipelines and predictors**: their state is instruction data, far past
  what TLC enumerates, and their contract with the rest (requests, checkpoints,
  events) is modelled from the other side.
* **DRAM timing, prefetchers, replacement policies, traffic generators**: heuristics and
  timing formulas that promise no order beyond the queues modelled here.
* **Variants of modelled code**: the MESI, MOESI and CHI banks repeat the MSI bank; the
  partitioned coherence harnesses schedule the steps of the serial ones; of the
  timers the CLINT and the SP805 stand for the ones that program deadlines.
* **Code nothing calls**: `kernel/restore_schedule.rs` and `record_useful_work` of
  `kernel/progress.rs` have no caller but their tests; progress monitors are rebuilt from
  recorded transitions when a run is reported.
* **Liveness of the devices**: what eventually happens depends on the client running
  the scheduler and on the guest's software; `CallsReturn` covers the part the
  code itself guarantees, and the invariants on events (`NoneStranded`,
  `RegistersTellTruth`, `LinesFollowClint`, `EveryRequestTracked`) say that whatever has to
  happen is still scheduled.
* **Two executions compared**: that equal-tick order does not depend on the worker
  limit needs a product of two schedulers.
* **Met while modelling, outside the properties**: a strict cacheable read that merges as
  coalescible gets an entry nothing completes (`bank.rs:1684`; the bank's requests are
  not strict).  `schedule_remote_after` of a worker returns an id the merge does not
  use (`scheduler.rs:1057`).  The resumed packets of a link may make it refuse what the peer
  sends next (`distributed.rs:606`; the link's properties end at a resume).  A CLINT reset
  that keeps `mtimecmp`, and a restored SP805, schedule no event (`clint.rs:740`,
  `sp805.rs:352`).  A virtio chain that does not decode stays at the head of its queue
  (`block_queue.rs:335`).  A refused DMA batch puts its requests back in reverse
  (`dma_ops.rs:497`).  `CacheBlockZero` through a cache stores nothing (`mesi.rs:630`).
