-------------------------- MODULE SystemCheckpoint --------------------------
(***************************************************************************)
(* Checkpoints of the whole system.  The executor of host actions captures *)
(* every attached bank into a staged copy of the registry, one after the   *)
(* other, and restores a manifest by staging it, letting every bank        *)
(* validate its part, and only then restoring bank by bank.  It holds the  *)
(* scheduler from the first bank to the last: another thread runs the      *)
(* scheduler and with it the components.  Events the executor or a core    *)
(* claims as its own do not keep a checkpoint from being taken.            *)
(***************************************************************************)
EXTENDS Naturals, Sequences

CONSTANTS
    CheckpointLabels,   \* labels of the checkpoints taken
    NoChunk,            \* a component without its chunk
    SwitchLabel,        \* the label of a state transfer between execution modes
    MaxTokens,          \* bound: events scheduled
    MaxEventTick,       \* bound: ticks
    MaxCalls            \* bound: host actions

ASSUME CheckpointAssumption ==
    MaxTokens \in Nat /\ MaxEventTick \in Nat /\ MaxCalls \in Nat

VARIABLES
    schedulerLock,  \* who holds the mutex of the scheduler
    runner,         \* the thread that runs the scheduler
    system,         \* state of core, memory, uart; of the scheduler now, nextId, pending
    claims,         \* owned events: control (kept by a restore), wakes (dropped by it)
    nextToken,      \* runtime tokens
    attached,       \* components with a checkpoint bank
    stored,         \* the executor's own state: registry, mode, manifests
    call            \* the host action being applied

checkpointVars ==
    <<schedulerLock, runner, system, claims, nextToken, attached, stored, call>>

\* the order in which the executor goes through the banks
BankOrder == <<"core", "scheduler", "memory", "uart">>

\* chunks by component; the execution mode has a component of its own
EmptyRegistry == [component \in {"core", "scheduler", "memory", "uart", "mode"} |-> NoChunk]
Manifests == CheckpointLabels \union {SwitchLabel}

NoCall == [kind |-> "Idle", count |-> 0]

CheckpointInit ==
    /\ schedulerLock = "Free"
    /\ runner = "Idle"
    /\ system = [core |-> 0, memory |-> 1, uart |-> 0,
                 scheduler |-> [now |-> 0, nextId |-> 0, pending |-> {}]]
    /\ claims = [control |-> {}, wakes |-> {}]
    /\ nextToken = 0
    /\ attached = {"core", "scheduler", "memory"}
    /\ stored = [registry |-> EmptyRegistry, mode |-> "Detailed",
                 manifests |-> [label \in Manifests |-> EmptyRegistry]]
    /\ call = NoCall

Sched == system.scheduler

-----------------------------------------------------------------------------
(* The clients and the thread that runs the scheduler.                     *)

\* an event, with the claim made for it; host actions claim their own delivery
ScheduleEvent(owner, tick) ==
    LET event == [id |-> Sched.nextId, tick |-> tick, token |-> nextToken, owner |-> owner]
    IN  /\ schedulerLock = "Free"
        /\ nextToken < MaxTokens /\ tick >= Sched.now
        /\ system' = [system EXCEPT !.scheduler.nextId = @ + 1,
                                    !.scheduler.pending = @ \union {event}]
        /\ claims' = CASE owner = "Control" -> [claims EXCEPT !.control = @ \union {event}]
                       [] owner = "Wake" -> [claims EXCEPT !.wakes = @ \union {event}]
                       [] owner = "Work" -> claims
        /\ nextToken' = nextToken + 1
        /\ UNCHANGED <<schedulerLock, runner, attached, stored, call>>

\* restore_quiescent of a snapshot from the beginning: ids and ticks are given again (external)
ClientRestores ==
    /\ schedulerLock = "Free" /\ Sched.pending = {}
    /\ system' = [system EXCEPT !.scheduler = [now |-> 0, nextId |-> 0, pending |-> {}]]
    /\ UNCHANGED <<schedulerLock, runner, claims, nextToken, attached, stored, call>>

\* the scheduler is taken and its next event dispatched; a unit of work goes through the core
RunnerTakes(event) ==
    /\ schedulerLock = "Free"
    /\ \A other \in Sched.pending \ {event} :
           \/ event.tick < other.tick
           \/ event.tick = other.tick /\ event.id < other.id
    /\ schedulerLock' = "Runner"
    /\ claims' = [claims EXCEPT !.wakes = @ \ {event}]
    /\ LET dispatched == [system EXCEPT !.scheduler.now = event.tick,
                                        !.scheduler.pending = @ \ {event}]
       IN  IF event.owner = "Work"
             THEN system' = [dispatched EXCEPT !.core = 1 - @] /\ runner' = "Half"
             ELSE system' = dispatched /\ runner' = "Callback"
    /\ UNCHANGED <<nextToken, attached, stored, call>>

\* and then through the memory
RunnerFinishes ==
    /\ runner = "Half"
    /\ system' = [system EXCEPT !.memory = 1 - @]
    /\ runner' = "Callback"
    /\ UNCHANGED <<schedulerLock, claims, nextToken, attached, stored, call>>

RunnerReturns ==
    /\ schedulerLock = "Runner" /\ runner = "Callback"
    /\ schedulerLock' = "Free" /\ runner' = "Idle"
    /\ UNCHANGED <<system, claims, nextToken, attached, stored, call>>

\* attach_uart_checkpoint_bank, possibly after checkpoints without it were taken
AttachUart ==
    /\ call.kind = "Idle" /\ "uart" \notin attached
    /\ attached' = attached \union {"uart"}
    /\ UNCHANGED <<schedulerLock, runner, system, claims, nextToken, stored, call>>

-----------------------------------------------------------------------------
(* Host actions.                                                           *)

\* mutant: the scheduler is used without its mutex
MutantTryLock == call.kind = "Idle"

\* try_lock_except of the attached bank, or the scheduler borrowed from the callback that acts
TryLock ==
    /\ call.kind = "Idle"
    /\ schedulerLock = "Free" \/ (schedulerLock = "Runner" /\ runner = "Callback")

\* mutant: a claim is for whatever event has the number and the tick of its own
MutantClaimed(events) ==
    {event \in Sched.pending :
        \E claim \in events : claim.id = event.id /\ claim.tick = event.tick}

\* snapshot_owned_event: the claims whose event is still pending
Claimed(events) == events \intersect Sched.pending

OwnedEvents == Claimed(claims.control) \union Claimed(claims.wakes)

\* the beginning of every action: the mutex, and the claims of events that are gone dropped
Begin(kind, label, mode, staged) ==
    /\ TryLock /\ call.count < MaxCalls
    /\ schedulerLock' = "Executor"
    /\ claims' = [claims EXCEPT !.control = Claimed(@)]
    /\ call' = [kind |-> kind, bank |-> 1, label |-> label, mode |-> mode, staged |-> staged,
                owned |-> {}, back |-> schedulerLock, count |-> call.count + 1,
                entry |-> [system |-> system, stored |-> stored]]
    /\ UNCHANGED <<runner, system, nextToken, attached>>

\* validate_quiescent_capture_with_owned_events comes before the first bank
CaptureOrRefuse == IF Sched.pending \subseteq OwnedEvents THEN "Capture" ELSE "Refused"

\* Checkpoint
BeginCheckpoint(label) ==
    Begin(CaptureOrRefuse, label, stored.mode, stored.registry) /\ UNCHANGED stored

\* SwitchExecutionMode captures the state it transfers
BeginSwitch(mode) ==
    Begin(CaptureOrRefuse, SwitchLabel, mode, stored.registry) /\ UNCHANGED stored

\* mutant: the registry and the modes take the manifest before the banks have agreed
MutantBeginRestore(label) ==
    LET manifest == stored.manifests[label]
    IN  /\ manifest # EmptyRegistry
        /\ Begin("Validate", label, manifest["mode"], manifest)
        /\ stored' = [stored EXCEPT !.registry = manifest, !.mode = manifest["mode"]]

\* RestoreCheckpointByLabel; what is staged replaces every chunk of the registry
BeginRestore(label) ==
    LET manifest == stored.manifests[label]
    IN  /\ manifest # EmptyRegistry
        /\ Begin("Validate", label, manifest["mode"], manifest)
        /\ UNCHANGED stored

\* SwitchExecutionMode from Detailed to Timing with data under way hands the core over alive:
\* nothing is kept, and unclaimed work may be pending
LiveDataHandoff ==
    /\ TryLock
    /\ stored.mode = "Detailed"
    /\ stored' = [stored EXCEPT !.mode = "Timing"]
    /\ claims' = [claims EXCEPT !.control = Claimed(@)]
    /\ UNCHANGED <<schedulerLock, runner, system, nextToken, attached, call>>

Chunk(component) ==
    IF component = "scheduler" THEN [now |-> Sched.now, nextId |-> Sched.nextId]
                               ELSE system[component]

Bank == BankOrder[call.bank]
AtBank(kind) == call.kind = kind /\ call.bank <= Len(BankOrder)
NextBank == [call EXCEPT !.bank = @ + 1]

\* capture_attached_checkpoint_banks_into_with_scheduler, one bank
CaptureBank ==
    /\ AtBank("Capture")
    /\ call' = IF Bank \in attached THEN [NextBank EXCEPT !.staged[Bank] = Chunk(Bank)]
                                    ELSE NextBank
    /\ UNCHANGED <<schedulerLock, runner, system, claims, nextToken, attached, stored>>

\* what a completed capture leaves; a checkpoint names the mode it was taken in, a switch the
\* mode before it
FinishCapture ==
    /\ call.kind = "Capture" /\ call.bank > Len(BankOrder)
    /\ LET manifest == [call.staged EXCEPT !["mode"] = stored.mode]
       IN  stored' = [registry |-> manifest, mode |-> call.mode,
                      manifests |-> [stored.manifests EXCEPT ![call.label] = manifest]]
    /\ call' = [call EXCEPT !.kind = "Captured"]
    /\ UNCHANGED <<schedulerLock, runner, system, claims, nextToken, attached>>

\* a bank that is not quiescent refuses to be captured, one that cannot decode its chunk to be
\* restored
BankRefuses ==
    /\ AtBank("Capture") \/ AtBank("Validate")
    /\ Bank \in attached
    /\ call' = [call EXCEPT !.kind = "Refused"]
    /\ UNCHANGED <<schedulerLock, runner, system, claims, nextToken, attached, stored>>

\* validate_checkpoint_projection: only claimed events, and none kept before the clock
SchedulerValid ==
    /\ Sched.pending = OwnedEvents
    /\ \A event \in Claimed(claims.control) : event.tick >= call.staged["scheduler"].now

\* validate_checkpoint_banks, one bank
ValidateBank ==
    /\ AtBank("Validate")
    /\ Bank \in attached =>
           call.staged[Bank] # NoChunk /\ (Bank = "scheduler" => SchedulerValid)
    /\ call' = NextBank
    /\ UNCHANGED <<schedulerLock, runner, system, claims, nextToken, attached, stored>>

\* restore_checkpoint_manifest_with_scheduler between the validation and the restores
CommitRestore ==
    /\ call.kind = "Validate" /\ call.bank > Len(BankOrder)
    /\ stored' = [stored EXCEPT !.registry = call.staged, !.mode = call.mode]
    /\ call' = [call EXCEPT !.kind = "Restore", !.bank = 1, !.owned = OwnedEvents]
    /\ UNCHANGED <<schedulerLock, runner, system, claims, nextToken, attached>>

Preserved == call.owned \intersect claims.control

\* restore_checkpoint_projection: the quiescent scheduler, and the kept events with it
RestoredScheduler(chunk) ==
    LET ids == {event.id + 1 : event \in Preserved} \union {chunk.nextId}
    IN  [now |-> chunk.now,
         nextId |-> CHOOSE id \in ids : \A other \in ids : id >= other,
         pending |-> Preserved]

\* restore_checkpoint_banks, one bank; with the scheduler the cores forget their wakes
RestoreBank ==
    /\ AtBank("Restore")
    /\ call' = IF call.bank = Len(BankOrder) THEN [call EXCEPT !.kind = "Restored"] ELSE NextBank
    /\ IF Bank \in attached
         THEN system' = [system EXCEPT ![Bank] =
                             IF Bank = "scheduler" THEN RestoredScheduler(call.staged[Bank])
                                                   ELSE call.staged[Bank]]
         ELSE UNCHANGED system
    /\ claims' = IF Bank = "scheduler" THEN [claims EXCEPT !.wakes = {}] ELSE claims
    /\ UNCHANGED <<schedulerLock, runner, nextToken, attached, stored>>

\* apply returns and the guard of the scheduler is dropped
Return ==
    /\ call.kind \in {"Captured", "Refused", "Restored"}
    /\ schedulerLock' = call.back
    /\ call' = [NoCall EXCEPT !.count = call.count]
    /\ UNCHANGED <<runner, system, claims, nextToken, attached, stored>>

CheckpointNext ==
    \/ \E owner \in {"Control", "Wake", "Work"}, tick \in 0..MaxEventTick :
           ScheduleEvent(owner, tick)
    \/ ClientRestores
    \/ \E event \in Sched.pending : RunnerTakes(event)
    \/ RunnerFinishes
    \/ RunnerReturns
    \/ AttachUart
    \/ \E label \in CheckpointLabels : BeginCheckpoint(label)
    \/ \E mode \in {"Timing", "Detailed"} : BeginSwitch(mode)
    \/ \E label \in Manifests : BeginRestore(label)
    \/ LiveDataHandoff
    \/ CaptureBank \/ FinishCapture \/ BankRefuses
    \/ ValidateBank \/ CommitRestore \/ RestoreBank
    \/ Return

CheckpointSpec == CheckpointInit /\ [][CheckpointNext]_checkpointVars

-----------------------------------------------------------------------------
(* Properties.                                                             *)

\* A checkpoint is a cut: the core and the memory in it are from one moment, never from before
\* and after an event that passes through both, although the banks are captured one by one
\* while another thread may run the scheduler (apply holds the attached bank throughout).
ManifestIsACut ==
    \A label \in Manifests :
        LET manifest == stored.manifests[label]
        IN  manifest # EmptyRegistry => manifest["core"] + manifest["memory"] = 1

\* A host action does all of its work or none.  A refused one leaves no trace, however many
\* banks had agreed before the one that refuses: clock and events of the scheduler, registry,
\* execution mode and manifests are what they were (staged_checkpoints and
\* validate_checkpoint_banks before the first assignment).  A restore restores everything:
\* every attached component, the clock, the registry and the mode are the manifest's; the
\* deliveries of host actions that were pending are still pending and nothing else is
\* (restore_checkpoint_banks, restore_checkpoint_projection).
RestoreAllOrNothing ==
    /\ call.kind = "Refused" =>
          Sched = call.entry.system.scheduler /\ stored = call.entry.stored
    /\ call.kind = "Restored" =>
          LET manifest == stored.manifests[call.label]
          IN  /\ stored.registry = manifest /\ stored.mode = manifest["mode"]
              /\ \A component \in attached \ {"scheduler"} :
                    system[component] = manifest[component]
              /\ Sched.now = manifest["scheduler"].now
              /\ Sched.pending = {event \in call.entry.system.scheduler.pending :
                                      event.owner = "Control"}
              /\ \A event \in Sched.pending : event.tick >= Sched.now /\ event.id < Sched.nextId

\* A claim stands for its own event alone: no checkpoint is taken and none restored while work
\* of the components is pending, even when a restore gave an id and a tick of a claimed event
\* to other work (resolve_owned_events compares the runtime token too).
NoWorkInCheckpoint ==
    call.kind \in {"Captured", "Restored"} =>
        \A event \in call.entry.system.scheduler.pending : event.owner # "Work"
=============================================================================
