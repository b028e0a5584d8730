---------------------------- MODULE TargetBatches ---------------------------
(***************************************************************************)
(* How the memory transport gathers what reaches one place at one tick:    *)
(* the responses that leave a partition at a tick (response_qos), and the  *)
(* direct transactions that arrive at a target at a tick (parallel_qos).   *)
(* The first of them schedules one event and files its batch under the     *)
(* key; the others join the batch.  The map of batches is shared state     *)
(* outside the scheduler: it survives the events it relies on.             *)
(***************************************************************************)
EXTENDS Naturals, FiniteSets

CONSTANTS
    MaxItems,      \* bound: responses and transactions
    MaxBatchTick   \* bound: ticks

ASSUME BatchAssumption == MaxItems \in Nat /\ MaxBatchTick \in Nat

VARIABLES
    batchTick,     \* the partition's tick
    filed,         \* [key, batch] pairs: response_batches and direct_target_batches
    entries,       \* batch -> the items that wait in it
    batchEvents,   \* [key, batch] of the events still in the scheduler
    ran,           \* ghost: items handed to the target or to the fabric
    lost,          \* ghost: items that were in a batch when its event was dropped
    accepted       \* items accepted, and batches made: their names are 1..accepted

batchVars == <<batchTick, filed, entries, batchEvents, ran, lost, accepted>>

Kinds == {"Response", "Direct"}

BatchInit ==
    /\ batchTick = 0
    /\ filed = {}
    /\ entries = [b \in 1..MaxItems |-> {}]
    /\ batchEvents = {}
    /\ ran = {}
    /\ lost = {}
    /\ accepted = 0

\* mutant: a batch is joined although its event is gone
MutantJoinable(key) == {f \in filed : f.key = key}

\* the filed batch of the key, if its event is pending: the strong count of the batch, and
\* pending_event_snapshot of its event
Joinable(key) == {f \in filed : f.key = key /\ f \in batchEvents}

Unfiled(key) == {f \in filed : f.key # key}

\* enqueue_parallel_response_qos_hop and schedule_or_append_direct_parallel_target_batch
Enqueue(kind, tick) ==
    LET key == [kind |-> kind, tick |-> tick]
        item == accepted + 1
        new == [key |-> key, batch |-> item]
    IN  /\ accepted < MaxItems
        /\ kind = "Response" => tick = batchTick
        /\ tick >= batchTick
        /\ accepted' = item
        /\ IF Joinable(key) # {}
             THEN /\ entries' = [b \in DOMAIN entries |->
                                    IF \E f \in Joinable(key) : f.batch = b
                                      THEN entries[b] \union {item} ELSE entries[b]]
                  /\ UNCHANGED <<filed, batchEvents>>
             ELSE /\ entries' = [entries EXCEPT ![item] = {item}]
                  /\ filed' = Unfiled(key) \union {new}
                  /\ batchEvents' = batchEvents \union {new}
        /\ UNCHANGED <<batchTick, ran, lost>>

\* the event: it unfiles its key and takes what waits
RunBatchEvent(event) ==
    /\ event.key.tick = batchTick
    /\ batchEvents' = batchEvents \ {event}
    /\ filed' = Unfiled(event.key)
    /\ ran' = ran \union entries[event.batch]
    /\ entries' = [entries EXCEPT ![event.batch] = {}]
    /\ UNCHANGED <<batchTick, lost, accepted>>

\* cancel_event of a direct batch; the events of a partition whose callback panicked
DropBatchEvent(event) ==
    /\ batchEvents' = batchEvents \ {event}
    /\ lost' = lost \union entries[event.batch]
    /\ UNCHANGED <<batchTick, filed, entries, ran, accepted>>

\* the scheduler leaves a tick when its events have run (external)
BatchTickAdvances ==
    /\ batchTick < MaxBatchTick
    /\ \A event \in batchEvents : event.key.tick > batchTick
    /\ batchTick' = batchTick + 1
    /\ UNCHANGED <<filed, entries, batchEvents, ran, lost, accepted>>

BatchNext ==
    \/ \E kind \in Kinds, tick \in 0..MaxBatchTick : Enqueue(kind, tick)
    \/ \E event \in batchEvents : RunBatchEvent(event) \/ DropBatchEvent(event)
    \/ BatchTickAdvances

BatchSpec == BatchInit /\ [][BatchNext]_batchVars

-----------------------------------------------------------------------------
\* Every response and transaction accepted has one event that will hand it on, or has been
\* handed on, or was in a batch whose event was dropped: none joins a batch nobody will run,
\* and none is handed on twice.  What meets at one place and tick is ordered together: two
\* events for one key are never pending at once.
NoItemOrphaned ==
    /\ \A item \in 1..accepted :
          Cardinality({event \in batchEvents : item \in entries[event.batch]})
              = IF item \in ran \union lost THEN 0 ELSE 1
    /\ \A event, other \in batchEvents : event.key = other.key => event = other

=============================================================================
