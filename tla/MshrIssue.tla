------------------------------ MODULE MshrIssue -----------------------------
(***************************************************************************)
(* The miss queue driven through its public methods: requests of one agent *)
(* are allocated or merged, the first ready entry is issued, a refused     *)
(* issue is put back or delayed, and a fill completes an entry.            *)
(***************************************************************************)
EXTENDS MshrQueue, FiniteSets

CONSTANTS
    MshrRequests,   \* the requests: line, uncacheable, strict, before, after
    QosClasses,     \* the classes a request may carry; NoQos is none
    MaxOrder,       \* bound: requests accepted by one queue
    MaxMshrTick     \* bound: ready ticks

VARIABLES
    queue,  \* the MshrQueue
    now     \* the tick the caller asks ready_handles for

mshrVars == <<queue, now>>

MshrInit ==
    /\ queue = EmptyMshr
    /\ now = 0

Allocate(r, source, qos) ==
    /\ queue.nextOrder < MaxOrder
    /\ MshrAccepts(queue, r, source)
    /\ queue' = AllocateOrMerge(queue, r, now, source, qos)
    /\ now' = now

MarkInService ==
    /\ ReadyHandles(queue, now) # <<>>
    /\ LET handle == ReadyHandles(queue, now)[1]
       IN  queue' = OnEntry(queue, handle, [EntryOf(queue, handle) EXCEPT !.inService = TRUE])
    /\ now' = now

MarkPending(handle) ==
    /\ EntryOf(queue, handle).inService
    /\ queue' = OnEntry(queue, handle, [EntryOf(queue, handle) EXCEPT !.inService = FALSE])
    /\ now' = now

DelayUntil(handle, tick) ==
    /\ queue' = OnEntry(queue, handle, [EntryOf(queue, handle) EXCEPT !.readyTick = tick])
    /\ now' = now

MshrComplete(handle) ==
    /\ queue' = CompleteEntry(queue, handle)
    /\ now' = now

MshrTick ==
    /\ now < MaxMshrTick
    /\ now' = now + 1
    /\ queue' = queue

MshrNext ==
    \/ \E r \in MshrRequests, source \in {"Demand", "Prefetch"}, qos \in QosClasses :
            Allocate(r, source, qos)
    \/ MarkInService
    \/ \E handle \in MshrHandles(queue) :
            \/ MarkPending(handle)
            \/ \E tick \in 0..MaxMshrTick : DelayUntil(handle, tick)
            \/ MshrComplete(handle)
    \/ MshrTick

-----------------------------------------------------------------------------
\* ordering_eligible_entries (mshr.rs:1140): whatever is ready, one of the ready entries is not
\* ordered after another, so ready_handles always has a candidate to grant.
OldestReadyIsEligible ==
    \A pending \in SUBSET ReadyEntries(queue, now) :
        pending # {} => OrderingEligibleEntries(pending) # {}

\* Misses are issued in order.  ready_handles lists every ready entry once, and an entry never
\* ahead of one that holds an older request its own requests must follow, whatever their
\* classes (where no entry is eligible, OldestReadyIsEligible, the call panics and lists
\* nothing).  The plain misses of a line share one entry, so one line never has two fills in
\* flight that could land in either order; a strict or uncacheable request is alone.
MissesInOrder ==
    LET handles == ReadyHandles(queue, now)
    IN  /\ OldestReadyIsEligible =>
              /\ ToSet(handles) = {e.handle : e \in ReadyEntries(queue, now)}
              /\ Len(handles) = Cardinality(ReadyEntries(queue, now))
              /\ \A i, j \in DOMAIN handles : i < j =>
                    ~EntryOrdersBefore(EntryOf(queue, handles[j]), EntryOf(queue, handles[i]))
        /\ \A i, j \in DOMAIN queue.entries :
              LET e == queue.entries[i]
                  f == queue.entries[j]
              IN  /\ i # j /\ e.line = f.line =>
                        ~Mergeable(e.targets[1].request) \/ ~Mergeable(f.targets[1].request)
                  /\ Len(e.targets) > 1 => \A t \in ToSet(e.targets) : Mergeable(t.request)

=============================================================================
