------------------------------ MODULE CacheBank -----------------------------
(***************************************************************************)
(* The cache bank of one agent: a controller per line, the miss queue      *)
(* (MSHR), the write queue and the replacement directory, in front of a    *)
(* memory that serves the requests of the bank in order and may answer     *)
(* them late and out of order.  A line holds one value, and a write        *)
(* stores its own request id.                                              *)
(*                                                                         *)
(* The ids of the CPU's requests and of the bank's own downstream requests *)
(* are sequence numbers of the same agent; the CPU's start at              *)
(* FirstSequence and the bank's at 0.                                      *)
(***************************************************************************)
EXTENDS MshrQueue, FiniteSets, TLC

CONSTANTS
    BankLines,      \* line addresses
    MaxRequests,    \* bound: requests the CPU issues
    FirstSequence,  \* the CPU's first sequence number
    WriteEntries,   \* CacheWriteQueueConfig::entries
    BankOperations, \* the accesses the CPU makes: [op, uncacheable]
    BankModes,      \* configurations: [mshr : BOOLEAN, ways : Nat]; 0 ways is no directory
    None

ASSUME BankAssumption ==
    /\ MaxRequests \in Nat
    /\ FirstSequence \in Nat \ 0..2 * MaxRequests   \* disjoint from the bank's own ids
    /\ WriteEntries \in Nat
    /\ BankOperations \subseteq
          [op : {"ReadShared", "Write", "Atomic"}, uncacheable : BOOLEAN]
    /\ BankModes \subseteq [mshr : BOOLEAN, ways : Nat]

VARIABLES
    mode,          \* how the bank was built
    lines,         \* line -> controller: state, data, pending miss; None without one
    resident,      \* replacement directory: lines, least recently used first
    mshr,          \* the MshrQueue
    fills,         \* pending_fills: downstream id -> what its response completes
    writeQueue,    \* CacheWriteQueue: [handle, kind, line, data, request]
    writeHandle,   \* CacheWriteQueue::next_handle
    inflight,      \* inflight_uncacheable_writes
    nextSequence,  \* next sequence number of the bank
    channel,       \* requests on their way to memory, in order
    replies,       \* responses on their way back
    memory,        \* line -> value
    requests,      \* the requests the CPU made and the bank accepted, in order
    answers        \* request id -> value returned; a write returns its id

bankVars == <<mode, lines, resident, mshr, fills, writeQueue, writeHandle, inflight,
              nextSequence, channel, replies, memory, requests, answers>>

queueVars == <<writeQueue, writeHandle, inflight>>
memoryVars == <<channel, replies, memory>>

-----------------------------------------------------------------------------
NoLine == [state |-> None, data |-> None, pending |-> None]

Transient == {"InvalidToShared", "InvalidToModified", "SharedToModified"}

RequestIds == FirstSequence..FirstSequence + MaxRequests - 1

NextRequest(op, uncacheable, line) ==
    [id |-> FirstSequence + Len(requests), op |-> op, line |-> line,
     uncacheable |-> uncacheable, strict |-> FALSE]

Stores(r) == r.op \in {"Write", "Atomic"}

Answer(id, value) == answers' = answers @@ id :> value

Accepted(r) ==
    /\ Len(requests) < MaxRequests
    /\ requests' = Append(requests, r)

RequestOf(id) == CHOOSE r \in ToSet(requests) : r.id = id

LineFill(line, handle) ==
    [kind |-> "Line", line |-> line, handle |-> handle, original |-> None, blockedBy |-> None]

UncacheableFill(r, handle) ==
    [kind |-> "Uncacheable", line |-> r.line, handle |-> None, original |-> r,
     blockedBy |-> handle]

Without(f, id) == [i \in DOMAIN f \ {id} |-> f[i]]

BankInit ==
    /\ mode \in BankModes
    /\ lines = [l \in BankLines |-> NoLine]
    /\ resident = <<>>
    /\ mshr = EmptyMshr
    /\ fills = <<>>
    /\ writeQueue = <<>>
    /\ writeHandle = 0
    /\ inflight = {}
    /\ nextSequence = 0
    /\ channel = <<>>
    /\ replies = {}
    /\ memory = [l \in BankLines |-> 0]
    /\ requests = <<>>
    /\ answers = <<>>

-----------------------------------------------------------------------------
(***************************************************************************)
(* The write queue.  Every entry of the bank is enqueued ready at tick 0,  *)
(* so it issues in the order of the entries.                               *)
(***************************************************************************)
WriteQueueConflict(line) == \E i \in DOMAIN writeQueue : writeQueue[i].line = line

\* satisfy_read: the youngest queued data of the line
SatisfyRead(line) == Last(SelectSeq(writeQueue, LAMBDA e : e.line = line)).data

WriteEntry(handle, kind, line, data, r) ==
    [handle |-> handle, kind |-> kind, line |-> line, data |-> data, request |-> r]

\* pending_atomic_conflict
PendingAtomicConflict(line) ==
    \E id \in DOMAIN fills :
        fills[id].kind = "Uncacheable" /\ fills[id].line = line /\ fills[id].original.op = "Atomic"

\* mutant: the queued data is passed by
MutantAcceptWriteQueueConflict(r) ==
    /\ WriteQueueConflict(r.line)
    /\ r.op = "ReadShared"
    /\ Answer(r.id, memory[r.line])
    /\ UNCHANGED <<mode, lines, resident, mshr, fills, queueVars, nextSequence, memoryVars>>

\* accept_write_queue_conflict; other operations than reads are refused
AcceptWriteQueueConflict(r) ==
    /\ WriteQueueConflict(r.line)
    /\ r.op = "ReadShared"
    /\ Answer(r.id, SatisfyRead(r.line))
    /\ UNCHANGED <<mode, lines, resident, mshr, fills, queueVars, nextSequence, memoryVars>>

\* can_bypass_uncacheable_resident_line, and remove_resident_line
CanBypass(line) == lines[line].state \in {None, "Invalid", "Shared"}

RemoveResidentLine(line) ==
    /\ lines' = [lines EXCEPT ![line] = NoLine]
    /\ resident' = SelectSeq(resident, LAMBDA l : l # line)

\* accept_uncacheable_request: a read or an atomic
AcceptUncacheableRequest(r) ==
    LET dirty == lines[r.line].state = "Modified"
    IN  /\ ~WriteQueueConflict(r.line)
        /\ r.op # "Write"
        /\ IF dirty THEN Len(writeQueue) + 1 <= WriteEntries ELSE CanBypass(r.line)
        /\ RemoveResidentLine(r.line)
        /\ fills' = r.id :> UncacheableFill(r, IF dirty THEN writeHandle ELSE None) @@ fills
        /\ writeQueue' = IF dirty
                           THEN Append(writeQueue, WriteEntry(writeHandle, "WritebackDirty",
                                                      r.line, lines[r.line].data, None))
                           ELSE writeQueue
        /\ writeHandle' = IF dirty THEN writeHandle + 1 ELSE writeHandle
        /\ nextSequence' = IF dirty THEN nextSequence + 1 ELSE nextSequence
        /\ channel' = IF dirty THEN channel
                        ELSE Append(channel, [id |-> r.id, op |-> r.op, line |-> r.line,
                                              data |-> r.id])
        /\ UNCHANGED <<mode, mshr, inflight, replies, memory, answers>>

\* accept_uncacheable_write_request
AcceptUncacheableWriteRequest(r) ==
    LET dirty == lines[r.line].state = "Modified"
        writeback == WriteEntry(writeHandle, "WritebackDirty", r.line, lines[r.line].data, None)
        write(handle) == WriteEntry(handle, "UncacheableWrite", r.line, r.id, r)
    IN  /\ ~WriteQueueConflict(r.line)
        /\ r.op = "Write"
        /\ dirty \/ CanBypass(r.line)
        /\ Len(writeQueue) + (IF dirty THEN 2 ELSE 1) <= WriteEntries
        /\ RemoveResidentLine(r.line)
        /\ writeQueue' = writeQueue \o (IF dirty
                                          THEN <<writeback, write(writeHandle + 1)>>
                                          ELSE <<write(writeHandle)>>)
        /\ writeHandle' = IF dirty THEN writeHandle + 2 ELSE writeHandle + 1
        /\ nextSequence' = IF dirty THEN nextSequence + 1 ELSE nextSequence
        /\ UNCHANGED <<mode, mshr, fills, inflight, memoryVars, answers>>

(***************************************************************************)
(* Cacheable requests.                                                     *)
(***************************************************************************)
\* can_merge_pending_read_miss, and the merge
MergePendingReadMiss(r) ==
    /\ mode.mshr
    /\ r.op = "ReadShared"
    /\ LineEntries(mshr, r.line) # {}
    /\ MshrAccepts(mshr, r, "Demand")
    /\ mshr' = AllocateOrMerge(mshr, r, 0, "Demand", NoQos)
    /\ UNCHANGED <<mode, lines, resident, fills, queueVars, nextSequence, memoryVars, answers>>

MergesReads(r) == mode.mshr /\ r.op = "ReadShared" /\ LineEntries(mshr, r.line) # {}

\* complete_cpu_request: what the request leaves in the line, and what it returns for the
\* line's data before it
StoredData(r, data) == IF Stores(r) THEN r.id ELSE data

Outcome(r, data) == IF r.op = "Write" THEN r.id ELSE data

Touch(line) ==
    IF line \in ToSet(resident)
      THEN Append(SelectSeq(resident, LAMBDA l : l # line), line)
      ELSE resident

ControllerHit(r) ==
    /\ ~MergesReads(r)
    /\ \/ lines[r.line].state = "Modified"
       \/ lines[r.line].state = "Shared" /\ r.op = "ReadShared"
    /\ lines' = [lines EXCEPT ![r.line].data = StoredData(r, @)]
    /\ resident' = IF mode.ways > 0 THEN Touch(r.line) ELSE resident
    /\ Answer(r.id, Outcome(r, lines[r.line].data))
    /\ UNCHANGED <<mode, mshr, fills, queueVars, nextSequence, memoryVars>>

MissState(state, op) ==
    CASE op = "ReadShared" -> "InvalidToShared"
      [] op # "ReadShared" /\ state = "Shared" -> "SharedToModified"
      [] op # "ReadShared" /\ state # "Shared" -> "InvalidToModified"

DownstreamOperation(state) ==
    CASE state = "InvalidToShared" -> "ReadShared"
      [] state = "InvalidToModified" -> "ReadUnique"
      [] state = "SharedToModified" -> "Upgrade"

\* the miss, with its MSHR entry and the record of the fill it waits for
ControllerMiss(r) ==
    LET before == lines[r.line].state
        after == MissState(before, r.op)
        downstream == [id |-> nextSequence, op |-> DownstreamOperation(after), line |-> r.line,
                       data |-> None]
    IN  /\ ~MergesReads(r)
        /\ before \in {None, "Invalid"} \/ (before = "Shared" /\ Stores(r))
        /\ mode.mshr => MshrAccepts(mshr, r, "Demand")
        /\ lines' = [lines EXCEPT
                        ![r.line].state = after,
                        ![r.line].pending = [request |-> r, downstream |-> nextSequence]]
        /\ mshr' = IF mode.mshr THEN AllocateOrMerge(mshr, r, 0, "Demand", NoQos) ELSE mshr
        /\ fills' = nextSequence :>
                        LineFill(r.line, IF mode.mshr THEN UpdatedHandle(mshr, r) ELSE None)
                    @@ fills
        /\ nextSequence' = nextSequence + 1
        /\ channel' = Append(channel, downstream)
        /\ UNCHANGED <<mode, resident, queueVars, replies, memory, answers>>

\* accept_cpu_request_inner
AcceptCpuRequest(r) ==
    /\ Accepted(r)
    /\ ~PendingAtomicConflict(r.line)
    /\ \/ r.uncacheable /\ AcceptUncacheableRequest(r)
       \/ r.uncacheable /\ AcceptUncacheableWriteRequest(r)
       \/ ~r.uncacheable /\ AcceptWriteQueueConflict(r)
       \/ /\ ~r.uncacheable
          /\ ~WriteQueueConflict(r.line)
          /\ MergePendingReadMiss(r) \/ ControllerHit(r) \/ ControllerMiss(r)

(***************************************************************************)
(* Fills.  install_replacement_line evicts the least recently used line    *)
(* when the set is full; a victim that is dirty or busy refuses the fill   *)
(* and the bank is put back as it was.                                     *)
(***************************************************************************)
Victims(line) ==
    IF mode.ways = 0 \/ line \in ToSet(resident) \/ Len(resident) < mode.ways
      THEN {}
      ELSE {Head(resident)}

Install(line) ==
    IF mode.ways = 0
      THEN resident
      ELSE Append(SelectSeq(resident, LAMBDA l : l \notin {line} \union Victims(line)), line)

\* mutant: a dirty victim is dropped like a clean one
MutantVictimReplaceable(line) == lines[line].state \notin Transient

VictimReplaceable(line) == lines[line].state \in {None, "Invalid", "Shared"}

FilledState(state) == IF state = "InvalidToShared" THEN "Shared" ELSE "Modified"

\* mutant: only the request that missed is answered
MutantMshrTargets(fill) == {EntryOf(mshr, fill.handle).targets[1].request}

\* target_outcomes_for_completion: every target is answered from the line's data after the fill
MshrTargets(fill) == {t.request : t \in ToSet(EntryOf(mshr, fill.handle).targets)}

AcceptLineFill(reply) ==
    LET fill == fills[reply.id]
        line == fill.line
        pending == lines[line].pending
        base == IF reply.data = None THEN lines[line].data ELSE reply.data
        data == StoredData(pending.request, base)
    IN  /\ fill.kind = "Line"
        /\ \A v \in Victims(line) : VictimReplaceable(v)
        /\ lines' = [l \in BankLines |->
                        CASE l = line -> [state |-> FilledState(lines[line].state),
                                          data |-> data, pending |-> None]
                          [] l # line /\ l \in Victims(line) -> NoLine
                          [] l # line /\ l \notin Victims(line) -> lines[l]]
        /\ resident' = Install(line)
        /\ fills' = Without(fills, reply.id)
        /\ mshr' = IF fill.handle = None THEN mshr ELSE CompleteEntry(mshr, fill.handle)
        /\ answers' = IF fill.handle = None
                         THEN pending.request.id :> Outcome(pending.request, base) @@ answers
                         ELSE [id \in {r.id : r \in MshrTargets(fill)} |->
                                   Outcome(RequestOf(id), data)]
                              @@ answers
        /\ UNCHANGED <<mode, queueVars, nextSequence, channel, memory, requests>>

AcceptUncacheableFill(reply) ==
    LET fill == fills[reply.id]
    IN  /\ fill.kind = "Uncacheable"
        /\ fills' = Without(fills, reply.id)
        /\ Answer(fill.original.id, reply.data)
        /\ UNCHANGED <<mode, lines, resident, mshr, queueVars, nextSequence, channel, memory,
                       requests>>

AcceptFill(reply) ==
    /\ reply.id \in DOMAIN fills
    /\ reply \in replies
    /\ replies' = replies \ {reply}
    /\ AcceptLineFill(reply) \/ AcceptUncacheableFill(reply)

\* accept_uncacheable_write_response
AcceptUncacheableWriteResponse(reply) ==
    /\ reply \in replies
    /\ \E r \in inflight :
          /\ r.id = reply.id
          /\ inflight' = inflight \ {r}
          /\ Answer(r.id, r.id)
    /\ replies' = replies \ {reply}
    /\ UNCHANGED <<mode, lines, resident, mshr, fills, writeQueue, writeHandle, nextSequence,
                   channel, memory, requests>>

\* issue_write_queue, with the read that waited for the writeback
IssueWriteQueue ==
    LET entry == Head(writeQueue)
        unblocked == {id \in DOMAIN fills :
                        /\ entry.kind = "WritebackDirty"
                        /\ fills[id].kind = "Uncacheable"
                        /\ fills[id].blockedBy = entry.handle
                        /\ fills[id].line = entry.line}
        read == [id \in unblocked |-> [id |-> id, op |-> fills[id].original.op,
                                       line |-> entry.line, data |-> id]]
        write == [id |-> IF entry.request = None THEN None ELSE entry.request.id,
                  op |-> entry.kind, line |-> entry.line, data |-> entry.data]
    IN  /\ writeQueue # <<>>
        /\ writeQueue' = Tail(writeQueue)
        /\ inflight' = IF entry.kind = "UncacheableWrite" THEN inflight \union {entry.request}
                                                           ELSE inflight
        /\ fills' = [id \in DOMAIN fills |->
                        IF id \in unblocked THEN [fills[id] EXCEPT !.blockedBy = None]
                                            ELSE fills[id]]
        /\ channel' = Append(channel, write) \o SetToSeq({read[id] : id \in unblocked})
        /\ UNCHANGED <<mode, lines, resident, mshr, writeHandle, nextSequence, replies, memory,
                       requests, answers>>

\* accept_snoop: the directory asks about a line it is not serving for this bank, and writes
\* the data of a modified copy to memory
AcceptSnoop(line, event) ==
    /\ lines[line].state \in {"Invalid", "Shared", "Modified"}
    /\ \A i \in DOMAIN channel : channel[i].line # line
    /\ lines' = [lines EXCEPT ![line] =
                    IF event = "SnoopWrite" \/ @.state = "Invalid"
                      THEN [NoLine EXCEPT !.state = "Invalid"]
                      ELSE [@ EXCEPT !.state = "Shared"]]
    /\ memory' = [memory EXCEPT ![line] =
                    IF lines[line].state = "Modified" THEN lines[line].data ELSE @]
    /\ UNCHANGED <<mode, resident, mshr, fills, queueVars, nextSequence, channel, replies,
                   requests, answers>>

\* snapshot, and restore of that snapshot: the fills are rebuilt from the controllers' pending
\* misses, each linked to the oldest MSHR entry of its line
RestoredFills ==
    LET waiting == {l \in BankLines : lines[l].pending # None}
        lineOf(id) == CHOOSE l \in waiting : lines[l].pending.downstream = id
        uncacheable == {id \in DOMAIN fills : fills[id].kind = "Uncacheable"}
    IN  [id \in {lines[l].pending.downstream : l \in waiting} |->
            LineFill(lineOf(id), IF LineEntries(mshr, lineOf(id)) = {}
                                   THEN None
                                   ELSE FindLine(mshr, lineOf(id)))]
        @@ [id \in uncacheable |-> fills[id]]

Restore ==
    /\ fills' = RestoredFills
    /\ UNCHANGED <<mode, lines, resident, mshr, queueVars, nextSequence, memoryVars, requests,
                   answers>>

\* the memory side: requests are served in the order the bank sent them
MemoryServes ==
    LET request == Head(channel)
        line == request.line
        reply(data) == [id |-> request.id, data |-> data]
    IN  /\ channel # <<>>
        /\ channel' = Tail(channel)
        /\ memory' = IF request.op \in {"WritebackDirty", "UncacheableWrite", "Atomic"}
                       THEN [memory EXCEPT ![line] = request.data]
                       ELSE memory
        /\ replies' = CASE request.op = "WritebackDirty" -> replies
                        [] request.op \in {"Upgrade", "UncacheableWrite"} ->
                              replies \union {reply(None)}
                        [] request.op \in {"ReadShared", "ReadUnique", "Atomic"} ->
                              replies \union {reply(memory[line])}
        /\ UNCHANGED <<mode, lines, resident, mshr, fills, queueVars, nextSequence, requests,
                       answers>>

CpuRequests ==
    {NextRequest(o.op, o.uncacheable, l) : o \in BankOperations, l \in BankLines}

BankNext ==
    \/ \E r \in CpuRequests : AcceptCpuRequest(r)
    \/ \E reply \in replies : AcceptFill(reply) \/ AcceptUncacheableWriteResponse(reply)
    \/ IssueWriteQueue
    \/ \E line \in BankLines, event \in {"SnoopRead", "SnoopWrite"} : AcceptSnoop(line, event)
    \/ Restore
    \/ MemoryServes

-----------------------------------------------------------------------------
(***************************************************************************)
(* What the CPU should see.                                                *)
(***************************************************************************)
\* the value of the line after the first n requests of the program
ProgramValue(line, n) ==
    LET stores == SelectSeq(SubSeq(requests, 1, n), LAMBDA r : r.line = line /\ Stores(r))
    IN  IF stores = <<>> THEN 0 ELSE Last(stores).id

\* Every answer is the one a memory that executes the requests in program order would give:
\* a read (hit, merged miss, write-queue hit or uncacheable) returns the last write the bank
\* accepted before it, an atomic the value before it, however the fills and the queued writes
\* were interleaved.
AnswersInProgramOrder ==
    \A n \in DOMAIN requests :
        LET r == requests[n]
        IN  r.id \in DOMAIN answers =>
                answers[r.id] = IF r.op = "Write" THEN r.id ELSE ProgramValue(r.line, n - 1)

Messages(id) ==
    Cardinality({i \in DOMAIN channel : channel[i].id = id})
        + Cardinality({m \in replies : m.id = id})

Targets == UNION {{t.request.id : t \in ToSet(e.targets)} : e \in ToSet(mshr.entries)}

\* Every accepted request is answered or still tracked, never both and never neither, and what
\* it waits for is on its way: a line miss has its MSHR entry and one message in flight, an
\* uncacheable access one message or the writeback it is blocked by, an uncacheable write its
\* queue entry or one message.  So no request is lost and none is answered twice, also across a
\* restore: it re-links a pending fill to find_line of its line, and the fills of a bank
\* restored from its own snapshot are the fills it had.
EveryRequestTracked ==
    LET lineFills == {id \in DOMAIN fills : fills[id].kind = "Line"}
        bypass == {id \in DOMAIN fills : fills[id].kind = "Uncacheable"}
        missing == {lines[fills[id].line].pending.request.id : id \in lineFills}
        queued == {e.request.id : e \in {q \in ToSet(writeQueue) : q.request # None}}
        sent == {r.id : r \in inflight}
        waiting == IF mode.mshr THEN Targets ELSE missing
    IN  /\ {r.id : r \in ToSet(requests)} \ DOMAIN answers =
              waiting \union bypass \union queued \union sent
        /\ missing \subseteq waiting
        /\ \A id \in lineFills \union sent : Messages(id) = 1
        /\ \A id \in bypass :
              IF fills[id].blockedBy = None
                THEN Messages(id) = 1
                ELSE /\ Messages(id) = 0
                     /\ \E e \in ToSet(writeQueue) :
                            e.handle = fills[id].blockedBy /\ e.line = fills[id].line
        /\ mode.mshr => MshrHandles(mshr) = {fills[id].handle : id \in lineFills}
        /\ RestoredFills = fills

\* The last value written is never lost: unless a store is still waiting for its line or for
\* memory, the modified copy, or else the youngest queued or sent write, or else memory holds
\* it, and any clean copy the bank would hit on agrees.
NewestValueKept ==
    \A line \in BankLines :
        LET writes == SelectSeq(channel \o [i \in DOMAIN writeQueue |->
                                               [id |-> None, op |-> writeQueue[i].kind,
                                                line |-> writeQueue[i].line,
                                                data |-> writeQueue[i].data]],
                                LAMBDA m : /\ m.line = line
                                           /\ m.op \in {"WritebackDirty", "UncacheableWrite",
                                                        "Atomic"})
            newest == CASE lines[line].state = "Modified" -> lines[line].data
                        [] lines[line].state # "Modified" /\ writes # <<>> -> Last(writes).data
                        [] lines[line].state # "Modified" /\ writes = <<>> -> memory[line]
            unapplied == \E id \in DOMAIN fills :
                            /\ fills[id].line = line
                            /\ \/ fills[id].kind = "Line" /\ Stores(lines[line].pending.request)
                               \/ fills[id].kind = "Uncacheable" /\ fills[id].blockedBy # None
        IN  ~unapplied =>
                /\ newest = ProgramValue(line, Len(requests))
                /\ lines[line].state = "Shared" => lines[line].data = newest

=============================================================================
