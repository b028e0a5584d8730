------------------------------ MODULE MshrQueue -----------------------------
(***************************************************************************)
(* The miss-status holding registers of a cache bank: one entry per miss   *)
(* in flight, each with the requests (targets) the fill will answer.  The  *)
(* queue is a value; its methods are operators from a queue to a queue.    *)
(* A request is a record with at least line, uncacheable and strict; the   *)
(* fields before and after say whether its barriers order it against the   *)
(* requests of the other entries.                                          *)
(***************************************************************************)
EXTENDS Naturals, Sequences, SequencesExt

CONSTANTS
    MshrEntries,     \* MshrQueueConfig::entries
    TargetsPerMshr,  \* MshrQueueConfig::targets_per_mshr
    DemandReserve    \* MshrQueueConfig::demand_reserve

ASSUME MshrAssumption ==
    /\ MshrEntries \in Nat \ {0}
    /\ TargetsPerMshr \in Nat \ {0}
    /\ DemandReserve \in 0..MshrEntries - 1

NoQos == 255   \* an entry without a class sorts as u8::MAX

EmptyMshr == [entries |-> <<>>, nextHandle |-> 0, nextOrder |-> 0]

MshrHandles(q) == {e.handle : e \in ToSet(q.entries)}

EntryOf(q, handle) == CHOOSE e \in ToSet(q.entries) : e.handle = handle

\* find_line: the oldest entry of the line, if there is one
LineEntries(q, line) == {i \in DOMAIN q.entries : q.entries[i].line = line}

FindLine(q, line) ==
    q.entries[CHOOSE i \in LineEntries(q, line) : \A j \in LineEntries(q, line) : i <= j].handle

Mergeable(r) == ~r.uncacheable /\ ~r.strict

CanMergeRequest(entry, r) ==
    /\ entry.line = r.line
    /\ Mergeable(r)
    /\ \A t \in ToSet(entry.targets) : Mergeable(t.request)

CanAcceptPrefetch(q) == Len(q.entries) + DemandReserve + 1 < MshrEntries

CanAllocateEntry(q, source) ==
    /\ source = "Prefetch" => CanAcceptPrefetch(q)
    /\ Len(q.entries) < MshrEntries

(***************************************************************************)
(* allocate_or_merge: the request joins the first entry that takes it, or  *)
(* opens one.  Accepts is FALSE where the code returns an error (target    *)
(* slots, entry slots or the prefetch reserve), and then nothing changes.  *)
(***************************************************************************)
MergeIndices(q, r) == {i \in DOMAIN q.entries : CanMergeRequest(q.entries[i], r)}

MergeIndex(q, r) == CHOOSE i \in MergeIndices(q, r) : \A j \in MergeIndices(q, r) : i <= j

MshrAccepts(q, r, source) ==
    IF MergeIndices(q, r) # {}
      THEN Len(q.entries[MergeIndex(q, r)].targets) < TargetsPerMshr
      ELSE CanAllocateEntry(q, source)

AllocateOrMerge(q, r, ready, source, qos) ==
    LET target == [request |-> r, order |-> q.nextOrder, source |-> source, qos |-> qos]
        entry == [handle |-> q.nextHandle, line |-> r.line, readyTick |-> ready,
                  order |-> q.nextOrder, inService |-> FALSE, targets |-> <<target>>]
    IN  IF MergeIndices(q, r) # {}
          THEN [q EXCEPT !.entries[MergeIndex(q, r)].targets = Append(@, target),
                         !.nextOrder = @ + 1]
          ELSE [q EXCEPT !.entries = Append(@, entry),
                         !.nextHandle = @ + 1,
                         !.nextOrder = @ + 1]

UpdatedHandle(q, r) ==
    IF MergeIndices(q, r) # {} THEN q.entries[MergeIndex(q, r)].handle ELSE q.nextHandle

CompleteEntry(q, handle) ==
    [q EXCEPT !.entries = SelectSeq(@, LAMBDA e : e.handle # handle)]

\* entry_mut: the entry with the handle becomes "changed"
OnEntry(q, handle, changed) ==
    [q EXCEPT !.entries =
        [i \in DOMAIN @ |-> IF @[i].handle = handle THEN changed ELSE @[i]]]

(***************************************************************************)
(* ready_handles: the ready entries in the order they may be issued.  The  *)
(* best class goes first, but never ahead of an entry that its targets     *)
(* must follow.                                                            *)
(***************************************************************************)
OrdersBefore(earlier, later) ==
    earlier.strict \/ later.strict \/ later.before \/ earlier.after

EntryOrdersBefore(e, f) ==
    \E t \in ToSet(e.targets), u \in ToSet(f.targets) :
        t.order < u.order /\ OrdersBefore(t.request, u.request)

EffectiveQos(entry) ==
    LET classes == {t.qos : t \in ToSet(entry.targets)}
    IN  CHOOSE c \in classes : \A d \in classes : c <= d

SortsBefore(e, f) ==
    \/ EffectiveQos(e) < EffectiveQos(f)
    \/ /\ EffectiveQos(e) = EffectiveQos(f)
       /\ \/ e.readyTick < f.readyTick
          \/ e.readyTick = f.readyTick /\ e.order < f.order

ReadyEntries(q, tick) ==
    {e \in ToSet(q.entries) : ~e.inService /\ e.readyTick <= tick}

\* mutant: eligibility is not looked at, the best class always goes first
MutantOrderingEligibleEntries(pending) == pending

OrderingEligibleEntries(pending) ==
    {e \in pending : \A f \in pending : ~EntryOrdersBefore(f, e)}

RECURSIVE ReadySequence(_)
ReadySequence(pending) ==
    LET eligible == OrderingEligibleEntries(pending)
        grant == CHOOSE e \in eligible : \A f \in eligible \ {e} : SortsBefore(e, f)
    IN  IF pending = {} \/ eligible = {}
          THEN <<>>
          ELSE <<grant.handle>> \o ReadySequence(pending \ {grant})

ReadyHandles(q, tick) == ReadySequence(ReadyEntries(q, tick))
=============================================================================
