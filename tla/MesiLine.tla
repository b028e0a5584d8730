------------------------------ MODULE MesiLine ------------------------------
(***************************************************************************)
(* One cache line under the MESI protocol: the directory, one controller   *)
(* per agent and the backing store, composed by MesiDirectoryLineHarness.  *)
(* The harness is synchronous: a CPU request runs to its response before   *)
(* the next one starts, so a hit and a miss are one action each.  A miss   *)
(* moves the requester to a transient state, asks the directory, takes the *)
(* owner's data, writes it back when the owner is only downgraded, snoops  *)
(* the other caches, and fills the requester.                              *)
(***************************************************************************)
EXTENDS CacheLine, FiniteSets

CONSTANT SnapshotAgents   \* bound: a harness with more agents is not snapshotted

VARIABLES
    agents,     \* the agents the harness was built for
    caches,     \* agent -> its controller's copy
    directory,  \* the directory's entry for the line
    backing,    \* the backing store's line
    response,   \* the last CPU response recorded
    saved       \* the last snapshot of the harness

vars == <<agents, caches, directory, backing, response, saved>>

StableStates == {"Invalid", "Shared", "Exclusive", "Modified"}
TransientStates == {"InvalidToShared", "InvalidToExclusive", "InvalidToModified",
                    "SharedToModified"}

(***************************************************************************)
(* rem6-protocol-mesi: the state after an event; "Error" is Err.           *)
(***************************************************************************)
Transition(state, event) ==
    CASE state = "Invalid" /\ event = "CpuRead" -> "InvalidToExclusive"
      [] state = "Invalid" /\ event = "CpuWrite" -> "InvalidToModified"
      [] state = "Invalid" /\ event \in {"SnoopRead", "SnoopWrite"} -> "Invalid"
      [] state = "Shared" /\ event \in {"CpuRead", "SnoopRead"} -> "Shared"
      [] state = "Shared" /\ event = "CpuWrite" -> "SharedToModified"
      [] state = "Exclusive" /\ event = "CpuRead" -> "Exclusive"
      [] state \in {"Exclusive", "Modified"} /\ event = "CpuWrite" -> "Modified"
      [] state = "Modified" /\ event = "CpuRead" -> "Modified"
      [] state \in {"Exclusive", "Modified"} /\ event = "SnoopRead" -> "Shared"
      [] state \in {"Shared", "Exclusive", "Modified"} /\ event = "SnoopWrite" -> "Invalid"
      [] state \in {"InvalidToShared", "InvalidToExclusive"} /\ event = "DataShared" -> "Shared"
      [] state = "InvalidToExclusive" /\ event = "DataExclusive" -> "Exclusive"
      [] state \in {"InvalidToModified", "SharedToModified"} /\ event = "DataModified" ->
            "Modified"
      [] OTHER -> "Error"

(***************************************************************************)
(* The directory's entry: an owner with the state it was granted, or       *)
(* sharers.  A decision is the new entry, the caches to snoop, the event   *)
(* they get, the granted state and where the data comes from.              *)
(***************************************************************************)
NoEntry == [owner |-> NoAgent, state |-> "Invalid", sharers |-> {}]
Owned(a, state) == [owner |-> a, state |-> state, sharers |-> {}]
Shared(holders) == [owner |-> NoAgent, state |-> "Invalid", sharers |-> holders]

Decision(entry, snooped, event, grant, source, supplier) ==
    [entry |-> entry, snooped |-> snooped, event |-> event, grant |-> grant,
     source |-> source, supplier |-> supplier]

\* mutant: the downgraded owner is not recorded as a sharer
MutantAcceptReadShared(d, a) ==
    IF d.owner \notin {a, NoAgent}
      THEN Decision(Shared({a}), {d.owner}, "SnoopRead", "Shared", "OwnedCache", d.owner)
      ELSE Decision(Owned(a, "Exclusive"), {}, "SnoopRead", "Exclusive", "BackingMemory", NoAgent)

AcceptReadShared(d, a) ==
    CASE d.owner = a -> Decision(d, {}, "SnoopRead", d.state, "NoData", NoAgent)
      [] d.owner \notin {a, NoAgent} ->
            Decision(Shared(d.sharers \union {d.owner, a}),
                     {d.owner}, "SnoopRead", "Shared", "OwnedCache", d.owner)
      [] d.owner = NoAgent /\ d.sharers = {} ->
            Decision(Owned(a, "Exclusive"), {}, "SnoopRead", "Exclusive", "BackingMemory", NoAgent)
      [] d.owner = NoAgent /\ d.sharers # {} ->
            Decision(Shared(d.sharers \union {a}), {}, "SnoopRead", "Shared",
                     "BackingMemory", NoAgent)

AcceptReadUnique(d, a) ==
    Decision(Owned(a, "Modified"),
             (d.sharers \union {d.owner}) \ {a, NoAgent}, "SnoopWrite", "Modified",
             CASE d.owner \notin {a, NoAgent} -> "OwnedCache"
               [] d.owner = a \/ (d.owner = NoAgent /\ a \in d.sharers) -> "NoData"
               [] d.owner = NoAgent /\ a \notin d.sharers -> "BackingMemory",
             IF d.owner \notin {a, NoAgent} THEN d.owner ELSE NoAgent)

AcceptUpgrade(d, a) ==
    CASE d.owner = a ->
            Decision([d EXCEPT !.state = "Modified"], {}, "SnoopWrite", "Modified",
                     "NoData", NoAgent)
      [] d.owner # a /\ a \in d.sharers ->
            Decision(Owned(a, "Modified"), d.sharers \ {a}, "SnoopWrite", "Modified",
                     "NoData", NoAgent)
      [] d.owner # a /\ a \notin d.sharers ->    \* UpgradeRequesterNotSharer
            Decision(d, {}, "SnoopWrite", "Error", "NoData", NoAgent)

Accept(d, a, operation) ==
    CASE operation = "ReadShared" -> AcceptReadShared(d, a)
      [] operation = "ReadUnique" -> AcceptReadUnique(d, a)
      [] operation = "Upgrade" -> AcceptUpgrade(d, a)

FillEvent(decision) ==
    CASE decision.grant = "Shared" -> "DataShared"
      [] decision.grant = "Exclusive" -> "DataExclusive"
      [] decision.grant = "Modified" -> "DataModified"
      [] OTHER -> "Error"

(***************************************************************************)
(* The controller.                                                         *)
(***************************************************************************)

\* mutant: a cache that misses for a write asks for an upgrade
MutantDownstreamRequest(r, before) ==
    IF CpuEvent(r) = "CpuRead" THEN "ReadShared" ELSE "Upgrade"

DownstreamRequest(r, before) ==
    CASE CpuEvent(r) = "CpuRead" -> "ReadShared"
      [] CpuEvent(r) = "CpuWrite" /\ before = "Shared" -> "Upgrade"
      [] CpuEvent(r) = "CpuWrite" /\ before # "Shared" -> "ReadUnique"

\* mutant: every snoop drops the reservation
MutantAcceptSnoopDropsReservation(cache, event) ==
    LET after == Transition(cache.state, event)
    IN  IF after = "Invalid"
          THEN EmptyCache
          ELSE [cache EXCEPT !.state = after, !.reservation = NoGranule]

AcceptSnoop(cache, event) ==
    LET after == Transition(cache.state, event)
    IN  IF after = "Invalid"
          THEN EmptyCache
          ELSE [cache EXCEPT !.state = after]

AcceptFill(cache, a, r, event, data) ==
    LET moved == [cache EXCEPT !.state = Transition(@, event)]
    IN  CompleteCpuRequest(IF data = NoData THEN moved ELSE InstallData(moved, data), a, r)

(***************************************************************************)
(* The harness.                                                            *)
(***************************************************************************)
\* a controller's snapshot leaves its reservations out
HarnessSnapshot ==
    [caches |-> [a \in Agents |-> [caches[a] EXCEPT !.reservation = NoGranule]],
     directory |-> directory, backing |-> backing, response |-> response]

Init ==
    /\ agents \in SUBSET Agents
    /\ caches = [a \in Agents |-> EmptyCache]
    /\ directory = NoEntry
    /\ backing \in Lines
    /\ response = NoResponse
    /\ saved = HarnessSnapshot

\* submit_cpu_request when the controller answers at once
Hit(a, r) ==
    LET after == Transition(caches[a].state, CpuEvent(r))
        done == CompleteCpuRequest([caches[a] EXCEPT !.state = after], a, r)
    IN  /\ after \notin TransientStates
        /\ caches' = [caches EXCEPT ![a] = done.cache]
        /\ response' = done.response
        /\ UNCHANGED <<agents, directory, backing, saved>>

\* directory_response: the backing line and the caches after the decision
WriteBack(decision) ==
    IF decision.source = "OwnedCache" /\ decision.event = "SnoopRead"
      THEN caches[decision.supplier].data
      ELSE backing

Snooped(decision) ==
    [b \in Agents |-> IF b \in decision.snooped
                        THEN AcceptSnoop(caches[b], decision.event)
                        ELSE caches[b]]

GrantData(decision, operation) ==
    CASE decision.source = "OwnedCache" -> caches[decision.supplier].data
      [] decision.source = "BackingMemory" -> IF operation = "Upgrade" THEN NoData ELSE backing
      [] decision.source = "NoData" -> NoData

\* submit_cpu_request when the request goes downstream
Miss(a, r) ==
    LET before == caches[a].state
        waiting == Transition(before, CpuEvent(r))
        operation == DownstreamRequest(r, before)
        decision == Accept(directory, a, operation)
        done == AcceptFill([caches[a] EXCEPT !.state = waiting], a, r,
                           FillEvent(decision), GrantData(decision, operation))
    IN  /\ waiting \in TransientStates
        /\ directory' = decision.entry
        /\ backing' = WriteBack(decision)
        /\ caches' = [Snooped(decision) EXCEPT ![a] = done.cache]
        /\ response' = done.response
        /\ UNCHANGED <<agents, saved>>

Snapshot ==
    /\ Cardinality(agents) <= SnapshotAgents
    /\ saved' = HarnessSnapshot
    /\ UNCHANGED <<agents, caches, directory, backing, response>>

Restore ==
    /\ caches' = saved.caches
    /\ directory' = saved.directory
    /\ backing' = saved.backing
    /\ response' = saved.response
    /\ UNCHANGED <<agents, saved>>

Next ==
    \/ \E a \in agents, r \in Requests : Hit(a, r) \/ Miss(a, r)
    \/ Snapshot
    \/ Restore

Spec == Init /\ [][Next]_vars

-----------------------------------------------------------------------------
\* Between two calls of submit_cpu_request every controller is in a stable state, so no request
\* met LineBusy, no event was refused by the protocol, and no directory decision failed.
TypeOK ==
    /\ caches \in [Agents -> Caches(StableStates)]
    /\ directory \in [owner : Agents \union {NoAgent}, state : {"Invalid", "Exclusive", "Modified"},
                     sharers : SUBSET Agents]
    /\ backing \in Lines

Holding(states) == {a \in Agents : caches[a].state \in states}

\* DirectoryLineSnapshot::validate: at most one Exclusive or Modified copy, and none beside a
\* Shared one, however hits, misses, snoops and restores follow each other.
SingleWriter ==
    LET writers == Holding({"Exclusive", "Modified"})
    IN  /\ \A a, b \in writers : a = b
        /\ writers # {} => Holding({"Shared"}) = {}

\* The directory entry names exactly the copies that exist: its owner is the one Exclusive or
\* Modified cache and its sharers are the Shared ones.  It may still say Exclusive for a cache
\* that wrote silently, never Modified for one that did not.
DirectoryMatchesCaches ==
    /\ \A a \in Agents :
          /\ directory.owner = a <=> caches[a].state \in {"Exclusive", "Modified"}
          /\ a \in directory.sharers <=> caches[a].state = "Shared"
          /\ directory.owner = a /\ directory.state = "Modified" => caches[a].state = "Modified"

\* A clean copy equals the backing store: the data of a downgraded owner was written back
\* before anyone can read the line from memory, and no other copy survives a write.
CleanCopiesMatchBacking ==
    \A a \in Agents : caches[a].state \in {"Shared", "Exclusive"} => caches[a].data = backing

\* A reservation never outlives the copy it was taken on, so a store-conditional cannot succeed
\* on a line another agent has written since.
ReservationNeedsCopy ==
    \A a \in Agents :
        /\ caches[a].reservation # NoGranule => caches[a].state # "Invalid"
        /\ caches[a].data = NoData <=> caches[a].state = "Invalid"

-----------------------------------------------------------------------------
(***************************************************************************)
(* The harness implements one line of LineMemoryStore.  The line of memory *)
(* is the data of any cached copy, or the backing store when no cache has  *)
(* one.                                                                    *)
(***************************************************************************)
LineOf(copies, store) ==
    IF \E a \in Agents : copies[a].data # NoData
      THEN copies[CHOOSE a \in Agents : copies[a].data # NoData].data
      ELSE store

Memory == INSTANCE LineMemory WITH
    MayLose <- TRUE,
    memory <- LineOf(caches, backing),
    reservations <- [a \in Agents |-> caches[a].reservation],
    saved <- [memory |-> LineOf(saved.caches, saved.backing), response |-> saved.response]

\* Every response of the cached line is one the uncached store could give: reads return the
\* last write, atomics are atomic, a successful store-conditional had its reservation, and a
\* restored snapshot brings back the data of the time it was taken.
ImplementsLineMemory == Memory!MemorySpec
=============================================================================
