------------------------------ MODULE MoesiLine -----------------------------
(***************************************************************************)
(* One cache line under the MOESI protocol: directory, one controller per  *)
(* agent and backing store, composed by MoesiDirectoryLineHarness.  As in  *)
(* the MESI module a hit and a miss are one action each.  Nothing is ever  *)
(* written back: a dirty copy stays with its owner, in state Owned, and    *)
(* the owner supplies later readers, as long as the directory knows it.    *)
(***************************************************************************)
EXTENDS CacheLine, FiniteSets

CONSTANT SnapshotAgents   \* bound: a harness with more agents is not snapshotted

VARIABLES
    agents,     \* the agents the harness was built for
    caches,     \* agent -> its controller's copy
    directory,  \* the directory's entry for the line
    backing,    \* the backing store's line
    response,   \* the last CPU response recorded
    saved       \* the last snapshot of the harness

vars == <<agents, caches, directory, backing, response, saved>>

StableStates == {"Invalid", "Shared", "Exclusive", "Owned", "Modified"}
TransientStates == {"InvalidToShared", "InvalidToExclusive", "InvalidToModified",
                    "SharedToModified", "OwnedToModified"}

\* rem6-protocol-moesi: the state after an event; "Error" is Err
Transition(state, event) ==
    CASE state = "Invalid" /\ event = "CpuRead" -> "InvalidToExclusive"
      [] state = "Invalid" /\ event = "CpuWrite" -> "InvalidToModified"
      [] state = "Invalid" /\ event \in {"SnoopRead", "SnoopWrite"} -> "Invalid"
      [] state = "Shared" /\ event \in {"CpuRead", "SnoopRead"} -> "Shared"
      [] state = "Shared" /\ event = "CpuWrite" -> "SharedToModified"
      [] state = "Exclusive" /\ event = "CpuRead" -> "Exclusive"
      [] state \in {"Exclusive", "Modified"} /\ event = "CpuWrite" -> "Modified"
      [] state = "Exclusive" /\ event = "SnoopRead" -> "Shared"
      [] state = "Owned" /\ event \in {"CpuRead", "SnoopRead"} -> "Owned"
      [] state = "Owned" /\ event = "CpuWrite" -> "OwnedToModified"
      [] state = "Modified" /\ event = "CpuRead" -> "Modified"
      [] state = "Modified" /\ event = "SnoopRead" -> "Owned"
      [] state \in {"Shared", "Exclusive", "Owned", "Modified"} /\ event = "SnoopWrite" ->
            "Invalid"
      [] state \in {"InvalidToShared", "InvalidToExclusive"} /\ event = "DataShared" -> "Shared"
      [] state = "InvalidToExclusive" /\ event = "DataExclusive" -> "Exclusive"
      [] /\ state \in {"InvalidToModified", "SharedToModified", "OwnedToModified"}
         /\ event = "DataModified" -> "Modified"
      [] OTHER -> "Error"

(***************************************************************************)
(* The directory's entry: an owner with the state the directory believes   *)
(* it is in, and sharers, which an Owned owner may have beside it.         *)
(***************************************************************************)
Entry(owner, state, sharers) == [owner |-> owner, state |-> state, sharers |-> sharers]
NoEntry == Entry(NoAgent, "Invalid", {})

Decision(entry, snooped, event, grant, source, supplier) ==
    [entry |-> entry, snooped |-> snooped, event |-> event, grant |-> grant,
     source |-> source, supplier |-> supplier]

AcceptReadShared(d, a) ==
    CASE d.owner = a -> Decision(d, {}, "SnoopRead", d.state, "NoData", NoAgent)
      [] d.owner \notin {a, NoAgent} ->
            Decision(IF d.state = "Exclusive"
                       THEN Entry(NoAgent, "Invalid", d.sharers \union {d.owner, a})
                       ELSE Entry(d.owner, "Owned", d.sharers \union {a}),
                     {d.owner}, "SnoopRead", "Shared", "OwnerCache", d.owner)
      [] d.owner = NoAgent /\ d.sharers = {} ->
            Decision(Entry(a, "Exclusive", {}), {}, "SnoopRead", "Exclusive",
                     "BackingMemory", NoAgent)
      [] d.owner = NoAgent /\ d.sharers # {} ->
            Decision([d EXCEPT !.sharers = @ \union {a}], {}, "SnoopRead", "Shared",
                     IF a \in d.sharers THEN "NoData" ELSE "BackingMemory", NoAgent)

AcceptReadUnique(d, a) ==
    Decision(Entry(a, "Modified", {}),
             (d.sharers \union {d.owner}) \ {a, NoAgent}, "SnoopWrite", "Modified",
             CASE d.owner \notin {a, NoAgent} -> "OwnerCache"
               [] d.owner = a \/ (d.owner = NoAgent /\ a \in d.sharers) -> "NoData"
               [] d.owner = NoAgent /\ a \notin d.sharers -> "BackingMemory",
             IF d.owner \notin {a, NoAgent} THEN d.owner ELSE NoAgent)

AcceptUpgrade(d, a) ==
    CASE d.owner = a ->
            Decision([d EXCEPT !.state = "Modified"], {}, "SnoopWrite", "Modified",
                     "NoData", NoAgent)
      [] d.owner # a /\ a \in d.sharers ->
            Decision(Entry(a, "Modified", {}), (d.sharers \union {d.owner}) \ {a, NoAgent},
                     "SnoopWrite", "Modified",
                     IF d.owner = NoAgent THEN "NoData" ELSE "OwnerCache", d.owner)
      [] d.owner # a /\ a \notin d.sharers ->    \* UpgradeRequesterNotSharer
            Decision(d, {}, "SnoopWrite", "Error", "NoData", NoAgent)

Accept(d, a, operation) ==
    CASE operation = "ReadShared" -> AcceptReadShared(d, a)
      [] operation = "ReadUnique" -> AcceptReadUnique(d, a)
      [] operation = "Upgrade" -> AcceptUpgrade(d, a)

FillEvent(decision) ==
    CASE decision.grant = "Shared" -> "DataShared"
      [] decision.grant = "Exclusive" -> "DataExclusive"
      [] decision.grant = "Modified" -> "DataModified"
      [] OTHER -> "Error"

(***************************************************************************)
(* The controller.                                                         *)
(***************************************************************************)
DownstreamRequest(r, before) ==
    CASE CpuEvent(r) = "CpuRead" -> "ReadShared"
      [] CpuEvent(r) = "CpuWrite" /\ before \in {"Shared", "Owned"} -> "Upgrade"
      [] CpuEvent(r) = "CpuWrite" /\ before \notin {"Shared", "Owned"} -> "ReadUnique"

AcceptSnoop(cache, event) ==
    LET after == Transition(cache.state, event)
    IN  IF after = "Invalid"
          THEN EmptyCache
          ELSE [cache EXCEPT !.state = after]

AcceptFill(cache, a, r, event, data) ==
    LET moved == [cache EXCEPT !.state = Transition(@, event)]
    IN  CompleteCpuRequest(IF data = NoData THEN moved ELSE InstallData(moved, data), a, r)

(***************************************************************************)
(* The harness.                                                            *)
(***************************************************************************)
\* a controller's snapshot leaves its reservations out
HarnessSnapshot ==
    [caches |-> [a \in Agents |-> [caches[a] EXCEPT !.reservation = NoGranule]],
     directory |-> directory, backing |-> backing, response |-> response]

Init ==
    /\ agents \in SUBSET Agents
    /\ caches = [a \in Agents |-> EmptyCache]
    /\ directory = NoEntry
    /\ backing \in Lines
    /\ response = NoResponse
    /\ saved = HarnessSnapshot

\* submit_cpu_request when the controller answers at once
Hit(a, r) ==
    LET after == Transition(caches[a].state, CpuEvent(r))
        done == CompleteCpuRequest([caches[a] EXCEPT !.state = after], a, r)
    IN  /\ after \notin TransientStates
        /\ caches' = [caches EXCEPT ![a] = done.cache]
        /\ response' = done.response
        /\ UNCHANGED <<agents, directory, backing, saved>>

\* directory_response: the caches after the snoops, and the data of the response
Snooped(decision) ==
    [b \in Agents |-> IF b \in decision.snooped
                        THEN AcceptSnoop(caches[b], decision.event)
                        ELSE caches[b]]

GrantData(decision, operation) ==
    CASE decision.source = "OwnerCache" /\ operation # "Upgrade" ->
            caches[decision.supplier].data
      [] decision.source = "BackingMemory" -> backing
      [] decision.source = "NoData" \/ operation = "Upgrade" -> NoData

\* submit_cpu_request when the request goes downstream
Miss(a, r) ==
    LET before == caches[a].state
        waiting == Transition(before, CpuEvent(r))
        operation == DownstreamRequest(r, before)
        decision == Accept(directory, a, operation)
        done == AcceptFill([caches[a] EXCEPT !.state = waiting], a, r,
                           FillEvent(decision), GrantData(decision, operation))
    IN  /\ waiting \in TransientStates
        /\ directory' = decision.entry
        /\ caches' = [Snooped(decision) EXCEPT ![a] = done.cache]
        /\ response' = done.response
        /\ UNCHANGED <<agents, backing, saved>>

Snapshot ==
    /\ Cardinality(agents) <= SnapshotAgents
    /\ saved' = HarnessSnapshot
    /\ UNCHANGED <<agents, caches, directory, backing, response>>

Restore ==
    /\ caches' = saved.caches
    /\ directory' = saved.directory
    /\ backing' = saved.backing
    /\ response' = saved.response
    /\ UNCHANGED <<agents, saved>>

Next ==
    \/ \E a \in agents, r \in Requests : Hit(a, r) \/ Miss(a, r)
    \/ Snapshot
    \/ Restore

Spec == Init /\ [][Next]_vars

-----------------------------------------------------------------------------
\* Between two calls of submit_cpu_request every controller is in a stable state, so no request
\* met LineBusy, no event was refused by the protocol, and no directory decision failed.
TypeOK ==
    /\ caches \in [Agents -> Caches(StableStates)]
    /\ directory \in [owner : Agents \union {NoAgent},
                     state : {"Invalid", "Exclusive", "Owned", "Modified"},
                     sharers : SUBSET Agents]
    /\ backing \in Lines

Holding(states) == {a \in Agents : caches[a].state \in states}

\* DirectoryLineSnapshot::validate, MultipleOwners and MultipleDirtyOwners: at most one copy is
\* Exclusive, Owned or Modified, however hits, misses, snoops and restores alternate.
AtMostOneOwner == \A a, b \in Holding({"Exclusive", "Owned", "Modified"}) : a = b

\* DirectoryLineSnapshot::validate, ModifiedWithSharers and ExclusiveWithSharers: a copy that
\* may be written without asking the directory has no copy beside it.
NoWriterBesideSharers ==
    Holding({"Exclusive", "Modified"}) # {} => Holding({"Shared", "Owned"}) = {}

\* The directory entry names every copy and nothing else, so no copy is out of an invalidation's
\* reach; an owner it records as Owned or Modified is one, though an owner it records as
\* Exclusive may have written silently.
DirectoryKnowsHolders ==
    /\ Holding(StableStates \ {"Invalid"})
          = directory.sharers \union ({directory.owner} \ {NoAgent})
    /\ directory.owner # NoAgent /\ directory.state # "Exclusive"
          => caches[directory.owner].state = directory.state

=============================================================================
