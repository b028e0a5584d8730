------------------------------- MODULE ChiLine ------------------------------
(***************************************************************************)
(* One cache line under the CHI protocol: directory, one controller per    *)
(* agent and backing store, composed by ChiDirectoryLineHarness.  As in    *)
(* the MESI module a hit and a miss are one action each.  A read never     *)
(* grants a unique copy, and the data of a unique owner is written back    *)
(* when a read downgrades it.                                              *)
(***************************************************************************)
EXTENDS CacheLine, FiniteSets

CONSTANT SnapshotAgents   \* bound: a harness with more agents is not snapshotted

VARIABLES
    agents,     \* the agents the harness was built for
    caches,     \* agent -> its controller's copy
    directory,  \* the directory's entry for the line
    backing,    \* the backing store's line
    response,   \* the last CPU response recorded
    saved       \* the last snapshot of the harness

vars == <<agents, caches, directory, backing, response, saved>>

StableStates == {"Invalid", "SharedClean", "SharedDirty", "UniqueClean", "UniqueDirty"}
TransientStates == {"InvalidToSharedClean", "InvalidToUniqueDirty", "SharedCleanToUniqueClean",
                    "SharedDirtyToUniqueDirty"}

\* rem6-protocol-chi: the state after an event; "Error" is Err
Transition(state, event) ==
    CASE state = "Invalid" /\ event = "CpuRead" -> "InvalidToSharedClean"
      [] state = "Invalid" /\ event = "CpuWrite" -> "InvalidToUniqueDirty"
      [] state = "Invalid" /\ event \in {"SnoopShared", "SnoopUnique"} -> "Invalid"
      [] state \in StableStates \ {"Invalid"} /\ event = "CpuRead" -> state
      [] state = "SharedClean" /\ event = "CpuWrite" -> "SharedCleanToUniqueClean"
      [] state = "SharedDirty" /\ event = "CpuWrite" -> "SharedDirtyToUniqueDirty"
      [] state \in {"UniqueClean", "UniqueDirty"} /\ event = "CpuWrite" -> "UniqueDirty"
      [] state \in {"SharedClean", "SharedDirty"} /\ event = "SnoopShared" -> state
      [] state \in {"UniqueClean", "UniqueDirty"} /\ event = "SnoopShared" -> "SharedClean"
      [] state \in StableStates \ {"Invalid"} /\ event = "SnoopUnique" -> "Invalid"
      [] state = "InvalidToSharedClean" /\ event = "CompDataSharedClean" -> "SharedClean"
      [] state = "InvalidToSharedClean" /\ event = "CompDataSharedDirty" -> "SharedDirty"
      [] state = "SharedCleanToUniqueClean" /\ event = "CompDataUniqueClean" -> "UniqueClean"
      [] state \in TransientStates \ {"InvalidToSharedClean"} /\ event = "CompDataUniqueDirty" ->
            "UniqueDirty"
      [] /\ state \in {"InvalidToUniqueDirty", "SharedDirtyToUniqueDirty"}
         /\ event = "CompDataUniqueClean" -> "UniqueDirty"
      [] OTHER -> "Error"

(***************************************************************************)
(* The directory's entry: a unique owner with its state, or the state of   *)
(* each sharer.                                                            *)
(***************************************************************************)
NoSharers == [b \in Agents |-> "Invalid"]
NoEntry == [owner |-> NoAgent, state |-> "Invalid", sharers |-> NoSharers]
Unique(a) == [owner |-> a, state |-> "UniqueDirty", sharers |-> NoSharers]
SharersOf(d) == {b \in Agents : d.sharers[b] # "Invalid"}

FirstDirtySharerExcept(d, a) ==
    LET dirty == {b \in Agents \ {a} : d.sharers[b] = "SharedDirty"}
    IN  IF dirty = {} THEN NoAgent ELSE CHOOSE b \in dirty : TRUE

Decision(entry, snooped, event, grant, source, supplier) ==
    [entry |-> entry, snooped |-> snooped, event |-> event, grant |-> grant,
     source |-> source, supplier |-> supplier]

AcceptReadShared(d, a) ==
    LET dirty == FirstDirtySharerExcept(d, a)
    IN  CASE d.owner = a -> Decision(d, {}, "SnoopShared", d.state, "NoData", NoAgent)
          [] d.owner \notin {a, NoAgent} ->
                Decision([owner |-> NoAgent, state |-> "Invalid",
                          sharers |-> [d.sharers EXCEPT ![d.owner] = "SharedClean",
                                                        ![a] = "SharedClean"]],
                         {d.owner}, "SnoopShared", "SharedClean", "OwnerCache", d.owner)
          [] d.owner = NoAgent /\ a \in SharersOf(d) ->
                Decision(d, {}, "SnoopShared", d.sharers[a], "NoData", NoAgent)
          [] d.owner = NoAgent /\ a \notin SharersOf(d) ->
                Decision([d EXCEPT !.sharers[a] = "SharedClean"], {dirty} \ {NoAgent},
                         "SnoopShared", "SharedClean",
                         IF dirty = NoAgent THEN "BackingMemory" ELSE "OwnerCache", dirty)

AcceptReadUnique(d, a) ==
    LET supplier == IF d.owner = NoAgent THEN FirstDirtySharerExcept(d, a) ELSE d.owner
    IN  Decision(Unique(a), (SharersOf(d) \union {d.owner}) \ {a, NoAgent}, "SnoopUnique",
                 "UniqueDirty",
                 CASE supplier \notin {a, NoAgent} -> "OwnerCache"
                   [] supplier = a \/ (supplier = NoAgent /\ a \in SharersOf(d)) -> "NoData"
                   [] supplier = NoAgent /\ a \notin SharersOf(d) -> "BackingMemory",
                 supplier)

\* mutant: an upgrade does not snoop the other sharers
MutantAcceptUpgrade(d, a) ==
    Decision(Unique(a), {}, "SnoopUnique", "UniqueDirty", "NoData", NoAgent)

AcceptUpgrade(d, a) ==
    LET dirty == FirstDirtySharerExcept(d, a)
    IN  CASE d.owner = a ->
                Decision([d EXCEPT !.state = "UniqueDirty"], {}, "SnoopUnique", "UniqueDirty",
                         "NoData", NoAgent)
          [] d.owner # a /\ a \in SharersOf(d) ->
                Decision(Unique(a), SharersOf(d) \ {a}, "SnoopUnique", "UniqueDirty",
                         IF dirty = NoAgent THEN "NoData" ELSE "OwnerCache", dirty)
          [] d.owner # a /\ a \notin SharersOf(d) ->    \* UpgradeRequesterNotSharer
                Decision(d, {}, "SnoopUnique", "Error", "NoData", NoAgent)

Accept(d, a, operation) ==
    CASE operation = "ReadShared" -> AcceptReadShared(d, a)
      [] operation = "ReadUnique" -> AcceptReadUnique(d, a)
      [] operation = "Upgrade" -> AcceptUpgrade(d, a)

FillEvent(decision) ==
    CASE decision.grant = "SharedClean" -> "CompDataSharedClean"
      [] decision.grant = "SharedDirty" -> "CompDataSharedDirty"
      [] decision.grant = "UniqueClean" -> "CompDataUniqueClean"
      [] decision.grant = "UniqueDirty" -> "CompDataUniqueDirty"
      [] OTHER -> "Error"

(***************************************************************************)
(* The controller.                                                         *)
(***************************************************************************)
DownstreamRequest(r, before) ==
    CASE CpuEvent(r) = "CpuRead" -> "ReadShared"
      [] CpuEvent(r) = "CpuWrite" /\ before \in {"SharedClean", "SharedDirty"} -> "Upgrade"
      [] CpuEvent(r) = "CpuWrite" /\ before \notin {"SharedClean", "SharedDirty"} -> "ReadUnique"

AcceptSnoop(cache, event) ==
    LET after == Transition(cache.state, event)
    IN  IF after = "Invalid"
          THEN EmptyCache
          ELSE [cache EXCEPT !.state = after]

AcceptFill(cache, a, r, event, data) ==
    LET moved == [cache EXCEPT !.state = Transition(@, event)]
    IN  CompleteCpuRequest(IF data = NoData THEN moved ELSE InstallData(moved, data), a, r)

(***************************************************************************)
(* The harness.                                                            *)
(***************************************************************************)
\* mutant: the snapshot keeps the reservations
MutantHarnessSnapshot ==
    [caches |-> caches, directory |-> directory, backing |-> backing, response |-> response]

\* a controller's snapshot leaves its reservations out
HarnessSnapshot ==
    [caches |-> [a \in Agents |-> [caches[a] EXCEPT !.reservation = NoGranule]],
     directory |-> directory, backing |-> backing, response |-> response]

Init ==
    /\ agents \in SUBSET Agents
    /\ caches = [a \in Agents |-> EmptyCache]
    /\ directory = NoEntry
    /\ backing \in Lines
    /\ response = NoResponse
    /\ saved = HarnessSnapshot

\* submit_cpu_request when the controller answers at once
Hit(a, r) ==
    LET after == Transition(caches[a].state, CpuEvent(r))
        done == CompleteCpuRequest([caches[a] EXCEPT !.state = after], a, r)
    IN  /\ after \notin TransientStates
        /\ caches' = [caches EXCEPT ![a] = done.cache]
        /\ response' = done.response
        /\ UNCHANGED <<agents, directory, backing, saved>>

\* directory_response: the backing line and the caches after the decision
\* (a decision that shares the line of a unique owner has it as supplier)
WriteBack(decision) ==
    IF directory.owner # NoAgent /\ decision.snooped # {} /\ decision.event = "SnoopShared"
      THEN caches[decision.supplier].data
      ELSE backing

Snooped(decision) ==
    [b \in Agents |-> IF b \in decision.snooped
                        THEN AcceptSnoop(caches[b], decision.event)
                        ELSE caches[b]]

GrantData(decision, operation) ==
    CASE decision.source = "OwnerCache" /\ operation # "Upgrade" ->
            caches[decision.supplier].data
      [] decision.source = "BackingMemory" -> backing
      [] decision.source = "NoData" \/ operation = "Upgrade" -> NoData

\* submit_cpu_request when the request goes downstream
Miss(a, r) ==
    LET before == caches[a].state
        waiting == Transition(before, CpuEvent(r))
        operation == DownstreamRequest(r, before)
        decision == Accept(directory, a, operation)
        done == AcceptFill([caches[a] EXCEPT !.state = waiting], a, r,
                           FillEvent(decision), GrantData(decision, operation))
    IN  /\ waiting \in TransientStates
        /\ directory' = decision.entry
        /\ backing' = WriteBack(decision)
        /\ caches' = [Snooped(decision) EXCEPT ![a] = done.cache]
        /\ response' = done.response
        /\ UNCHANGED <<agents, saved>>

Snapshot ==
    /\ Cardinality(agents) <= SnapshotAgents
    /\ saved' = HarnessSnapshot
    /\ UNCHANGED <<agents, caches, directory, backing, response>>

Restore ==
    /\ caches' = saved.caches
    /\ directory' = saved.directory
    /\ backing' = saved.backing
    /\ response' = saved.response
    /\ UNCHANGED <<agents, saved>>

Next ==
    \/ \E a \in agents, r \in Requests : Hit(a, r) \/ Miss(a, r)
    \/ Snapshot
    \/ Restore

Spec == Init /\ [][Next]_vars

-----------------------------------------------------------------------------
\* Between two calls of submit_cpu_request every controller is in a stable state, so no request
\* met LineBusy, no event was refused by the protocol, and no directory decision failed.
TypeOK ==
    /\ caches \in [Agents -> Caches(StableStates)]
    /\ directory \in [owner : Agents \union {NoAgent},
                     state : {"Invalid", "UniqueClean", "UniqueDirty"},
                     sharers : [Agents -> {"Invalid", "SharedClean", "SharedDirty"}]]
    /\ backing \in Lines

Holding(states) == {a \in Agents : caches[a].state \in states}

\* DirectoryLineSnapshot::validate: at most one unique copy, and none beside a shared one,
\* however hits, misses, snoops and restores follow each other.
SingleUniqueOwner ==
    /\ \A a, b \in Holding({"UniqueClean", "UniqueDirty"}) : a = b
    /\ Holding({"UniqueClean", "UniqueDirty"}) # {}
          => Holding({"SharedClean", "SharedDirty"}) = {}

\* The directory's entry records the state of every copy: of its unique owner, and of each
\* sharer one by one.
DirectoryMatchesCaches ==
    \A a \in Agents :
        caches[a].state = IF directory.owner = a THEN directory.state ELSE directory.sharers[a]

=============================================================================
