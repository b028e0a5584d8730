------------------------------- MODULE MsiLine ------------------------------
(***************************************************************************)
(* One cache line under the MSI protocol: directory, one controller per    *)
(* agent and backing store, composed by DirectoryLineHarness.  The harness *)
(* is synchronous, as the MESI one, but it does not write the data of a    *)
(* downgraded owner back to the backing store.  The controller fixes the   *)
(* event of its fill when it misses, and does not look at the grant.       *)
(***************************************************************************)
EXTENDS CacheLine, FiniteSets

CONSTANT SnapshotAgents   \* bound: a harness with more agents is not snapshotted

VARIABLES
    agents,     \* the agents the harness was built for
    caches,     \* agent -> its controller's copy
    directory,  \* the directory's entry for the line
    backing,    \* the backing store's line
    response,   \* the last CPU response recorded
    saved       \* the last snapshot of the harness

vars == <<agents, caches, directory, backing, response, saved>>

StableStates == {"Invalid", "Shared", "Modified"}
TransientStates == {"InvalidToShared", "InvalidToModified", "SharedToModified"}

\* rem6-protocol-msi: the state after an event; "Error" is Err
Transition(state, event) ==
    CASE state = "Invalid" /\ event = "CpuRead" -> "InvalidToShared"
      [] state = "Invalid" /\ event = "CpuWrite" -> "InvalidToModified"
      [] state = "Invalid" /\ event \in {"SnoopRead", "SnoopWrite"} -> "Invalid"
      [] state = "Shared" /\ event \in {"CpuRead", "SnoopRead"} -> "Shared"
      [] state = "Shared" /\ event = "CpuWrite" -> "SharedToModified"
      [] state = "Modified" /\ event \in {"CpuRead", "CpuWrite"} -> "Modified"
      [] state = "Modified" /\ event = "SnoopRead" -> "Shared"
      [] state \in {"Shared", "Modified"} /\ event = "SnoopWrite" -> "Invalid"
      [] state = "InvalidToShared" /\ event = "DataShared" -> "Shared"
      [] state \in {"InvalidToModified", "SharedToModified"} /\ event = "DataModified" ->
            "Modified"
      [] OTHER -> "Error"

(***************************************************************************)
(* The directory's entry is an owner or a set of sharers.                  *)
(***************************************************************************)
NoEntry == [owner |-> NoAgent, sharers |-> {}]
Owned(a) == [owner |-> a, sharers |-> {}]

Decision(entry, snooped, event, source, supplier) ==
    [entry |-> entry, snooped |-> snooped, event |-> event, granted |-> TRUE,
     source |-> source, supplier |-> supplier]

AcceptReadShared(d, a) ==
    CASE d.owner = a -> Decision(d, {}, "SnoopRead", "NoData", NoAgent)
      [] d.owner \notin {a, NoAgent} ->
            Decision([owner |-> NoAgent, sharers |-> d.sharers \union {d.owner, a}],
                     {d.owner}, "SnoopRead", "ModifiedOwner", d.owner)
      [] d.owner = NoAgent ->
            Decision([d EXCEPT !.sharers = @ \union {a}], {}, "SnoopRead",
                     "BackingMemory", NoAgent)

AcceptReadUnique(d, a) ==
    Decision(Owned(a), (d.sharers \union {d.owner}) \ {a, NoAgent}, "SnoopWrite",
             CASE d.owner \notin {a, NoAgent} -> "ModifiedOwner"
               [] d.owner = a \/ (d.owner = NoAgent /\ a \in d.sharers) -> "NoData"
               [] d.owner = NoAgent /\ a \notin d.sharers -> "BackingMemory",
             IF d.owner \notin {a, NoAgent} THEN d.owner ELSE NoAgent)

AcceptUpgrade(d, a) ==
    CASE d.owner = a -> Decision(d, {}, "SnoopWrite", "NoData", NoAgent)
      [] d.owner # a /\ a \in d.sharers ->
            Decision(Owned(a), d.sharers \ {a}, "SnoopWrite", "NoData", NoAgent)
      [] d.owner # a /\ a \notin d.sharers ->    \* UpgradeRequesterNotSharer
            [Decision(d, {}, "SnoopWrite", "NoData", NoAgent) EXCEPT !.granted = FALSE]

Accept(d, a, operation) ==
    CASE operation = "ReadShared" -> AcceptReadShared(d, a)
      [] operation = "ReadUnique" -> AcceptReadUnique(d, a)
      [] operation = "Upgrade" -> AcceptUpgrade(d, a)

(***************************************************************************)
(* The controller.                                                         *)
(***************************************************************************)
DownstreamRequest(r, before) ==
    CASE CpuEvent(r) = "CpuRead" -> "ReadShared"
      [] CpuEvent(r) = "CpuWrite" /\ before = "Shared" -> "Upgrade"
      [] CpuEvent(r) = "CpuWrite" /\ before # "Shared" -> "ReadUnique"

PendingFillEvent(waiting) ==
    IF waiting = "InvalidToShared" THEN "DataShared" ELSE "DataModified"

AcceptSnoop(cache, event) ==
    LET after == Transition(cache.state, event)
    IN  IF after = "Invalid"
          THEN EmptyCache
          ELSE [cache EXCEPT !.state = after]

AcceptFill(cache, a, r, event, data) ==
    LET moved == [cache EXCEPT !.state = Transition(@, event)]
    IN  CompleteCpuRequest(IF data = NoData THEN moved ELSE InstallData(moved, data), a, r)

(***************************************************************************)
(* The harness.                                                            *)
(***************************************************************************)
\* a controller's snapshot leaves its reservations out
HarnessSnapshot ==
    [caches |-> [a \in Agents |-> [caches[a] EXCEPT !.reservation = NoGranule]],
     directory |-> directory, backing |-> backing, response |-> response]

Init ==
    /\ agents \in SUBSET Agents
    /\ caches = [a \in Agents |-> EmptyCache]
    /\ directory = NoEntry
    /\ backing \in Lines
    /\ response = NoResponse
    /\ saved = HarnessSnapshot

\* submit_cpu_request when the controller answers at once
Hit(a, r) ==
    LET after == Transition(caches[a].state, CpuEvent(r))
        done == CompleteCpuRequest([caches[a] EXCEPT !.state = after], a, r)
    IN  /\ after \notin TransientStates
        /\ caches' = [caches EXCEPT ![a] = done.cache]
        /\ response' = done.response
        /\ UNCHANGED <<agents, directory, backing, saved>>

\* directory_response: the caches after the snoops, and the data of the response
Snooped(decision) ==
    [b \in Agents |-> IF b \in decision.snooped
                        THEN AcceptSnoop(caches[b], decision.event)
                        ELSE caches[b]]

GrantData(decision) ==
    CASE decision.source = "ModifiedOwner" -> caches[decision.supplier].data
      [] decision.source = "BackingMemory" -> backing
      [] decision.source = "NoData" -> NoData

\* submit_cpu_request when the request goes downstream
Miss(a, r) ==
    LET before == caches[a].state
        waiting == Transition(before, CpuEvent(r))
        decision == Accept(directory, a, DownstreamRequest(r, before))
        event == IF decision.granted THEN PendingFillEvent(waiting) ELSE "Error"
        done == AcceptFill([caches[a] EXCEPT !.state = waiting], a, r, event,
                           GrantData(decision))
    IN  /\ waiting \in TransientStates
        /\ directory' = decision.entry
        /\ caches' = [Snooped(decision) EXCEPT ![a] = done.cache]
        /\ response' = done.response
        /\ UNCHANGED <<agents, backing, saved>>

Snapshot ==
    /\ Cardinality(agents) <= SnapshotAgents
    /\ saved' = HarnessSnapshot
    /\ UNCHANGED <<agents, caches, directory, backing, response>>

Restore ==
    /\ caches' = saved.caches
    /\ directory' = saved.directory
    /\ backing' = saved.backing
    /\ response' = saved.response
    /\ UNCHANGED <<agents, saved>>

Next ==
    \/ \E a \in agents, r \in Requests : Hit(a, r) \/ Miss(a, r)
    \/ Snapshot
    \/ Restore

Spec == Init /\ [][Next]_vars

-----------------------------------------------------------------------------
\* Between two calls of submit_cpu_request every controller is in a stable state, so no request
\* met LineBusy, no event was refused by the protocol, and no directory decision failed.
TypeOK ==
    /\ caches \in [Agents -> Caches(StableStates)]
    /\ directory \in [owner : Agents \union {NoAgent}, sharers : SUBSET Agents]
    /\ backing \in Lines

Holding(states) == {a \in Agents : caches[a].state \in states}

\* DirectoryLineSnapshot::validate: at most one Modified copy, and none beside a Shared one.
SingleWriter ==
    /\ \A a, b \in Holding({"Modified"}) : a = b
    /\ Holding({"Modified"}) = {} \/ Holding({"Shared"}) = {}

\* The directory entry names exactly the copies that exist.
DirectoryMatchesCaches ==
    /\ Holding({"Modified"}) = {directory.owner} \ {NoAgent}
    /\ Holding({"Shared"}) = directory.sharers
=============================================================================
