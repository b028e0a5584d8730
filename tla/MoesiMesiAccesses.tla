------------------------- MODULE MoesiMesiAccesses --------------------------
(***************************************************************************)
(* The accesses of the MOESI and the MESI line.  Those of the MESI line    *)
(* are proved in MesiLineProofs; they are carried over to the instance of  *)
(* MesiLine in CoherentLine.                                               *)
(***************************************************************************)
EXTENDS MsiChiAccesses

-----------------------------------------------------------------------------
(* The MOESI line                                                          *)

LEMMA MoesiTransitions ==
    /\ Moesi!Transition("Invalid", "CpuRead") = "InvalidToExclusive"
    /\ Moesi!Transition("Invalid", "CpuWrite") = "InvalidToModified"
    /\ Moesi!Transition("Shared", "CpuRead") = "Shared"
    /\ Moesi!Transition("Shared", "CpuWrite") = "SharedToModified"
    /\ Moesi!Transition("Exclusive", "CpuRead") = "Exclusive"
    /\ Moesi!Transition("Exclusive", "CpuWrite") = "Modified"
    /\ Moesi!Transition("Owned", "CpuRead") = "Owned"
    /\ Moesi!Transition("Owned", "CpuWrite") = "OwnedToModified"
    /\ Moesi!Transition("Modified", "CpuRead") = "Modified"
    /\ Moesi!Transition("Modified", "CpuWrite") = "Modified"
    /\ Moesi!Transition("Exclusive", "SnoopRead") = "Shared"
    /\ Moesi!Transition("Owned", "SnoopRead") = "Owned"
    /\ Moesi!Transition("Modified", "SnoopRead") = "Owned"
    /\ \A state \in {"Shared", "Exclusive", "Owned", "Modified"} :
          Moesi!Transition(state, "SnoopWrite") = "Invalid"
    /\ Moesi!Transition("InvalidToExclusive", "DataShared") = "Shared"
    /\ Moesi!Transition("InvalidToExclusive", "DataExclusive") = "Exclusive"
    /\ \A waiting \in {"InvalidToModified", "SharedToModified", "OwnedToModified"} :
          Moesi!Transition(waiting, "DataModified") = "Modified"
BY DEF Moesi!Transition, Moesi!StableStates, Moesi!TransientStates

LEMMA MoesiHit ==
    ASSUME MoesiInv(caches, directory, backing), NEW a \in Agents, NEW r \in Requests,
           Moesi!Hit(a, r)
    PROVE  LET state == Moesi!Transition(caches[a].state, CpuEvent(r))
           IN  /\ caches[a].state \in {"Shared", "Exclusive", "Owned", "Modified"}
               /\ \/ state = caches[a].state
                  \/ state = "Modified" /\ caches[a].state = "Exclusive"
               /\ Completes(HitCopies(a, state), a, r)
               /\ UNCHANGED <<agents, directory, backing, saved>>
<1> DEFINE after == Moesi!Transition(caches[a].state, CpuEvent(r))
<1>1. /\ caches \in [Agents -> Caches(Moesi!StableStates)]
      /\ caches[a].state \in Moesi!StableStates
  BY DEF MoesiInv, CopiesOk, Caches
<1>2. /\ after \notin Moesi!TransientStates
      /\ caches' = [caches EXCEPT ![a] =
            CompleteCpuRequest([caches[a] EXCEPT !.state = after], a, r).cache]
      /\ response' = CompleteCpuRequest([caches[a] EXCEPT !.state = after], a, r).response
      /\ UNCHANGED <<agents, directory, backing, saved>>
  BY MoesiShares, MoesiSharesCompletion, Zenon DEF Moesi!Hit
<1>3. CpuEvent(r) = IF r.op \in ReadOperations THEN "CpuRead" ELSE "CpuWrite"
  BY Zenon DEF CpuEvent
<1>4. /\ caches[a].state \in {"Shared", "Exclusive", "Owned", "Modified"}
      /\ \/ after = caches[a].state
         \/ after = "Modified" /\ caches[a].state = "Exclusive"
  <2>1. CASE r.op \in ReadOperations
    BY <1>1, <1>2, <1>3, <2>1, MoesiTransitions DEF Moesi!TransientStates, Moesi!StableStates
  <2>2. CASE r.op \notin ReadOperations
    BY <1>1, <1>2, <1>3, <2>2, MoesiTransitions DEF Moesi!TransientStates, Moesi!StableStates
  <2> QED BY <2>1, <2>2
<1>5. Completes(HitCopies(a, after), a, r)
  <2> HIDE DEF after
  <2> QED BY <1>1, <1>2, HitCompletes, Zenon
<1> QED BY <1>2, <1>4, <1>5, Zenon

\* What a miss asks the directory for, what the directory decides, the state and the data the
\* fill brings, and the copy it leaves before the request completes.
MoesiAsked(a, r) == Moesi!DownstreamRequest(r, caches[a].state)

MoesiDecision(a, r) == Moesi!Accept(directory, a, MoesiAsked(a, r))

MoesiGranted(a, r) == Moesi!GrantData(MoesiDecision(a, r), MoesiAsked(a, r))

MoesiFilled(a, r) ==
    Moesi!Transition(Moesi!Transition(caches[a].state, CpuEvent(r)),
                     Moesi!FillEvent(MoesiDecision(a, r)))

MoesiCopy(a, r) ==
    IF MoesiGranted(a, r) = NoData THEN Moved(caches[a], MoesiFilled(a, r))
                                   ELSE FilledCopy(MoesiFilled(a, r), MoesiGranted(a, r))

LEMMA MoesiMiss ==
    ASSUME MoesiInv(caches, directory, backing), NEW a \in Agents, NEW r \in Requests,
           Moesi!Miss(a, r)
    PROVE  /\ directory' = MoesiDecision(a, r).entry
           /\ Completes([Moesi!Snooped(MoesiDecision(a, r)) EXCEPT ![a] = MoesiCopy(a, r)], a, r)
           /\ UNCHANGED <<agents, backing, saved>>
<1> DEFINE waiting == Moesi!Transition(caches[a].state, CpuEvent(r))
           operation == MoesiAsked(a, r)
           decision == MoesiDecision(a, r)
           event == Moesi!FillEvent(decision)
           state == MoesiFilled(a, r)
           data == MoesiGranted(a, r)
           copy == MoesiCopy(a, r)
           before == Moved(caches[a], waiting)
           done == Moesi!AcceptFill(before, a, r, event, data)
<1>0. /\ state = Moesi!Transition(waiting, event)
      /\ copy = IF data = NoData THEN Moved(caches[a], state) ELSE FilledCopy(state, data)
  BY Zenon DEF MoesiFilled, MoesiCopy
<1>1. /\ directory' = decision.entry
      /\ caches' = [Moesi!Snooped(decision) EXCEPT ![a] = done.cache]
      /\ response' = done.response
      /\ UNCHANGED <<agents, backing, saved>>
  BY MoesiShares, Zenon DEF Moesi!Miss, Moved, MoesiAsked, MoesiDecision, MoesiGranted
<1> HIDE DEF waiting, operation, decision, state, data, copy
<1>2. caches[a] \in Caches(Moesi!StableStates)
  BY DEF MoesiInv, CopiesOk
<1>3. before.state = waiting
  BY <1>2 DEF Caches, Moved
<1>4. /\ Moved(before, state) = Moved(caches[a], state)
      /\ InstallData(Moved(caches[a], state), data) = FilledCopy(state, data)
  <2>1. Moved(before, state) = Moved(caches[a], state)
    BY <1>2, FillMoves
  <2>2. InstallData(Moved(caches[a], state), data) = FilledCopy(state, data)
    BY <1>2, FillInstalls
  <2> QED BY <2>1, <2>2
<1>5. done = CompleteCpuRequest(copy, a, r)
  <2> HIDE DEF event, before
  <2>1. done = Moesi!CompleteCpuRequest(
                   IF data = NoData THEN Moved(before, state)
                                    ELSE InstallData(Moved(before, state), data), a, r)
    BY <1>0, <1>3, MoesiShares, Zenon DEF Moesi!AcceptFill, event, Moved
  <2>2. copy = IF data = NoData THEN Moved(before, state)
                                ELSE InstallData(Moved(before, state), data)
    BY <1>0, <1>4, Zenon
  <2> QED BY <2>1, <2>2, MoesiSharesCompletion, Zenon
<1>6. DOMAIN Moesi!Snooped(decision) = Agents
  BY Zenon DEF Moesi!Snooped
<1> HIDE DEF done
<1>7. Completes([Moesi!Snooped(decision) EXCEPT ![a] = copy], a, r)
  BY <1>1, <1>5, <1>6, FillCompletes, Zenon
<1> QED BY <1>1, <1>7, Zenon DEF decision, copy

\* Completing the request keeps the MOESI invariant: the states stay as prepared.
LEMMA MoesiCompletes ==
    ASSUME NEW a \in Agents, NEW r \in Requests, NEW ready,
           Prepared(Moesi!StableStates, ready, a, r), Completes(ready, a, r),
           MoesiMatch(ready, directory'), backing' \in Lines
    PROVE  MoesiInv(caches, directory, backing)'
<1>1. /\ CopiesOk(caches', Moesi!StableStates)
      /\ \A b \in Agents : caches'[b].state = ready[b].state
  <2>1. CopiesOk(ready, Moesi!StableStates) /\ ready[a].data \in Lines
    BY Zenon DEF Prepared
  <2> QED BY <2>1, CompletesCopies
<1>2. MoesiMatch(caches, directory)'
  BY <1>1 DEF MoesiMatch, MoesiEntries
<1>3. CopiesOk(caches, Moesi!StableStates)'
  BY <1>1 DEF CopiesOk, Moesi!StableStates
<1> QED BY <1>2, <1>3 DEF MoesiInv

\* A hit of the MOESI line: at most an Exclusive copy becomes Modified.
LEMMA MoesiHitStep ==
    ASSUME MoesiInv(caches, directory, backing), NEW a \in Agents, NEW r \in Requests,
           Moesi!Hit(a, r)
    PROVE  \E ready : /\ Prepared(Moesi!StableStates, ready, a, r) /\ Completes(ready, a, r)
                      /\ MoesiInv(caches, directory, backing)'
                      /\ UNCHANGED <<agents, saved>>
<1> DEFINE state == Moesi!Transition(caches[a].state, CpuEvent(r))
           ready == HitCopies(a, state)
<1>1. /\ caches[a].state \in {"Shared", "Exclusive", "Owned", "Modified"}
      /\ \/ state = caches[a].state
         \/ state = "Modified" /\ caches[a].state = "Exclusive"
      /\ Completes(ready, a, r)
      /\ UNCHANGED <<agents, directory, backing, saved>>
  BY MoesiHit, Zenon
<1> HIDE DEF state
<1>2. /\ CopiesOk(ready, Moesi!StableStates) /\ ready[a].data \in Lines
      /\ \A b \in Agents :
            /\ ready[b].state = IF b = a THEN state ELSE caches[b].state
            /\ ready[b].data = caches[b].data
            /\ ready[b].reservation = caches[b].reservation
  <2>1. CopiesOk(caches, Moesi!StableStates) /\ state \in Moesi!StableStates /\ state # "Invalid"
    BY <1>1 DEF MoesiInv, Moesi!StableStates
  <2> QED BY <1>1, <2>1, HitShape
<1> HIDE DEF ready
<1>3. Prepared(Moesi!StableStates, ready, a, r)
  BY <1>2, Zenon DEF Prepared
<1>4. MoesiMatch(ready, directory)
  BY <1>1, <1>2 DEF MoesiInv, MoesiMatch, MoesiEntries
<1>5. MoesiInv(caches, directory, backing)'
  <2>1. MoesiMatch(ready, directory') /\ backing' \in Lines
    BY <1>1, <1>4, Zenon DEF MoesiInv
  <2> QED BY <1>1, <1>3, <2>1, MoesiCompletes
<1> QED BY <1>1, <1>3, <1>5, Zenon

\* What the entry says about the copies of the MOESI line.
LEMMA MoesiCopies ==
    ASSUME MoesiInv(caches, directory, backing)
    PROVE  /\ directory \in MoesiEntries /\ backing \in Lines
           /\ caches \in [Agents -> Caches(Moesi!StableStates)]
           /\ directory.owner = NoAgent <=> directory.state = "Invalid"
           /\ \A b \in Agents :
                 /\ caches[b].state # "Invalid"
                       <=> b \in directory.sharers \/ b = directory.owner
                 /\ caches[b].state \in {"Shared", "Exclusive", "Owned", "Modified"}
                       <=> b \in directory.sharers \/ b = directory.owner
                 /\ caches[b].state # "Invalid" => caches[b].data \in Lines
           /\ directory.owner # NoAgent =>
                 /\ directory.owner \in Agents
                 /\ caches[directory.owner].state \in {"Exclusive", "Owned", "Modified"}
                 /\ caches[directory.owner].data \in Lines
<1>1. /\ directory \in MoesiEntries /\ backing \in Lines
      /\ caches \in [Agents -> Caches(Moesi!StableStates)]
      /\ directory.owner = NoAgent <=> directory.state = "Invalid"
  BY DEF MoesiInv, MoesiMatch, CopiesOk
<1>2. ASSUME NEW b \in Agents
      PROVE  /\ caches[b].state # "Invalid" <=> b \in directory.sharers \/ b = directory.owner
             /\ caches[b].state # "Invalid" => caches[b].data \in Lines
             /\ caches[b].state \in Moesi!StableStates
  <2>1. caches[b] \in Caches(Moesi!StableStates)
    BY <1>1
  <2>2. /\ caches[b].state # "Invalid" <=> b \in directory.sharers \/ b = directory.owner
        /\ caches[b].state # "Invalid" => caches[b].data # NoData
    BY DEF MoesiInv, MoesiMatch, CopiesOk
  <2> QED BY <2>1, <2>2 DEF Caches
<1>3. ASSUME NEW b \in Agents
      PROVE  caches[b].state \in {"Shared", "Exclusive", "Owned", "Modified"}
                <=> b \in directory.sharers \/ b = directory.owner
  BY <1>2 DEF Moesi!StableStates
<1>4. ASSUME directory.owner # NoAgent
      PROVE  /\ directory.owner \in Agents
             /\ caches[directory.owner].state \in {"Exclusive", "Owned", "Modified"}
  <2>1. /\ directory.owner \in Agents /\ directory.state # "Invalid"
        /\ directory.state \in {"Exclusive", "Owned", "Modified"}
    BY <1>1, <1>4 DEF MoesiEntries
  <2>2. \/ caches[directory.owner].state = directory.state
        \/ caches[directory.owner].state = "Modified"
    BY <2>1 DEF MoesiInv, MoesiMatch
  <2> QED BY <2>1, <2>2
<1>5. directory.owner # NoAgent => caches[directory.owner].data \in Lines
  BY <1>2, <1>4
<1> QED BY <1>1, <1>2, <1>3, <1>4, <1>5, Zenon

\* A read that misses: the owner is downgraded and supplies the line, or the backing store does;
\* the first reader is Exclusive, and an Exclusive owner becomes a sharer of the entry, in
\* whatever state it really was.
LEMMA MoesiRead ==
    ASSUME MoesiInv(caches, directory, backing), NEW a \in Agents, NEW r \in Requests,
           Moesi!Miss(a, r), r.op \in ReadOperations
    PROVE  LET o == directory.owner
               line == IF o = NoAgent THEN backing ELSE caches[o].data
               state == IF o = NoAgent /\ directory.sharers = {} THEN "Exclusive" ELSE "Shared"
               ownerState == IF caches[o].state = "Exclusive" THEN "Shared" ELSE "Owned"
               entry == IF o = NoAgent
                          THEN IF directory.sharers = {}
                                 THEN Moesi!Entry(a, "Exclusive", {})
                                 ELSE Moesi!Entry(NoAgent, "Invalid", directory.sharers \union {a})
                          ELSE IF directory.state = "Exclusive"
                                 THEN Moesi!Entry(NoAgent, "Invalid",
                                                  directory.sharers \union {o, a})
                                 ELSE Moesi!Entry(o, "Owned", directory.sharers \union {a})
           IN  /\ caches[a].state = "Invalid" /\ o # a
               /\ directory' = entry
               /\ Completes(ReadCopies(o, ownerState, a, FilledCopy(state, line)), a, r)
               /\ UNCHANGED <<agents, backing, saved>>
<1> DEFINE o == directory.owner
           line == IF o = NoAgent THEN backing ELSE caches[o].data
           state == IF o = NoAgent /\ directory.sharers = {} THEN "Exclusive" ELSE "Shared"
           ownerState == IF caches[o].state = "Exclusive" THEN "Shared" ELSE "Owned"
           entry == IF o = NoAgent
                      THEN IF directory.sharers = {}
                             THEN Moesi!Entry(a, "Exclusive", {})
                             ELSE Moesi!Entry(NoAgent, "Invalid", directory.sharers \union {a})
                      ELSE IF directory.state = "Exclusive"
                             THEN Moesi!Entry(NoAgent, "Invalid",
                                              directory.sharers \union {o, a})
                             ELSE Moesi!Entry(o, "Owned", directory.sharers \union {a})
<1>0. /\ o = directory.owner
      /\ line = IF o = NoAgent THEN backing ELSE caches[o].data
      /\ state = IF o = NoAgent /\ directory.sharers = {} THEN "Exclusive" ELSE "Shared"
      /\ ownerState = IF caches[o].state = "Exclusive" THEN "Shared" ELSE "Owned"
      /\ entry = IF o = NoAgent
                   THEN IF directory.sharers = {}
                          THEN Moesi!Entry(a, "Exclusive", {})
                          ELSE Moesi!Entry(NoAgent, "Invalid", directory.sharers \union {a})
                   ELSE IF directory.state = "Exclusive"
                          THEN Moesi!Entry(NoAgent, "Invalid", directory.sharers \union {o, a})
                          ELSE Moesi!Entry(o, "Owned", directory.sharers \union {a})
  BY Zenon
<1> USE <1>0
<1> HIDE DEF o, line, state, ownerState, entry
<1> DEFINE decision == Moesi!Decision(entry, IF o = NoAgent THEN {} ELSE {o}, "SnoopRead", state,
                                      IF o = NoAgent THEN "BackingMemory" ELSE "OwnerCache", o)
           event == IF state = "Shared" THEN "DataShared" ELSE "DataExclusive"
           copy == FilledCopy(state, line)
<1>1. /\ CpuEvent(r) = "CpuRead"
      /\ Moesi!Transition(caches[a].state, CpuEvent(r)) \in Moesi!TransientStates
      /\ caches[a].state \in Moesi!StableStates
  <2>1. CpuEvent(r) = "CpuRead"
    BY Zenon DEF CpuEvent
  <2>2. Moesi!Transition(caches[a].state, CpuEvent(r)) \in Moesi!TransientStates
    BY MoesiShares, Zenon DEF Moesi!Miss
  <2> QED BY <2>1, <2>2, MoesiCopies DEF Caches
<1>2. /\ caches[a].state = "Invalid"
      /\ Moesi!Transition(caches[a].state, CpuEvent(r)) = "InvalidToExclusive"
  BY <1>1, MoesiTransitions DEF Moesi!StableStates, Moesi!TransientStates
<1>3. /\ o # a /\ a \notin directory.sharers /\ line \in Lines /\ line # NoData
      /\ directory \in MoesiEntries /\ (o = NoAgent => directory.state = "Invalid")
      /\ o # NoAgent => o \in Agents /\ caches[o].state \in {"Exclusive", "Owned", "Modified"}
  BY <1>2, MoesiCopies, NoDataIsNoLine
<1>4. Moesi!DownstreamRequest(r, caches[a].state) = "ReadShared"
  BY <1>1, MoesiShares DEF Moesi!DownstreamRequest
<1>5. Moesi!Accept(directory, a, "ReadShared") = decision
  <2>1. Moesi!Accept(directory, a, "ReadShared") = Moesi!AcceptReadShared(directory, a)
    BY DEF Moesi!Accept
  <2>2. CASE o = NoAgent /\ directory.sharers = {}
    <3>1. Moesi!AcceptReadShared(directory, a)
            = Moesi!Decision(entry, {}, "SnoopRead", "Exclusive", "BackingMemory", NoAgent)
      BY <1>3, <2>2 DEF Moesi!AcceptReadShared
    <3> QED BY <2>1, <2>2, <3>1, Zenon
  <2>3. CASE o = NoAgent /\ directory.sharers # {}
    <3>1. Moesi!AcceptReadShared(directory, a)
            = Moesi!Decision([directory EXCEPT !.sharers = @ \union {a}], {}, "SnoopRead",
                             "Shared", "BackingMemory", NoAgent)
      BY <1>3, <2>3 DEF Moesi!AcceptReadShared
    <3>2. [directory EXCEPT !.sharers = @ \union {a}] = entry
      <4>1. [directory EXCEPT !.sharers = @ \union {a}]
              = [owner |-> directory.owner, state |-> directory.state,
                 sharers |-> directory.sharers \union {a}]
        BY <1>3 DEF MoesiEntries
      <4>2. entry = Moesi!Entry(NoAgent, "Invalid", directory.sharers \union {a})
        BY <2>3
      <4> QED BY <1>3, <2>3, <4>1, <4>2, Zenon DEF Moesi!Entry
    <3> QED BY <2>1, <2>3, <3>1, <3>2, Zenon
  <2>4. CASE o # NoAgent
    <3>1. Moesi!AcceptReadShared(directory, a)
            = Moesi!Decision(IF directory.state = "Exclusive"
                               THEN Moesi!Entry(NoAgent, "Invalid", directory.sharers \union {o, a})
                               ELSE Moesi!Entry(o, "Owned", directory.sharers \union {a}),
                             {o}, "SnoopRead", "Shared", "OwnerCache", o)
      BY <1>3, <2>4 DEF Moesi!AcceptReadShared
    <3> QED BY <2>1, <2>4, <3>1, Zenon
  <2> QED BY <2>2, <2>3, <2>4, Zenon
<1>6. /\ decision.entry = entry /\ Moesi!FillEvent(decision) = event
      /\ decision.snooped = (IF o = NoAgent THEN {} ELSE {o}) /\ decision.event = "SnoopRead"
      /\ Moesi!GrantData(decision, "ReadShared") = line
  <2>1. /\ decision.entry = entry /\ decision.event = "SnoopRead"
        /\ decision.grant = state
        /\ decision.snooped = (IF o = NoAgent THEN {} ELSE {o})
        /\ decision.source = (IF o = NoAgent THEN "BackingMemory" ELSE "OwnerCache")
        /\ decision.supplier = o
    BY DEF Moesi!Decision
  <2> HIDE DEF decision
  <2>2. Moesi!FillEvent(decision) = event
    BY <2>1 DEF Moesi!FillEvent
  <2>3. Moesi!GrantData(decision, "ReadShared") = line
    BY <2>1 DEF Moesi!GrantData
  <2> QED BY <2>1, <2>2, <2>3, Zenon
<1> HIDE DEF decision
<1>7. Moesi!Transition("InvalidToExclusive", event) = state
  BY MoesiTransitions
<1>8. [Moesi!Snooped(decision) EXCEPT ![a] = copy] = ReadCopies(o, ownerState, a, copy)
  <2>1. ASSUME NEW b \in Agents, b # a
        PROVE  Moesi!Snooped(decision)[b]
                  = IF b = o THEN [caches[b] EXCEPT !.state = ownerState] ELSE caches[b]
    <3>1. CASE b = o
      <4>1. b \in decision.snooped /\ caches[b].state \in {"Exclusive", "Owned", "Modified"}
        BY <1>3, <1>6, <3>1, LineAssumption
      <4>2. Moesi!Transition(caches[b].state, "SnoopRead") = ownerState
        BY <3>1, <4>1, MoesiTransitions
      <4>3. Moesi!AcceptSnoop(caches[b], "SnoopRead") = [caches[b] EXCEPT !.state = ownerState]
        BY <4>2 DEF Moesi!AcceptSnoop
      <4> QED BY <1>6, <3>1, <4>1, <4>3, Zenon DEF Moesi!Snooped
    <3>2. CASE b # o
      <4>1. b \notin decision.snooped
        BY <1>6, <3>2
      <4> QED BY <3>2, <4>1, Zenon DEF Moesi!Snooped
    <3> QED BY <3>1, <3>2
  <2>2. Moesi!Snooped(decision) = [b \in Agents |-> Moesi!Snooped(decision)[b]]
    BY Zenon DEF Moesi!Snooped
  <2> HIDE DEF copy
  <2> QED BY <2>1, <2>2, Zenon DEF ReadCopies
<1>9. /\ directory' = decision.entry
      /\ Completes([Moesi!Snooped(decision) EXCEPT ![a] = copy], a, r)
      /\ UNCHANGED <<agents, backing, saved>>
  <2>1. copy = IF line = NoData THEN Moved(caches[a], state) ELSE FilledCopy(state, line)
    BY <1>3, Zenon
  <2> HIDE DEF event, copy, state, line
  <2>2. MoesiAsked(a, r) = "ReadShared"
    BY <1>2, <1>4, Zenon DEF MoesiAsked
  <2>3. MoesiDecision(a, r) = decision
    BY <1>5, <1>6, <2>2, Zenon DEF MoesiDecision
  <2>4. MoesiGranted(a, r) = line /\ MoesiFilled(a, r) = state
    BY <1>2, <1>4, <1>6, <1>7, <2>2, <2>3, Zenon DEF MoesiGranted, MoesiFilled
  <2>5. MoesiCopy(a, r) = copy
    BY <2>1, <2>4, Zenon DEF MoesiCopy
  <2> QED BY <2>3, <2>5, MoesiMiss, Zenon
<1> QED BY <1>2, <1>3, <1>6, <1>8, <1>9, Zenon DEF o, line, state, ownerState, entry

\* A read miss of the MOESI line.
LEMMA MoesiReadStep ==
    ASSUME MoesiInv(caches, directory, backing), NEW a \in Agents, NEW r \in Requests,
           Moesi!Miss(a, r), r.op \in ReadOperations
    PROVE  \E ready : /\ Prepared(Moesi!StableStates, ready, a, r) /\ Completes(ready, a, r)
                      /\ MoesiInv(caches, directory, backing)'
                      /\ UNCHANGED <<agents, saved>>
<1> DEFINE o == directory.owner
           line == IF o = NoAgent THEN backing ELSE caches[o].data
           state == IF o = NoAgent /\ directory.sharers = {} THEN "Exclusive" ELSE "Shared"
           ownerState == IF caches[o].state = "Exclusive" THEN "Shared" ELSE "Owned"
           entry == IF o = NoAgent
                      THEN IF directory.sharers = {}
                             THEN Moesi!Entry(a, "Exclusive", {})
                             ELSE Moesi!Entry(NoAgent, "Invalid", directory.sharers \union {a})
                      ELSE IF directory.state = "Exclusive"
                             THEN Moesi!Entry(NoAgent, "Invalid", directory.sharers \union {o, a})
                             ELSE Moesi!Entry(o, "Owned", directory.sharers \union {a})
           ready == ReadCopies(o, ownerState, a, FilledCopy(state, line))
<1>1. /\ caches[a].state = "Invalid" /\ o # a
      /\ directory' = entry
      /\ Completes(ready, a, r)
      /\ UNCHANGED <<agents, backing, saved>>
  BY MoesiRead, Zenon
<1>2. /\ line \in Lines
      /\ o # NoAgent => o \in Agents /\ caches[o].state \in {"Exclusive", "Owned", "Modified"}
      /\ o \in Agents => o # NoAgent
      /\ state \in {"Exclusive", "Shared"} /\ ownerState \in {"Shared", "Owned"}
  BY MoesiCopies, LineAssumption
<1>3. /\ CopiesOk(ready, Moesi!StableStates) /\ ready[a].data \in Lines
      /\ \A b \in Agents :
            /\ ready[b].state = IF b = a THEN state
                                ELSE IF b = o THEN ownerState ELSE caches[b].state
            /\ ready[b].data = IF b = a THEN line ELSE caches[b].data
            /\ ready[b].reservation = caches[b].reservation
  <2> HIDE DEF line, state, ownerState
  <2>1. /\ CopiesOk(caches, Moesi!StableStates)
        /\ state \in Moesi!StableStates /\ ownerState \in Moesi!StableStates
        /\ state # "Invalid" /\ ownerState # "Invalid"
        /\ o \in Agents => caches[o].state # "Invalid"
    BY <1>2 DEF MoesiInv, Moesi!StableStates
  <2> HIDE DEF o
  <2> QED BY <1>1, <1>2, <2>1, ReadShape
<1> HIDE DEF ready, line
<1>4. Prepared(Moesi!StableStates, ready, a, r)
  BY <1>3, Zenon DEF Prepared
<1>5. MoesiMatch(ready, entry)
  <2>1. /\ directory \in MoesiEntries /\ NoAgent \notin Agents
        /\ a \notin directory.sharers /\ o \notin directory.sharers
        /\ ready[a].state = state
        /\ o # NoAgent => ready[o].state = ownerState
        /\ \A b \in Agents \ {a, o} : ready[b].state = caches[b].state
    BY <1>1, <1>2, <1>3, LineAssumption DEF MoesiInv, MoesiMatch
  <2>2. ASSUME NEW b \in Agents
        PROVE  /\ caches[b].state # "Invalid" <=> b \in directory.sharers \/ b = o
               /\ b \in directory.sharers =>
                     \/ caches[b].state = "Shared"
                     \/ caches[b].state = "Owned" /\ o = NoAgent
               /\ b = o =>
                     \/ caches[b].state = directory.state
                     \/ caches[b].state = "Modified" /\ directory.state = "Exclusive"
    BY Zenon DEF MoesiInv, MoesiMatch
  <2>3. /\ o = NoAgent <=> directory.state = "Invalid"
        /\ directory.state = "Exclusive" => directory.sharers = {}
        /\ \A b, c \in Agents : caches[b].state = "Owned" /\ caches[c].state = "Owned" => b = c
    BY Zenon DEF MoesiInv, MoesiMatch
  <2>4. CASE o = NoAgent /\ directory.sharers = {}
    <3>1. entry = [owner |-> a, state |-> "Exclusive", sharers |-> {}] /\ state = "Exclusive"
      BY <2>4, Zenon DEF Moesi!Entry
    <3>2. ready[a].state = "Exclusive" /\ \A b \in Agents \ {a} : ready[b].state = "Invalid"
      BY <2>1, <2>2, <2>4, <3>1
    <3> HIDE DEF entry, state
    <3> QED BY <2>1, <3>1, <3>2 DEF MoesiMatch, MoesiEntries
  <2>5. CASE o = NoAgent /\ directory.sharers # {}
    <3>1. /\ entry = [owner |-> NoAgent, state |-> "Invalid",
                      sharers |-> directory.sharers \union {a}]
          /\ state = "Shared"
      BY <2>5, Zenon DEF Moesi!Entry
    <3>2. ready[a].state = "Shared" /\ \A b \in Agents \ {a} : ready[b].state = caches[b].state
      BY <2>1, <2>5, <3>1
    <3> HIDE DEF entry, state, ownerState
    <3>3. entry \in MoesiEntries
      BY <2>1, <3>1 DEF MoesiEntries
    <3>4. \A b, c \in Agents : ready[b].state = "Owned" /\ ready[c].state = "Owned" => b = c
      BY <2>3, <3>2
    <3>5. ASSUME NEW b \in Agents
          PROVE  /\ ready[b].state # "Invalid" <=> b \in directory.sharers \union {a}
                 /\ b \in directory.sharers \union {a} => ready[b].state \in {"Shared", "Owned"}
                 /\ b # NoAgent
      BY <2>1, <2>2, <2>5, <3>2
    <3>6. /\ entry.owner = NoAgent /\ entry.state = "Invalid"
          /\ entry.sharers = directory.sharers \union {a}
      BY <3>1
    <3>7. NoAgent \notin directory.sharers \union {a}
      BY <2>1 DEF MoesiEntries
    <3> QED BY <3>3, <3>4, <3>5, <3>6, <3>7 DEF MoesiMatch
  <2>6. CASE o # NoAgent /\ directory.state = "Exclusive"
    <3>1. entry = [owner |-> NoAgent, state |-> "Invalid", sharers |-> {o, a}] /\ state = "Shared"
      <4>1. directory.sharers \union {o, a} = {o, a}
        BY <2>3, <2>6
      <4> QED BY <2>6, <4>1, Zenon DEF Moesi!Entry
    <3>2. /\ ready[a].state = "Shared" /\ ready[o].state \in {"Shared", "Owned"}
          /\ \A b \in Agents \ {a, o} : ready[b].state = "Invalid"
      BY <1>2, <2>1, <2>2, <2>3, <2>6, <3>1
    <3> HIDE DEF entry, state, ownerState
    <3>3. entry \in MoesiEntries
      BY <1>2, <2>6, <3>1 DEF MoesiEntries
    <3>4. \A b, c \in Agents : ready[b].state = "Owned" /\ ready[c].state = "Owned" => b = c
      BY <3>2
    <3>5. ASSUME NEW b \in Agents
          PROVE  /\ ready[b].state # "Invalid" <=> b \in {o, a}
                 /\ b \in {o, a} => ready[b].state \in {"Shared", "Owned"}
                 /\ b # NoAgent
      BY <2>1, <3>2
    <3> QED BY <1>2, <2>1, <2>6, <3>1, <3>3, <3>4, <3>5 DEF MoesiMatch
  <2>7. CASE o # NoAgent /\ directory.state # "Exclusive"
    <3>1. /\ entry = [owner |-> o, state |-> "Owned", sharers |-> directory.sharers \union {a}]
          /\ state = "Shared"
      BY <2>7, Zenon DEF Moesi!Entry
    <3>2. /\ ready[a].state = "Shared" /\ ready[o].state = "Owned"
          /\ \A b \in Agents \ {a, o} : ready[b].state = caches[b].state
      BY <1>2, <2>1, <2>2, <2>7, <3>1
    <3> HIDE DEF entry, state, ownerState
    <3>3. entry \in MoesiEntries
      BY <1>2, <2>1, <2>7, <3>1 DEF MoesiEntries
    <3>4. ASSUME NEW b \in Agents
          PROVE  /\ ready[b].state # "Invalid" <=> b \in directory.sharers \union {a} \/ b = o
                 /\ b \in directory.sharers \union {a} => ready[b].state = "Shared"
                 /\ b = o => ready[b].state = "Owned"
      BY <1>1, <2>1, <2>2, <2>7, <3>2
    <3>5. \A b, c \in Agents : ready[b].state = "Owned" /\ ready[c].state = "Owned" => b = c
      BY <3>4
    <3>6. o \notin directory.sharers \union {a}
      BY <1>1, <2>1
    <3> QED BY <2>7, <3>1, <3>3, <3>4, <3>5, <3>6 DEF MoesiMatch
  <2> QED BY <2>4, <2>5, <2>6, <2>7, Zenon
<1> HIDE DEF entry, state, ownerState
<1>6. MoesiInv(caches, directory, backing)'
  <2>1. MoesiMatch(ready, directory') /\ backing' \in Lines
    BY <1>1, <1>5, Zenon DEF MoesiInv
  <2> QED BY <1>1, <1>4, <2>1, MoesiCompletes
<1> QED BY <1>1, <1>4, <1>6, Zenon

\* An Owned owner that writes: the entry's owner becomes Modified, and no other copy is touched.
LEMMA MoesiOwnedUpgrade ==
    ASSUME MoesiInv(caches, directory, backing), NEW a \in Agents, NEW r \in Requests,
           Moesi!Miss(a, r), r.op \notin ReadOperations, directory.owner = a
    PROVE  /\ caches[a].state = "Owned"
           /\ directory' = Moesi!Entry(a, "Modified", directory.sharers)
           /\ Completes(HitCopies(a, "Modified"), a, r)
           /\ UNCHANGED <<agents, backing, saved>>
<1> DEFINE decision == Moesi!Decision(Moesi!Entry(a, "Modified", directory.sharers), {},
                                      "SnoopWrite", "Modified", "NoData", NoAgent)
           copy == Moved(caches[a], "Modified")
<1>1. /\ CpuEvent(r) = "CpuWrite"
      /\ Moesi!Transition(caches[a].state, CpuEvent(r)) \in Moesi!TransientStates
      /\ caches[a].state \in {"Exclusive", "Owned", "Modified"}
  <2>1. CpuEvent(r) = "CpuWrite"
    BY Zenon DEF CpuEvent
  <2>2. Moesi!Transition(caches[a].state, CpuEvent(r)) \in Moesi!TransientStates
    BY MoesiShares, Zenon DEF Moesi!Miss
  <2>3. caches[a].state \in {"Exclusive", "Owned", "Modified"}
    BY MoesiCopies, LineAssumption
  <2> QED BY <2>1, <2>2, <2>3
<1>2. /\ caches[a].state = "Owned"
      /\ Moesi!Transition(caches[a].state, CpuEvent(r)) = "OwnedToModified"
  BY <1>1, MoesiTransitions DEF Moesi!TransientStates
<1>3. /\ Moesi!DownstreamRequest(r, caches[a].state) = "Upgrade"
      /\ Moesi!Accept(directory, a, "Upgrade") = decision
  <2>1. Moesi!DownstreamRequest(r, caches[a].state) = "Upgrade"
    BY <1>1, <1>2, MoesiShares DEF Moesi!DownstreamRequest
  <2>2. Moesi!Accept(directory, a, "Upgrade") = Moesi!AcceptUpgrade(directory, a)
    BY DEF Moesi!Accept
  <2>3. Moesi!AcceptUpgrade(directory, a)
          = Moesi!Decision([directory EXCEPT !.state = "Modified"], {}, "SnoopWrite", "Modified",
                           "NoData", NoAgent)
    BY DEF Moesi!AcceptUpgrade
  <2>4. [directory EXCEPT !.state = "Modified"] = Moesi!Entry(a, "Modified", directory.sharers)
    <3>1. directory \in MoesiEntries
      BY MoesiCopies
    <3>2. [directory EXCEPT !.state = "Modified"]
            = [owner |-> directory.owner, state |-> "Modified", sharers |-> directory.sharers]
      BY <3>1 DEF MoesiEntries
    <3> QED BY <3>2, Zenon DEF Moesi!Entry
  <2> QED BY <2>1, <2>2, <2>3, <2>4, Zenon
<1>4. /\ decision.entry = Moesi!Entry(a, "Modified", directory.sharers)
      /\ decision.snooped = {}
      /\ Moesi!FillEvent(decision) = "DataModified"
      /\ Moesi!GrantData(decision, "Upgrade") = NoData
  BY DEF Moesi!Decision, Moesi!FillEvent, Moesi!GrantData
<1>5. Moesi!Transition("OwnedToModified", "DataModified") = "Modified"
  BY MoesiTransitions
<1> HIDE DEF decision
<1>6. [Moesi!Snooped(decision) EXCEPT ![a] = copy] = HitCopies(a, "Modified")
  <2>1. Moesi!Snooped(decision) = caches
    <3>1. \A b \in Agents : b \notin decision.snooped
      BY <1>4
    <3>2. Moesi!Snooped(decision) = [b \in Agents |-> caches[b]]
      BY <3>1, Zenon DEF Moesi!Snooped
    <3>3. caches = [b \in Agents |-> caches[b]]
      BY MoesiCopies
    <3> QED BY <3>2, <3>3, Zenon
  <2> QED BY <2>1, Zenon DEF HitCopies, Moved
<1>7. /\ directory' = decision.entry
      /\ Completes([Moesi!Snooped(decision) EXCEPT ![a] = copy], a, r)
      /\ UNCHANGED <<agents, backing, saved>>
  <2>1. copy = IF NoData = NoData THEN Moved(caches[a], "Modified")
                                  ELSE FilledCopy("Modified", NoData)
    BY Zenon
  <2> HIDE DEF copy
  <2>2. MoesiAsked(a, r) = "Upgrade"
    BY <1>2, <1>3, <1>4, <1>5, Zenon DEF MoesiAsked
  <2>3. MoesiDecision(a, r) = decision
    BY <1>2, <1>3, <1>4, <1>5, <2>2, Zenon DEF MoesiDecision
  <2>4. MoesiGranted(a, r) = NoData /\ MoesiFilled(a, r) = "Modified"
    BY <1>2, <1>3, <1>4, <1>5, <2>2, <2>3, Zenon DEF MoesiGranted, MoesiFilled
  <2>5. MoesiCopy(a, r) = copy
    BY <2>1, <2>4, Zenon DEF MoesiCopy
  <2> QED BY <2>3, <2>5, MoesiMiss, Zenon
<1> QED BY <1>2, <1>4, <1>6, <1>7, Zenon

\* Any other write that misses: with a copy it upgrades, without one it takes the line from the
\* owner or the backing store; every other copy is emptied.
LEMMA MoesiWrite ==
    ASSUME MoesiInv(caches, directory, backing), NEW a \in Agents, NEW r \in Requests,
           Moesi!Miss(a, r), r.op \notin ReadOperations, directory.owner # a
    PROVE  LET o == directory.owner
               line == IF o = NoAgent THEN backing ELSE caches[o].data
               copy == IF caches[a].state # "Invalid" THEN Moved(caches[a], "Modified")
                                                      ELSE FilledCopy("Modified", line)
           IN  /\ line \in Lines
               /\ directory' = Moesi!Entry(a, "Modified", {})
               /\ Completes(OnlyCopy(a, copy), a, r)
               /\ UNCHANGED <<agents, backing, saved>>
<1> DEFINE o == directory.owner
           line == IF o = NoAgent THEN backing ELSE caches[o].data
           shares == caches[a].state # "Invalid"
           copy == IF shares THEN Moved(caches[a], "Modified") ELSE FilledCopy("Modified", line)
           others == (directory.sharers \union {o}) \ {a, NoAgent}
           operation == IF shares THEN "Upgrade" ELSE "ReadUnique"
           source == IF o # NoAgent THEN "OwnerCache"
                     ELSE IF shares THEN "NoData" ELSE "BackingMemory"
           decision == Moesi!Decision(Moesi!Entry(a, "Modified", {}), others, "SnoopWrite",
                                      "Modified", source, o)
           waiting == Moesi!Transition(caches[a].state, CpuEvent(r))
           data == IF shares THEN NoData ELSE line
<1>1. /\ CpuEvent(r) = "CpuWrite" /\ NoAgent # a
      /\ waiting \in Moesi!TransientStates
      /\ line \in Lines /\ line # NoData
      /\ a \in directory.sharers <=> shares
      /\ shares => caches[a].state \in {"Shared", "Owned"}
  <2>1. CpuEvent(r) = "CpuWrite" /\ NoAgent # a
    BY LineAssumption DEF CpuEvent
  <2>2. waiting \in Moesi!TransientStates
    BY MoesiShares, Zenon DEF Moesi!Miss
  <2>3. line \in Lines /\ line # NoData
    BY MoesiCopies, NoDataIsNoLine
  <2>4. a \in directory.sharers <=> shares
    BY MoesiCopies
  <2>5. shares => caches[a].state \in {"Shared", "Owned"}
    BY <2>4 DEF MoesiInv, MoesiMatch
  <2> QED BY <2>1, <2>2, <2>3, <2>4, <2>5
<1>2. waiting \in {"InvalidToModified", "SharedToModified", "OwnedToModified"}
  BY <1>1, MoesiTransitions
<1>3. Moesi!Transition(waiting, "DataModified") = "Modified"
  <2> HIDE DEF waiting
  <2> QED BY <1>2, MoesiTransitions
<1>4. /\ Moesi!DownstreamRequest(r, caches[a].state) = operation
      /\ Moesi!Accept(directory, a, operation) = decision
  <2>1. CASE shares
    <3>1. Moesi!DownstreamRequest(r, caches[a].state) = "Upgrade"
      BY <1>1, <2>1, MoesiShares DEF Moesi!DownstreamRequest
    <3>2. Moesi!Accept(directory, a, "Upgrade") = Moesi!AcceptUpgrade(directory, a)
      BY DEF Moesi!Accept
    <3>3. Moesi!AcceptUpgrade(directory, a)
            = Moesi!Decision(Moesi!Entry(a, "Modified", {}), others, "SnoopWrite", "Modified",
                             IF o = NoAgent THEN "NoData" ELSE "OwnerCache", o)
      <4> HIDE DEF others
      <4> QED BY <1>1, <2>1 DEF Moesi!AcceptUpgrade, others
    <3> HIDE DEF others
    <3> QED BY <2>1, <3>1, <3>2, <3>3, Zenon
  <2>2. CASE ~shares
    <3>1. Moesi!DownstreamRequest(r, caches[a].state) = "ReadUnique"
      BY <1>1, <2>2, MoesiShares DEF Moesi!DownstreamRequest
    <3>2. Moesi!Accept(directory, a, "ReadUnique") = Moesi!AcceptReadUnique(directory, a)
      BY DEF Moesi!Accept
    <3>3. Moesi!AcceptReadUnique(directory, a)
            = Moesi!Decision(Moesi!Entry(a, "Modified", {}), others, "SnoopWrite", "Modified",
                             IF o = NoAgent THEN "BackingMemory" ELSE "OwnerCache", o)
      <4> HIDE DEF others
      <4> QED BY <1>1, <2>2 DEF Moesi!AcceptReadUnique, others
    <3> HIDE DEF others
    <3> QED BY <2>2, <3>1, <3>2, <3>3, Zenon
  <2> QED BY <2>1, <2>2, Zenon
<1>5. /\ decision.entry = Moesi!Entry(a, "Modified", {})
      /\ decision.snooped = others /\ decision.event = "SnoopWrite"
      /\ Moesi!FillEvent(decision) = "DataModified"
      /\ Moesi!GrantData(decision, operation) = data
  <2> HIDE DEF others
  <2>1. /\ decision.entry = Moesi!Entry(a, "Modified", {}) /\ decision.event = "SnoopWrite"
        /\ decision.snooped = others /\ decision.grant = "Modified"
        /\ decision.source = source /\ decision.supplier = o
    BY DEF Moesi!Decision
  <2> HIDE DEF decision
  <2>2. Moesi!FillEvent(decision) = "DataModified"
    BY <2>1 DEF Moesi!FillEvent
  <2>3. Moesi!GrantData(decision, operation) = data
    BY <2>1 DEF Moesi!GrantData
  <2> QED BY <2>1, <2>2, <2>3, Zenon
<1> HIDE DEF decision
<1>6. [Moesi!Snooped(decision) EXCEPT ![a] = copy] = OnlyCopy(a, copy)
  <2>1. ASSUME NEW b \in Agents, b # a PROVE Moesi!Snooped(decision)[b] = EmptyCache
    <3>1. CASE b \in others
      <4>1. caches[b].state \in {"Shared", "Exclusive", "Owned", "Modified"}
        BY <3>1, MoesiCopies
      <4>2. Moesi!Transition(caches[b].state, "SnoopWrite") = "Invalid"
        BY <4>1, MoesiTransitions
      <4>3. Moesi!AcceptSnoop(caches[b], "SnoopWrite") = EmptyCache
        BY <4>2, MoesiShares, Zenon DEF Moesi!AcceptSnoop
      <4> HIDE DEF others
      <4> QED BY <1>5, <3>1, <4>3, Zenon DEF Moesi!Snooped
    <3>2. CASE b \notin others
      <4>1. caches[b].state = "Invalid"
        BY <2>1, <3>2, MoesiCopies, LineAssumption
      <4>2. caches[b] = EmptyCache
        BY <4>1 DEF MoesiInv, CopiesOk, Caches, EmptyCache
      <4> HIDE DEF others
      <4> QED BY <1>5, <3>2, <4>2, Zenon DEF Moesi!Snooped
    <3> QED BY <3>1, <3>2
  <2>2. Moesi!Snooped(decision) = [b \in Agents |-> Moesi!Snooped(decision)[b]]
    BY Zenon DEF Moesi!Snooped
  <2> HIDE DEF copy
  <2> QED BY <2>1, <2>2, Zenon DEF OnlyCopy
<1>7. /\ directory' = decision.entry
      /\ Completes([Moesi!Snooped(decision) EXCEPT ![a] = copy], a, r)
      /\ UNCHANGED <<agents, backing, saved>>
  <2>1. copy = IF data = NoData THEN Moved(caches[a], "Modified")
                                ELSE FilledCopy("Modified", data)
    <3> HIDE DEF line
    <3> QED BY <1>1, Zenon
  <2> HIDE DEF copy, waiting, operation, data
  <2>2. MoesiAsked(a, r) = operation
    BY <1>3, <1>4, <1>5, Zenon DEF MoesiAsked
  <2>3. MoesiDecision(a, r) = decision
    BY <1>3, <1>4, <1>5, <2>2, Zenon DEF MoesiDecision
  <2>4. MoesiGranted(a, r) = data /\ MoesiFilled(a, r) = "Modified"
    <3>1. MoesiGranted(a, r) = data
      BY <1>5, <2>2, <2>3, Zenon DEF MoesiGranted
    <3>2. MoesiFilled(a, r) = "Modified"
      BY <1>3, <1>5, <2>3, Zenon DEF MoesiFilled, waiting
    <3> QED BY <3>1, <3>2
  <2>5. MoesiCopy(a, r) = copy
    BY <2>1, <2>4, Zenon DEF MoesiCopy
  <2> QED BY <2>3, <2>5, MoesiMiss, Zenon
<1> QED BY <1>1, <1>5, <1>6, <1>7, Zenon

\* A write miss of the MOESI line.
LEMMA MoesiWriteStep ==
    ASSUME MoesiInv(caches, directory, backing), NEW a \in Agents, NEW r \in Requests,
           Moesi!Miss(a, r), r.op \notin ReadOperations
    PROVE  \E ready : /\ Prepared(Moesi!StableStates, ready, a, r) /\ Completes(ready, a, r)
                      /\ MoesiInv(caches, directory, backing)'
                      /\ UNCHANGED <<agents, saved>>
<1>1. CASE directory.owner = a
  <2> DEFINE ready == HitCopies(a, "Modified")
  <2>1. /\ caches[a].state = "Owned"
        /\ directory' = Moesi!Entry(a, "Modified", directory.sharers)
        /\ Completes(ready, a, r)
        /\ UNCHANGED <<agents, backing, saved>>
    BY <1>1, MoesiOwnedUpgrade, Zenon
  <2>2. /\ CopiesOk(ready, Moesi!StableStates) /\ ready[a].data \in Lines
        /\ \A b \in Agents :
              /\ ready[b].state = IF b = a THEN "Modified" ELSE caches[b].state
              /\ ready[b].data = caches[b].data
              /\ ready[b].reservation = caches[b].reservation
    <3>1. /\ CopiesOk(caches, Moesi!StableStates) /\ caches[a].state # "Invalid"
          /\ "Modified" \in Moesi!StableStates /\ "Modified" # "Invalid"
      BY <2>1 DEF MoesiInv, Moesi!StableStates
    <3> QED BY <3>1, HitShape
  <2> HIDE DEF ready
  <2>3. Prepared(Moesi!StableStates, ready, a, r)
    BY <2>2, Zenon DEF Prepared
  <2>4. MoesiMatch(ready, directory')
    <3>1. /\ directory'.owner = a /\ directory'.state = "Modified"
          /\ directory'.sharers = directory.sharers /\ directory' \in MoesiEntries
      BY <1>1, <2>1, MoesiCopies DEF Moesi!Entry, MoesiEntries
    <3>2. a # NoAgent
      BY LineAssumption
    <3>3. a \notin directory.sharers
      BY <1>1 DEF MoesiInv, MoesiMatch
    <3>4. ASSUME NEW b \in Agents
          PROVE  /\ ready[b].state # "Invalid" <=> b \in directory.sharers \/ b = a
                 /\ b \in directory.sharers => ready[b].state = "Shared"
                 /\ b = a => ready[b].state = "Modified"
                 /\ ready[b].state # "Owned"
      <4>1. CASE b = a
        BY <2>2, <3>3, <4>1
      <4>2. CASE b # a
        <5>1. ready[b].state = caches[b].state
          BY <2>2, <4>2
        <5>2. /\ caches[b].state # "Invalid" <=> b \in directory.sharers
              /\ b \in directory.sharers => caches[b].state = "Shared"
          BY <1>1, <3>2, <4>2 DEF MoesiInv, MoesiMatch
        <5>3. caches[b].state # "Owned"
          BY <5>2
        <5> QED BY <4>2, <5>1, <5>2, <5>3
      <4> QED BY <4>1, <4>2
    <3> QED BY <3>1, <3>2, <3>3, <3>4 DEF MoesiMatch
  <2>5. MoesiInv(caches, directory, backing)'
    <3>1. backing' \in Lines
      BY <2>1, Zenon DEF MoesiInv
    <3> QED BY <2>1, <2>3, <2>4, <3>1, MoesiCompletes
  <2> QED BY <2>1, <2>3, <2>5, Zenon
<1>2. CASE directory.owner # a
  <2> DEFINE o == directory.owner
             line == IF o = NoAgent THEN backing ELSE caches[o].data
             copy == IF caches[a].state # "Invalid" THEN Moved(caches[a], "Modified")
                                                    ELSE FilledCopy("Modified", line)
             ready == OnlyCopy(a, copy)
  <2>1. /\ line \in Lines
        /\ directory' = Moesi!Entry(a, "Modified", {})
        /\ Completes(ready, a, r)
        /\ UNCHANGED <<agents, backing, saved>>
    BY <1>2, MoesiWrite, ZenonT(30)
  <2> HIDE DEF line
  <2>2. /\ copy \in Caches(Moesi!StableStates) /\ copy.state = "Modified" /\ copy.data \in Lines
        /\ copy.reservation \in {NoGranule, caches[a].reservation}
    <3>1. CASE caches[a].state # "Invalid"
      <4>1. caches[a] \in Caches(Moesi!StableStates) /\ caches[a].data \in Lines
        BY <3>1, MoesiCopies
      <4> QED BY <3>1, <4>1 DEF Moved, Caches, Moesi!StableStates
    <3>2. CASE caches[a].state = "Invalid"
      BY <2>1, <3>2 DEF FilledCopy, Caches, Moesi!StableStates
    <3> QED BY <3>1, <3>2
  <2> HIDE DEF copy
  <2>3. /\ CopiesOk(ready, Moesi!StableStates) /\ ready[a] = copy
        /\ \A b \in Agents \ {a} :
              /\ ready[b].state = "Invalid"
              /\ ready[b].data = NoData
              /\ ready[b].reservation = NoGranule
    <3>1. "Invalid" \in Moesi!StableStates
      BY DEF Moesi!StableStates
    <3> QED BY <2>2, <3>1, OnlyShape
  <2> HIDE DEF ready
  <2>4. Prepared(Moesi!StableStates, ready, a, r)
    BY <2>2, <2>3 DEF Prepared
  <2>5. MoesiMatch(ready, directory')
    BY <2>1, <2>2, <2>3, LineAssumption DEF MoesiMatch, MoesiEntries, Moesi!Entry
  <2>6. MoesiInv(caches, directory, backing)'
    <3>1. backing' \in Lines
      BY <2>1, Zenon DEF MoesiInv
    <3> QED BY <2>1, <2>4, <2>5, <3>1, MoesiCompletes
  <2> QED BY <2>1, <2>4, <2>6, Zenon
<1> QED BY <1>1, <1>2, Zenon

-----------------------------------------------------------------------------
(* The MESI line                                                           *)

(***************************************************************************)
(* MesiLineProofs is about the same module of the same constants and       *)
(* variables: its actions are the ones of this specification.              *)
(***************************************************************************)
LEMMA MesiSameController ==
    /\ Mesi!StableStates = MesiProofs!StableStates
    /\ Mesi!TransientStates = MesiProofs!TransientStates
    /\ \A state, event : Mesi!Transition(state, event) = MesiProofs!Transition(state, event)
    /\ \A r : Mesi!CpuEvent(r) = MesiProofs!CpuEvent(r)
    /\ \A r, before : Mesi!DownstreamRequest(r, before) = MesiProofs!DownstreamRequest(r, before)
    /\ \A copies, store : Mesi!LineOf(copies, store) = MesiProofs!LineOf(copies, store)
<1>1. /\ Mesi!StableStates = MesiProofs!StableStates
      /\ Mesi!TransientStates = MesiProofs!TransientStates
  BY Zenon DEF Mesi!StableStates, MesiProofs!StableStates, Mesi!TransientStates,
       MesiProofs!TransientStates
<1>2. \A state, event : Mesi!Transition(state, event) = MesiProofs!Transition(state, event)
  BY Zenon DEF Mesi!Transition, MesiProofs!Transition
<1>3. \A r : Mesi!CpuEvent(r) = MesiProofs!CpuEvent(r)
  BY Zenon DEF Mesi!CpuEvent, MesiProofs!CpuEvent, Mesi!ReadOperations, MesiProofs!ReadOperations
<1>4. \A r, before : Mesi!DownstreamRequest(r, before) = MesiProofs!DownstreamRequest(r, before)
  BY <1>3, Zenon DEF Mesi!DownstreamRequest, MesiProofs!DownstreamRequest
<1>5. \A copies, store : Mesi!LineOf(copies, store) = MesiProofs!LineOf(copies, store)
  BY Zenon DEF Mesi!LineOf, MesiProofs!LineOf
<1> QED BY <1>1, <1>2, <1>3, <1>4, <1>5

LEMMA MesiSameCompletion ==
    ASSUME NEW copy, NEW a, NEW r
    PROVE  Mesi!CompleteCpuRequest(copy, a, r) = MesiProofs!CompleteCpuRequest(copy, a, r)
BY SMTT(30)
   DEF Mesi!CompleteCpuRequest, MesiProofs!CompleteCpuRequest, Mesi!TouchesData,
       MesiProofs!TouchesData, Mesi!ReturnsData, MesiProofs!ReturnsData,
       Mesi!StoreConditionalAllowed, MesiProofs!StoreConditionalAllowed, Mesi!LlscReservation,
       MesiProofs!LlscReservation, Mesi!Completed, MesiProofs!Completed, Mesi!Response,
       MesiProofs!Response, Mesi!StoreData, MesiProofs!StoreData, Mesi!OverlapsReservation,
       MesiProofs!OverlapsReservation, Mesi!Range, MesiProofs!Range, Mesi!AtomicWrite,
       MesiProofs!AtomicWrite, Mesi!ApplyStore, MesiProofs!ApplyStore, Mesi!Words,
       MesiProofs!Words, Mesi!ReadSlice, MesiProofs!ReadSlice

LEMMA MesiSameDirectory ==
    /\ \A d, a, operation : Mesi!Accept(d, a, operation) = MesiProofs!Accept(d, a, operation)
    /\ \A decision : /\ Mesi!FillEvent(decision) = MesiProofs!FillEvent(decision)
                     /\ Mesi!WriteBack(decision) = MesiProofs!WriteBack(decision)
                     /\ Mesi!Snooped(decision) = MesiProofs!Snooped(decision)
    /\ \A decision, operation :
          Mesi!GrantData(decision, operation) = MesiProofs!GrantData(decision, operation)
<1>1. \A d, a, operation : Mesi!Accept(d, a, operation) = MesiProofs!Accept(d, a, operation)
  <2>1. \A d, a : Mesi!AcceptReadShared(d, a) = MesiProofs!AcceptReadShared(d, a)
    BY Zenon
       DEF Mesi!AcceptReadShared, MesiProofs!AcceptReadShared, Mesi!Decision,
           MesiProofs!Decision, Mesi!Owned, MesiProofs!Owned, Mesi!Shared, MesiProofs!Shared
  <2>2. \A d, a : Mesi!AcceptReadUnique(d, a) = MesiProofs!AcceptReadUnique(d, a)
    BY Zenon
       DEF Mesi!AcceptReadUnique, MesiProofs!AcceptReadUnique, Mesi!Decision,
           MesiProofs!Decision, Mesi!Owned, MesiProofs!Owned
  <2>3. \A d, a : Mesi!AcceptUpgrade(d, a) = MesiProofs!AcceptUpgrade(d, a)
    BY Zenon
       DEF Mesi!AcceptUpgrade, MesiProofs!AcceptUpgrade, Mesi!Decision, MesiProofs!Decision,
           Mesi!Owned, MesiProofs!Owned
  <2> QED BY <2>1, <2>2, <2>3, Zenon DEF Mesi!Accept, MesiProofs!Accept
<1>2. \A decision : /\ Mesi!FillEvent(decision) = MesiProofs!FillEvent(decision)
                    /\ Mesi!WriteBack(decision) = MesiProofs!WriteBack(decision)
  BY Zenon DEF Mesi!FillEvent, MesiProofs!FillEvent, Mesi!WriteBack, MesiProofs!WriteBack
<1>3. \A decision : Mesi!Snooped(decision) = MesiProofs!Snooped(decision)
  BY Zenon
     DEF Mesi!Snooped, MesiProofs!Snooped, Mesi!AcceptSnoop, MesiProofs!AcceptSnoop,
         Mesi!Transition, MesiProofs!Transition, Mesi!EmptyCache, MesiProofs!EmptyCache
<1>4. \A decision, operation :
          Mesi!GrantData(decision, operation) = MesiProofs!GrantData(decision, operation)
  BY Zenon DEF Mesi!GrantData, MesiProofs!GrantData
<1> QED BY <1>1, <1>2, <1>3, <1>4

LEMMA MesiSameAccess ==
    ASSUME NEW a, NEW r
    PROVE  /\ Mesi!Hit(a, r) => MesiProofs!Hit(a, r)
           /\ Mesi!Miss(a, r) => MesiProofs!Miss(a, r)
<1>1. Mesi!Hit(a, r) => MesiProofs!Hit(a, r)
  BY MesiSameController, MesiSameCompletion, Zenon DEF Mesi!Hit, MesiProofs!Hit
<1>2. ASSUME NEW copy, NEW event, NEW data
      PROVE  Mesi!AcceptFill(copy, a, r, event, data) = MesiProofs!AcceptFill(copy, a, r, event, data)
  BY MesiSameController, MesiSameCompletion, Zenon
     DEF Mesi!AcceptFill, MesiProofs!AcceptFill, Mesi!InstallData, MesiProofs!InstallData
<1>3. ASSUME Mesi!Miss(a, r) PROVE MesiProofs!Miss(a, r)
  <2> DEFINE waiting == MesiProofs!Transition(caches[a].state, MesiProofs!CpuEvent(r))
             operation == MesiProofs!DownstreamRequest(r, caches[a].state)
             decision == MesiProofs!Accept(directory, a, operation)
             event == MesiProofs!FillEvent(decision)
             data == MesiProofs!GrantData(decision, operation)
             before == [caches[a] EXCEPT !.state = waiting]
             done == MesiProofs!AcceptFill(before, a, r, event, data)
  <2>1. /\ Mesi!Transition(caches[a].state, Mesi!CpuEvent(r)) = waiting
        /\ Mesi!DownstreamRequest(r, caches[a].state) = operation
    BY MesiSameController, Zenon
  <2>2. Mesi!Accept(directory, a, operation) = decision
    BY MesiSameDirectory, Zenon
  <2>3. /\ Mesi!FillEvent(decision) = event
        /\ Mesi!WriteBack(decision) = MesiProofs!WriteBack(decision)
        /\ Mesi!Snooped(decision) = MesiProofs!Snooped(decision)
        /\ Mesi!GrantData(decision, operation) = data
    <3> HIDE DEF operation, decision
    <3> QED BY MesiSameDirectory, Zenon
  <2>4. Mesi!AcceptFill(before, a, r, event, data) = done
    <3> HIDE DEF before, event, data
    <3> QED BY <1>2, Zenon
  <2>5. Mesi!TransientStates = MesiProofs!TransientStates
    BY MesiSameController
  <2> HIDE DEF waiting, operation, decision, event, data, done
  <2>6. /\ waiting \in MesiProofs!TransientStates
        /\ directory' = decision.entry
        /\ backing' = MesiProofs!WriteBack(decision)
        /\ caches' = [MesiProofs!Snooped(decision) EXCEPT ![a] = done.cache]
        /\ response' = done.response
        /\ UNCHANGED <<agents, saved>>
    BY <1>3, <2>1, <2>2, <2>3, <2>4, <2>5, Zenon DEF Mesi!Miss
  <2> QED BY <2>6, Zenon DEF MesiProofs!Miss, waiting, operation, decision, event, data, done
<1> QED BY <1>1, <1>3

\* Every access of the MESI line.
LEMMA MesiStep ==
    ASSUME MesiProofs!LineInv(caches, directory, backing), NEW a \in Agents, NEW r \in Requests,
           Mesi!Hit(a, r) \/ Mesi!Miss(a, r)
    PROVE  \E ready : /\ Prepared(Mesi!StableStates, ready, a, r) /\ Completes(ready, a, r)
                      /\ Fresh(ready, a, r)
                      /\ MesiProofs!LineInv(caches, directory, backing)'
                      /\ UNCHANGED <<agents, saved>>
<1>1. /\ r \in MesiProofs!Requests
      /\ MesiProofs!Hit(a, r) \/ MesiProofs!Miss(a, r)
  BY MesiShares, MesiSameAccess, Zenon
<1>2. PICK ready \in [Agents -> MesiProofs!Caches(MesiProofs!StableStates)] :
          MesiProofs!Prepared(ready, a, r) /\ MesiProofs!Completes(ready, a, r)
  BY <1>1, LineAssumption, MesiProofs!AccessPrepares, Zenon
<1>3. MesiProofs!LineInv(caches', directory', backing')
  BY <1>1, <1>2, LineAssumption, MesiProofs!CompletesKeeps, Zenon
<1>4. MesiProofs!LineInv(caches, directory, backing)'
  BY <1>3, Zenon
     DEF MesiProofs!LineInv, MesiProofs!Caches, MesiProofs!Lines, MesiProofs!Entries,
         MesiProofs!StableStates, MesiProofs!Words, MesiProofs!Values
<1>5. Completes(ready, a, r)
  BY <1>2, MesiSharesCompletion, Zenon DEF Completes, MesiProofs!Completes
<1>6. UNCHANGED <<agents, saved>>
  BY Zenon DEF Mesi!Hit, Mesi!Miss
<1>7. /\ MesiProofs!LineInv(ready, directory', backing')
      /\ ready[a].data \in Lines
      /\ r.op \in ReadOperations \/ ready[a].state = "Modified"
      /\ MesiProofs!LineOf(ready, backing') = MesiProofs!LineOf(caches, backing)
      /\ \A b \in Agents : ready[b].reservation \in {NoGranule, caches[b].reservation}
      /\ r.op \in ReadOperations =>
            \A b \in Agents : ready[b].reservation = caches[b].reservation
  <2>1. MesiProofs!ReadOperations = ReadOperations
    BY Zenon DEF MesiProofs!ReadOperations, ReadOperations
  <2> QED BY <1>2, <2>1, MesiShares, Zenon DEF MesiProofs!Prepared
<1>8. Prepared(Mesi!StableStates, ready, a, r)
  <2>1. ready \in [Agents -> Caches(Mesi!StableStates)]
    BY <1>2, MesiShares, MesiSameController, Zenon
  <2>2. CopiesOk(ready, Mesi!StableStates)
    BY <1>7, <2>1, Zenon DEF CopiesOk, MesiProofs!LineInv
  <2> QED BY <1>7, <2>2, Zenon DEF Prepared
<1>9. Fresh(ready, a, r)
  <2>1. ready[a].data # NoData
    BY <1>7, NoDataIsNoLine
  <2>2. MesiProofs!LineOf(ready, backing') = ready[a].data
    BY <1>7, <2>1, LineAssumption, MesiProofs!LineOfCopy, Zenon
  <2>3. \A b \in Agents : ready[b].data \in {NoData, ready[a].data}
    BY <1>7, <2>1, LineAssumption, MesiProofs!HoldersAgree
  <2>4. ASSUME r.op \notin ReadOperations, NEW b \in Agents \ {a}
        PROVE  ready[b].data = NoData /\ ready[b].reservation = NoGranule
    <3>1. ready[b].state = "Invalid"
      BY <1>7, <2>4, LineAssumption
         DEF MesiProofs!LineInv, MesiProofs!Caches, MesiProofs!StableStates
    <3> QED BY <1>7, <3>1 DEF MesiProofs!LineInv
  <2> QED BY <1>7, <2>2, <2>3, <2>4, MesiSameController, Zenon DEF Fresh
<1> QED BY <1>4, <1>5, <1>6, <1>8, <1>9, Zenon
=============================================================================
