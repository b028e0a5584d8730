--------------------------- MODULE MesiLineProofs ---------------------------
(***************************************************************************)
(* The MESI line for any number of agents, words and values: at most one   *)
(* cache may write, the directory knows every copy, and every step of the  *)
(* harness is a step of the uncached line memory.                          *)
(***************************************************************************)
EXTENDS MesiLine, TLAPS

Entries == [owner : Agents \union {NoAgent}, state : {"Invalid", "Exclusive", "Modified"},
            sharers : SUBSET Agents]

(***************************************************************************)
(* What ties the copies, the directory's entry and the backing store       *)
(* together; it is claimed of the running harness and of its snapshot.     *)
(***************************************************************************)
LineInv(copies, entry, store) ==
    /\ copies \in [Agents -> Caches(StableStates)]
    /\ entry \in Entries
    /\ store \in Lines
    /\ entry.owner # NoAgent => entry.sharers = {}
    /\ \A a \in Agents :
          /\ copies[a].data = NoData <=> copies[a].state = "Invalid"
          /\ copies[a].state = "Invalid" => copies[a].reservation = NoGranule
          /\ entry.owner = a <=> copies[a].state \in {"Exclusive", "Modified"}
          /\ a \in entry.sharers <=> copies[a].state = "Shared"
          /\ entry.owner = a /\ entry.state = "Modified" => copies[a].state = "Modified"
          /\ copies[a].state \in {"Shared", "Exclusive"} => copies[a].data = store

Inv ==
    /\ agents \subseteq Agents
    /\ LineInv(caches, directory, backing)
    /\ LineInv(saved.caches, saved.directory, saved.backing)
    /\ \A a \in Agents : saved.caches[a].reservation = NoGranule

-----------------------------------------------------------------------------
(* The line of memory                                                      *)

\* Two caches that hold the line hold the same data.
LEMMA HoldersAgree ==
    ASSUME NEW copies, NEW entry, NEW store, LineInv(copies, entry, store),
           NEW x \in Agents, NEW y \in Agents, copies[x].data # NoData, copies[y].data # NoData
    PROVE  copies[x].data = copies[y].data
<1>1. /\ copies[x].state \in StableStates \ {"Invalid"}
      /\ copies[y].state \in StableStates \ {"Invalid"}
  BY DEF LineInv, Caches
<1>2. CASE entry.owner = NoAgent
  BY <1>1, <1>2, LineAssumption DEF LineInv, StableStates
<1>3. CASE entry.owner # NoAgent
  <2>1. entry.owner = x /\ entry.owner = y
    BY <1>1, <1>3 DEF LineInv, StableStates
  <2> QED BY <2>1
<1> QED BY <1>2, <1>3

\* The line of memory is the data of any cache that holds it.
LEMMA LineOfCopy ==
    ASSUME NEW copies, NEW entry, NEW store, LineInv(copies, entry, store),
           NEW x \in Agents, copies[x].data # NoData
    PROVE  LineOf(copies, store) = copies[x].data
<1> DEFINE y == CHOOSE y \in Agents : copies[y].data # NoData
<1>1. y \in Agents /\ copies[y].data # NoData
  BY Zenon
<1>2. LineOf(copies, store) = copies[y].data
  BY Zenon DEF LineOf
<1> QED BY <1>1, <1>2, HoldersAgree, Zenon

\* While no cache may write, the backing store is the line of memory.
LEMMA LineOfStore ==
    ASSUME NEW copies, NEW entry, NEW store, LineInv(copies, entry, store),
           entry.owner = NoAgent
    PROVE  LineOf(copies, store) = store
<1>1. CASE \E x \in Agents : copies[x].data # NoData
  <2>1. PICK x \in Agents : copies[x].data # NoData
    BY <1>1
  <2>2. copies[x].data = store
    BY <2>1, LineAssumption DEF LineInv, Caches, StableStates
  <2> QED BY <2>1, <2>2, LineOfCopy, Zenon
<1>2. CASE ~ \E x \in Agents : copies[x].data # NoData
  BY <1>2, Zenon DEF LineOf
<1> QED BY <1>1, <1>2

-----------------------------------------------------------------------------
(* Completing a request                                                    *)

NoDataIsNoLine == NoData \notin Lines

LEMMA NoDataFact == NoDataIsNoLine
BY LineAssumption DEF NoDataIsNoLine, Lines, Words, Values

\* What a store leaves in the line.
LEMMA StoreType ==
    ASSUME NEW line \in Lines, NEW r \in Requests
    PROVE  ApplyStore(line, r) \in Lines /\ AtomicWrite(line, r) \in Lines
<1>1. r.value \in Values /\ \A w \in Words : line[w] \in Values
  BY DEF Requests, Lines
<1>2. \A w \in Words : (line[w] + r.value) % NumValues \in Values
  BY <1>1, LineAssumption DEF Values
<1> QED BY <1>1, <1>2 DEF ApplyStore, AtomicWrite, Lines

\* complete_cpu_request on a copy: it keeps the copy's state, and a read keeps its data and
\* takes no reservation away.
LEMMA CompleteType ==
    ASSUME NEW states, NEW copy \in Caches(states), copy.data \in Lines, NEW a,
           NEW r \in Requests
    PROVE  LET done == CompleteCpuRequest(copy, a, r)
           IN  /\ done.cache \in Caches(states)
               /\ done.cache.state = copy.state
               /\ done.cache.data \in Lines
               /\ r.op \in ReadOperations => done.cache.data = copy.data
               /\ r.op \in ReadOperations /\ done.cache.reservation = NoGranule
                     => copy.reservation = NoGranule
               /\ done.response.op = r.op
<1>1. copy.data # NoData
  BY NoDataFact DEF NoDataIsNoLine
<1>2. /\ ApplyStore(copy.data, r) \in Lines /\ AtomicWrite(copy.data, r) \in Lines
      /\ r.first \in Words /\ r.first # NoGranule
  BY StoreType, LineAssumption DEF Requests, Words
<1> DEFINE done == CompleteCpuRequest(copy, a, r)
<1>3. r.op \in {"ReadShared", "LoadLocked", "PrefetchRead", "ReadUnique", "Write",
                "CacheBlockZero", "StoreConditional", "StoreConditionalFail", "Atomic", "Upgrade"}
  BY LineAssumption, Zenon DEF Requests
<1>4. CASE r.op = "Atomic"
  BY <1>1, <1>2, <1>4, Zenon DEF CompleteCpuRequest, Completed, Response, StoreData, Caches,
       ReadOperations
<1>5. CASE r.op = "LoadLocked"
  BY <1>1, <1>2, <1>5 DEF CompleteCpuRequest, Completed, Response, Caches, LlscReservation
<1>6. CASE r.op = "StoreConditional"
  BY <1>1, <1>2, <1>6, Zenon DEF CompleteCpuRequest, Completed, Response, StoreData, Caches,
       ReadOperations, StoreConditionalAllowed
<1>7. CASE r.op = "Write"
  BY <1>1, <1>2, <1>7, Zenon DEF CompleteCpuRequest, Completed, Response, StoreData, Caches,
       ReadOperations
<1>8. CASE r.op \in {"ReadShared", "ReadUnique", "PrefetchRead", "Upgrade", "CacheBlockZero",
                     "StoreConditionalFail"}
  BY <1>1, <1>8 DEF CompleteCpuRequest, Completed, Response, TouchesData, ReturnsData
<1> QED BY <1>3, <1>4, <1>5, <1>6, <1>7, <1>8

(***************************************************************************)
(* The three ways the uncached store answers a request, as they show in    *)
(* the copy it completes on: a write, a failed store-conditional, a read.  *)
(***************************************************************************)
AnswerData(copy, r) == IF ReturnsData(r) THEN ReadSlice(copy.data, r) ELSE NoData

WritesCopy(copy, a, r, done) ==
    /\ \/ r.op \in {"Write", "Atomic"}
       \/ r.op = "StoreConditional" /\ copy.reservation = LlscReservation(r)
    /\ done.cache.data = IF r.op = "Atomic" THEN AtomicWrite(copy.data, r)
                                            ELSE ApplyStore(copy.data, r)
    /\ done.cache.reservation =
          IF OverlapsReservation(r, copy.reservation) THEN NoGranule ELSE copy.reservation
    /\ done.response = Response(a, r, "Completed", AnswerData(copy, r))

FailsOnCopy(copy, a, r, done) ==
    /\ \/ r.op = "StoreConditionalFail"
       \/ r.op = "StoreConditional" /\ copy.reservation # LlscReservation(r)
    /\ done.cache = copy
    /\ done.response = Response(a, r, "StoreConditionalFailed", NoData)

ReadsCopy(copy, a, r, done) ==
    /\ r.op \in {"ReadShared", "ReadUnique", "LoadLocked", "PrefetchRead", "Upgrade"}
    /\ done.cache.data = copy.data
    /\ done.cache.reservation =
          IF r.op = "LoadLocked" THEN LlscReservation(r) ELSE copy.reservation
    /\ done.response = Response(a, r, "Completed", AnswerData(copy, r))

\* complete_cpu_request on a copy with data answers as the uncached store does.
LEMMA CompleteResponds ==
    ASSUME NEW states, NEW copy \in Caches(states), copy.data \in Lines, NEW a,
           NEW r \in Requests, r.op # "CacheBlockZero"
    PROVE  LET done == CompleteCpuRequest(copy, a, r)
           IN  \/ WritesCopy(copy, a, r, done)
               \/ FailsOnCopy(copy, a, r, done)
               \/ ReadsCopy(copy, a, r, done)
<1> USE DEF WritesCopy, FailsOnCopy, ReadsCopy, AnswerData
<1>1. copy.data # NoData
  BY NoDataFact DEF NoDataIsNoLine
<1>2. r.op \in {"ReadShared", "LoadLocked", "PrefetchRead", "ReadUnique", "Write",
                "StoreConditional", "StoreConditionalFail", "Atomic", "Upgrade"}
  BY LineAssumption, Zenon DEF Requests
<1>3. CASE r.op = "Atomic"
  BY <1>1, <1>3, Zenon DEF CompleteCpuRequest, Completed, StoreData, Caches, ReturnsData
<1>4. CASE r.op = "LoadLocked"
  BY <1>1, <1>4 DEF CompleteCpuRequest, Completed, Caches, ReturnsData
<1>5. CASE r.op = "StoreConditional"
  BY <1>1, <1>5 DEF CompleteCpuRequest, Completed, StoreData, Caches, ReturnsData,
       StoreConditionalAllowed
<1>6. CASE r.op = "Write"
  BY <1>1, <1>6, Zenon DEF CompleteCpuRequest, Completed, StoreData, Caches, ReturnsData
<1>7. CASE r.op = "StoreConditionalFail"
  BY <1>1, <1>7 DEF CompleteCpuRequest, TouchesData, ReturnsData
<1>8. CASE r.op \in {"ReadShared", "ReadUnique"}
  BY <1>1, <1>8 DEF CompleteCpuRequest, Completed, ReturnsData
<1>9. CASE r.op \in {"PrefetchRead", "Upgrade"}
  BY <1>1, <1>9, SMTT(30) DEF CompleteCpuRequest, Completed, ReturnsData
<1> QED BY <1>2, <1>3, <1>4, <1>5, <1>6, <1>7, <1>8, <1>9

-----------------------------------------------------------------------------
(* The line before a request completes                                     *)

(***************************************************************************)
(* A request, hit or miss, first brings the line into the requester's copy *)
(* in a state that allows it, then completes there.  "ready" are the       *)
(* copies in between: coherent, with the same line of memory, with no      *)
(* reservation that was not held before, and for a read with all of them.  *)
(***************************************************************************)
Prepared(ready, a, r) ==
    /\ LineInv(ready, directory', backing')
    /\ ready[a].data \in Lines
    /\ r.op \in ReadOperations \/ ready[a].state = "Modified"
    /\ LineOf(ready, backing') = LineOf(caches, backing)
    /\ \A b \in Agents : ready[b].reservation \in {NoGranule, caches[b].reservation}
    /\ r.op \in ReadOperations =>
          \A b \in Agents : ready[b].reservation = caches[b].reservation

Completes(ready, a, r) ==
    /\ caches' = [ready EXCEPT ![a] = CompleteCpuRequest(ready[a], a, r).cache]
    /\ response' = CompleteCpuRequest(ready[a], a, r).response

\* The transitions the caches take: none of them is an error.
LEMMA TransitionFacts ==
    /\ Transition("Invalid", "CpuRead") = "InvalidToExclusive"
    /\ Transition("Invalid", "CpuWrite") = "InvalidToModified"
    /\ Transition("Shared", "CpuRead") = "Shared"
    /\ Transition("Shared", "CpuWrite") = "SharedToModified"
    /\ Transition("Exclusive", "CpuRead") = "Exclusive"
    /\ Transition("Modified", "CpuRead") = "Modified"
    /\ Transition("Exclusive", "CpuWrite") = "Modified"
    /\ Transition("Modified", "CpuWrite") = "Modified"
    /\ Transition("Exclusive", "SnoopRead") = "Shared"
    /\ Transition("Modified", "SnoopRead") = "Shared"
    /\ Transition("Shared", "SnoopWrite") = "Invalid"
    /\ Transition("Exclusive", "SnoopWrite") = "Invalid"
    /\ Transition("Modified", "SnoopWrite") = "Invalid"
    /\ Transition("InvalidToExclusive", "DataShared") = "Shared"
    /\ Transition("InvalidToExclusive", "DataExclusive") = "Exclusive"
    /\ Transition("InvalidToModified", "DataModified") = "Modified"
    /\ Transition("SharedToModified", "DataModified") = "Modified"
BY DEF Transition

\* A hit finds the line in the requester's copy.
LEMMA HitPrepares ==
    ASSUME LineInv(caches, directory, backing), NEW a \in Agents, NEW r \in Requests, Hit(a, r)
    PROVE  \E ready \in [Agents -> Caches(StableStates)] :
              Prepared(ready, a, r) /\ Completes(ready, a, r)
<1> DEFINE after == Transition(caches[a].state, CpuEvent(r))
           ready == [caches EXCEPT ![a] = [caches[a] EXCEPT !.state = after]]
<1>1. /\ caches \in [Agents -> Caches(StableStates)]
      /\ caches[a] \in Caches(StableStates)
      /\ caches[a].state \in StableStates
  BY DEF LineInv, Caches
<1>2. after \notin TransientStates /\ directory' = directory /\ backing' = backing
  BY Zenon DEF Hit
<1>3. CpuEvent(r) = IF r.op \in ReadOperations THEN "CpuRead" ELSE "CpuWrite"
  BY Zenon DEF CpuEvent
<1>4. \/ after = caches[a].state /\ caches[a].state # "Invalid"
            /\ (r.op \in ReadOperations \/ after = "Modified")
      \/ after = "Modified" /\ caches[a].state = "Exclusive"
  BY <1>1, <1>2, <1>3, TransitionFacts DEF StableStates, TransientStates
<1>5. Completes(ready, a, r)
  <2>1. ready[a] = [caches[a] EXCEPT !.state = after]
    BY <1>1, Zenon
  <2>2. [ready EXCEPT ![a] = CompleteCpuRequest(ready[a], a, r).cache]
          = [caches EXCEPT ![a] = CompleteCpuRequest(ready[a], a, r).cache]
    BY <1>1, Zenon
  <2> QED BY <2>1, <2>2, Zenon DEF Hit, Completes
<1>6. ready \in [Agents -> Caches(StableStates)]
  BY <1>1, <1>4 DEF Caches, StableStates
<1>7. \A b \in Agents :
          /\ ready[b].data = caches[b].data
          /\ ready[b].reservation = caches[b].reservation
          /\ ready[b].state = IF b = a THEN after ELSE caches[b].state
  BY <1>1 DEF Caches
<1> HIDE DEF ready, after
<1>8. LineInv(ready, directory, backing)
  BY <1>4, <1>6, <1>7 DEF LineInv
<1>9. ready[a].data \in Lines /\ ready[a].data # NoData
  BY <1>1, <1>4, <1>7 DEF LineInv, Caches
<1>10. LineOf(ready, backing) = LineOf(caches, backing)
  <2>1. LineOf(ready, backing) = ready[a].data
    BY <1>8, <1>9, LineOfCopy, Zenon
  <2>2. caches[a].data # NoData
    BY <1>7, <1>9, Zenon
  <2>3. LineOf(caches, backing) = caches[a].data
    BY <2>2, LineOfCopy, Zenon
  <2> QED BY <1>7, <2>1, <2>3, Zenon
<1>11. r.op \in ReadOperations \/ ready[a].state = "Modified"
  BY <1>4, <1>7
<1> QED BY <1>2, <1>5, <1>6, <1>7, <1>8, <1>9, <1>10, <1>11, Zenon DEF Prepared

\* A miss: the directory's entry, the write-back, and the requester's fill on top of the snoops.
LEMMA MissSteps ==
    ASSUME LineInv(caches, directory, backing), NEW a \in Agents, NEW r \in Requests, Miss(a, r),
           NEW waiting, waiting = Transition(caches[a].state, CpuEvent(r)),
           NEW operation, operation = DownstreamRequest(r, caches[a].state),
           NEW decision, decision = Accept(directory, a, operation),
           NEW filled,
           filled = IF GrantData(decision, operation) = NoData
                      THEN [caches[a] EXCEPT !.state = Transition(waiting, FillEvent(decision))]
                      ELSE [state |-> Transition(waiting, FillEvent(decision)),
                            data |-> GrantData(decision, operation), reservation |-> NoGranule]
    PROVE  /\ directory' = decision.entry
           /\ backing' = WriteBack(decision)
           /\ Completes([Snooped(decision) EXCEPT ![a] = filled], a, r)
<1> DEFINE data == GrantData(decision, operation)
           event == FillEvent(decision)
           done == AcceptFill([caches[a] EXCEPT !.state = waiting], a, r, event, data)
           ready == [Snooped(decision) EXCEPT ![a] = filled]
<1>1. /\ directory' = decision.entry
      /\ backing' = WriteBack(decision)
      /\ caches' = [Snooped(decision) EXCEPT ![a] = done.cache]
      /\ response' = done.response
  BY Zenon DEF Miss
<1>2. caches[a] \in Caches(StableStates)
  BY DEF LineInv
<1>3. filled = IF data = NoData
                 THEN [[caches[a] EXCEPT !.state = waiting] EXCEPT !.state = Transition(@, event)]
                 ELSE InstallData([[caches[a] EXCEPT !.state = waiting]
                                      EXCEPT !.state = Transition(@, event)], data)
  <2> HIDE DEF data, event
  <2> QED BY <1>2, Zenon DEF InstallData, Caches, data, event
<1>4. done = CompleteCpuRequest(filled, a, r)
  BY <1>3, Zenon DEF AcceptFill
<1>5. ready[a] = filled /\ [ready EXCEPT ![a] = done.cache]
                             = [Snooped(decision) EXCEPT ![a] = done.cache]
  BY Zenon DEF Snooped
<1> QED BY <1>1, <1>4, <1>5, Zenon DEF Completes

\* A read that misses while another cache owns the line: the owner is downgraded, its data is
\* written back, and both share it.
LEMMA ReadOwnedPrepares ==
    ASSUME LineInv(caches, directory, backing), NEW a \in Agents, NEW r \in Requests, Miss(a, r),
           r.op \in ReadOperations, caches[a].state = "Invalid", directory.owner # NoAgent
    PROVE  \E ready \in [Agents -> Caches(StableStates)] :
              Prepared(ready, a, r) /\ Completes(ready, a, r)
<1> DEFINE o == directory.owner
           line == caches[o].data
           decision == Decision(Shared({o, a}), {o}, "SnoopRead", "Shared", "OwnedCache", o)
           filled == [state |-> "Shared", data |-> line, reservation |-> NoGranule]
           ready == [Snooped(decision) EXCEPT ![a] = filled]
<1>1. /\ caches \in [Agents -> Caches(StableStates)]
      /\ o \in Agents /\ o # a /\ directory.sharers = {}
      /\ caches[o].state \in {"Exclusive", "Modified"} /\ line \in Lines /\ line # NoData
  BY DEF LineInv, Caches, Entries
<1>2. /\ CpuEvent(r) = "CpuRead"
      /\ DownstreamRequest(r, caches[a].state) = "ReadShared"
  BY DEF CpuEvent, DownstreamRequest
<1>3. Accept(directory, a, "ReadShared") = decision
  <2>1. directory.sharers \union {o, a} = {o, a}
    BY <1>1
  <2>2. Accept(directory, a, "ReadShared") = AcceptReadShared(directory, a)
    BY DEF Accept
  <2>3. AcceptReadShared(directory, a)
          = Decision(Shared(directory.sharers \union {o, a}), {o}, "SnoopRead", "Shared",
                     "OwnedCache", o)
    BY <1>1 DEF AcceptReadShared
  <2> QED BY <2>1, <2>2, <2>3, Zenon
<1>4. /\ FillEvent(decision) = "DataShared"
      /\ GrantData(decision, "ReadShared") = line
      /\ WriteBack(decision) = line
      /\ decision.entry = Shared({o, a})
      /\ decision.snooped = {o} /\ decision.event = "SnoopRead"
  BY DEF Decision, FillEvent, GrantData, WriteBack
<1>5. /\ Transition(caches[a].state, CpuEvent(r)) = "InvalidToExclusive"
      /\ Transition("InvalidToExclusive", FillEvent(decision)) = "Shared"
  BY <1>2, <1>4, TransitionFacts
<1>6. AcceptSnoop(caches[o], "SnoopRead") = [caches[o] EXCEPT !.state = "Shared"]
  BY <1>1, TransitionFacts DEF AcceptSnoop
<1>7. Snooped(decision) = [b \in Agents |-> IF b = o THEN [caches[o] EXCEPT !.state = "Shared"]
                                                     ELSE caches[b]]
  BY <1>4, <1>6 DEF Snooped
<1> HIDE DEF decision
<1>8. directory' = Shared({o, a}) /\ backing' = line /\ Completes(ready, a, r)
  <2>1. filled = IF GrantData(decision, "ReadShared") = NoData
                   THEN [caches[a] EXCEPT
                            !.state = Transition("InvalidToExclusive", FillEvent(decision))]
                   ELSE [state |-> Transition("InvalidToExclusive", FillEvent(decision)),
                         data |-> GrantData(decision, "ReadShared"), reservation |-> NoGranule]
    BY <1>1, <1>4, <1>5, Zenon
  <2> HIDE DEF filled
  <2>2. /\ directory' = decision.entry
        /\ backing' = WriteBack(decision)
        /\ Completes([Snooped(decision) EXCEPT ![a] = filled], a, r)
    BY <1>2, <1>3, <1>5, <2>1, MissSteps, Zenon
  <2> QED BY <1>4, <2>2, Zenon
<1>9. \A b \in Agents : ready[b] = IF b = a THEN filled
                                   ELSE IF b = o THEN [caches[o] EXCEPT !.state = "Shared"]
                                   ELSE caches[b]
  BY <1>7, Zenon
<1>10. /\ ready \in [Agents -> Caches(StableStates)]
       /\ \A b \in Agents :
             /\ ready[b].state = IF b \in {a, o} THEN "Shared" ELSE caches[b].state
             /\ ready[b].data = IF b = a THEN line ELSE caches[b].data
             /\ ready[b].reservation = IF b = a THEN NoGranule ELSE caches[b].reservation
  <2>1. DOMAIN ready = Agents
    BY <1>7
  <2>2. ASSUME NEW b \in Agents
        PROVE  /\ ready[b] \in Caches(StableStates)
               /\ ready[b].state = IF b \in {a, o} THEN "Shared" ELSE caches[b].state
               /\ ready[b].data = IF b = a THEN line ELSE caches[b].data
               /\ ready[b].reservation = IF b = a THEN NoGranule ELSE caches[b].reservation
    <3> HIDE DEF ready
    <3>1. CASE b = a
      BY <1>1, <1>9, <3>1 DEF Caches, StableStates
    <3>2. CASE b # a /\ b = o
      BY <1>1, <1>9, <3>2 DEF Caches, StableStates
    <3>3. CASE b \notin {a, o}
      BY <1>1, <1>9, <3>3, Zenon
    <3> QED BY <3>1, <3>2, <3>3
  <2>3. ready = [b \in Agents |-> ready[b]]
    BY <1>7, Zenon
  <2> QED BY <2>2, <2>3, Zenon
<1> HIDE DEF ready
<1>11. \A b \in Agents \ {a, o} : caches[b].state = "Invalid"
  BY <1>1 DEF LineInv, Caches, StableStates
<1>12. LineInv(ready, directory', backing')
  BY <1>1, <1>8, <1>10, <1>11, LineAssumption DEF LineInv, Shared, Entries
<1>13. LineOf(ready, backing') = line
  BY <1>1, <1>10, <1>12, LineOfCopy
<1>14. LineOf(caches, backing) = line
  BY <1>1, LineOfCopy
<1>15. \A b \in Agents : ready[b].reservation = caches[b].reservation
  BY <1>10 DEF LineInv
<1> QED BY <1>1, <1>8, <1>10, <1>12, <1>13, <1>14, <1>15 DEF Prepared

\* A read that misses while no cache owns the line: it is filled from the backing store, alone
\* (Exclusive) or beside the sharers.
LEMMA ReadFreePrepares ==
    ASSUME LineInv(caches, directory, backing), NEW a \in Agents, NEW r \in Requests, Miss(a, r),
           r.op \in ReadOperations, caches[a].state = "Invalid", directory.owner = NoAgent
    PROVE  \E ready \in [Agents -> Caches(StableStates)] :
              Prepared(ready, a, r) /\ Completes(ready, a, r)
<1> DEFINE alone == directory.sharers = {}
           grant == IF alone THEN "Exclusive" ELSE "Shared"
           entry == IF alone THEN Owned(a, "Exclusive") ELSE Shared(directory.sharers \union {a})
           decision == Decision(entry, {}, "SnoopRead", grant, "BackingMemory", NoAgent)
           filled == [state |-> grant, data |-> backing, reservation |-> NoGranule]
           ready == [caches EXCEPT ![a] = filled]
<1>1. /\ caches \in [Agents -> Caches(StableStates)]
      /\ NoAgent # a /\ a \notin directory.sharers /\ directory.sharers \subseteq Agents
      /\ backing \in Lines /\ backing # NoData
  BY NoDataFact, LineAssumption DEF LineInv, Entries, NoDataIsNoLine
<1>2. /\ CpuEvent(r) = "CpuRead"
      /\ DownstreamRequest(r, caches[a].state) = "ReadShared"
  BY DEF CpuEvent, DownstreamRequest
<1>3. Accept(directory, a, "ReadShared") = decision
  <2>1. Accept(directory, a, "ReadShared") = AcceptReadShared(directory, a)
    BY DEF Accept
  <2>2. CASE alone
    BY <1>1, <2>1, <2>2 DEF AcceptReadShared
  <2>3. CASE ~alone
    BY <1>1, <2>1, <2>3 DEF AcceptReadShared
  <2> QED BY <2>2, <2>3
<1>4. /\ FillEvent(decision) = IF alone THEN "DataExclusive" ELSE "DataShared"
      /\ GrantData(decision, "ReadShared") = backing
      /\ WriteBack(decision) = backing
      /\ decision.entry = entry
      /\ decision.snooped = {}
  <2> HIDE DEF entry
  <2> QED BY DEF Decision, FillEvent, GrantData, WriteBack
<1>5. /\ Transition(caches[a].state, CpuEvent(r)) = "InvalidToExclusive"
      /\ Transition("InvalidToExclusive", FillEvent(decision)) = grant
  BY <1>2, <1>4, TransitionFacts
<1>6. Snooped(decision) = caches
  BY <1>1, <1>4, SMTT(30) DEF Snooped
<1> HIDE DEF decision
<1>7. directory' = entry /\ backing' = backing /\ Completes(ready, a, r)
  <2>1. filled = IF GrantData(decision, "ReadShared") = NoData
                   THEN [caches[a] EXCEPT
                            !.state = Transition("InvalidToExclusive", FillEvent(decision))]
                   ELSE [state |-> Transition("InvalidToExclusive", FillEvent(decision)),
                         data |-> GrantData(decision, "ReadShared"), reservation |-> NoGranule]
    BY <1>1, <1>4, <1>5, Zenon
  <2> HIDE DEF filled, entry
  <2>2. /\ directory' = decision.entry
        /\ backing' = WriteBack(decision)
        /\ Completes([Snooped(decision) EXCEPT ![a] = filled], a, r)
    BY <1>2, <1>3, <1>5, <2>1, MissSteps, Zenon
  <2> QED BY <1>4, <1>6, <2>2, Zenon
<1>8. /\ ready \in [Agents -> Caches(StableStates)]
      /\ \A b \in Agents :
            /\ ready[b].state = IF b = a THEN grant ELSE caches[b].state
            /\ ready[b].data = IF b = a THEN backing ELSE caches[b].data
            /\ ready[b].reservation = IF b = a THEN NoGranule ELSE caches[b].reservation
  <2>1. filled \in Caches(StableStates)
    BY <1>1 DEF Caches, StableStates
  <2> HIDE DEF grant
  <2> QED BY <1>1, <2>1
<1> HIDE DEF ready
<1>9. \A b \in Agents \ directory.sharers : caches[b].state = "Invalid"
  BY <1>1, LineAssumption DEF LineInv, Caches, StableStates
<1>10. LineInv(ready, directory', backing')
  <2>1. CASE alone
    BY <1>1, <1>7, <1>8, <1>9, <2>1, LineAssumption DEF LineInv, Owned, Entries
  <2>2. CASE ~alone
    BY <1>1, <1>7, <1>8, <1>9, <2>2, LineAssumption DEF LineInv, Shared, Entries
  <2> QED BY <2>1, <2>2
<1>11. LineOf(ready, backing') = backing
  BY <1>1, <1>8, <1>10, LineOfCopy
<1>12. LineOf(caches, backing) = backing
  BY LineOfStore
<1>13. \A b \in Agents : ready[b].reservation = caches[b].reservation
  BY <1>8 DEF LineInv
<1> QED BY <1>1, <1>7, <1>8, <1>10, <1>11, <1>12, <1>13 DEF Prepared

\* The requester alone holds the line, Modified: what a write that misses leaves.
LEMMA WriterAlone ==
    ASSUME NEW a \in Agents, NEW filled \in Caches(StableStates), NEW store \in Lines,
           filled.state = "Modified", filled.data \in Lines
    PROVE  LineInv([b \in Agents |-> IF b = a THEN filled ELSE EmptyCache],
                   Owned(a, "Modified"), store)
<1> DEFINE ready == [b \in Agents |-> IF b = a THEN filled ELSE EmptyCache]
<1>1. EmptyCache \in Caches(StableStates)
  BY DEF EmptyCache, Caches, StableStates
<1>2. Owned(a, "Modified") \in Entries
  BY DEF Owned, Entries
<1>3. filled.data # NoData
  BY NoDataFact DEF NoDataIsNoLine
<1>4. ready \in [Agents -> Caches(StableStates)]
  BY <1>1
<1>5. \A b \in Agents :
          /\ ready[b].state = IF b = a THEN "Modified" ELSE "Invalid"
          /\ b # a => ready[b].data = NoData /\ ready[b].reservation = NoGranule
          /\ b = a => ready[b].data # NoData
  BY <1>3 DEF EmptyCache
<1> HIDE DEF ready
<1>6. LineInv(ready, Owned(a, "Modified"), store)
  BY <1>2, <1>4, <1>5 DEF LineInv, Owned
<1> QED BY <1>6 DEF ready

\* A snooped write empties every copy it reaches.
LEMMA SnoopWriteEmpties ==
    ASSUME NEW copy, copy.state \in {"Shared", "Exclusive", "Modified"}
    PROVE  AcceptSnoop(copy, "SnoopWrite") = EmptyCache
<1>1. Transition(copy.state, "SnoopWrite") = "Invalid"
  BY TransitionFacts
<1> QED BY <1>1, Zenon DEF AcceptSnoop

\* An invalid copy is the empty one.
LEMMA InvalidIsEmpty ==
    ASSUME LineInv(caches, directory, backing), NEW b \in Agents, caches[b].state = "Invalid"
    PROVE  caches[b] = EmptyCache
BY DEF LineInv, Caches, EmptyCache

\* A write that misses without a copy: ReadUnique takes the line from the owner or from the
\* backing store and empties every other copy.
LEMMA WriteInvalidPrepares ==
    ASSUME LineInv(caches, directory, backing), NEW a \in Agents, NEW r \in Requests, Miss(a, r),
           r.op \notin ReadOperations, caches[a].state = "Invalid"
    PROVE  \E ready \in [Agents -> Caches(StableStates)] :
              Prepared(ready, a, r) /\ Completes(ready, a, r)
<1> DEFINE o == directory.owner
           free == o = NoAgent
           line == IF free THEN backing ELSE caches[o].data
           others == (directory.sharers \union {o}) \ {a, NoAgent}
           source == IF free THEN "BackingMemory" ELSE "OwnedCache"
           decision == Decision(Owned(a, "Modified"), others, "SnoopWrite", "Modified", source, o)
           filled == [state |-> "Modified", data |-> line, reservation |-> NoGranule]
           ready == [b \in Agents |-> IF b = a THEN filled ELSE EmptyCache]
<1>1. /\ caches \in [Agents -> Caches(StableStates)]
      /\ NoAgent # a /\ o # a /\ a \notin directory.sharers
      /\ o \in Agents \union {NoAgent} /\ backing \in Lines
  BY LineAssumption DEF LineInv, Entries
<1>2. line \in Lines /\ line # NoData
  BY <1>1, NoDataFact DEF LineInv, Caches, NoDataIsNoLine
<1>3. /\ CpuEvent(r) = "CpuWrite"
      /\ DownstreamRequest(r, caches[a].state) = "ReadUnique"
  BY DEF CpuEvent, DownstreamRequest
<1>4. Accept(directory, a, "ReadUnique") = decision
  <2>1. Accept(directory, a, "ReadUnique") = AcceptReadUnique(directory, a)
    BY DEF Accept
  <2>2. CASE free
    BY <1>1, <2>1, <2>2 DEF AcceptReadUnique
  <2>3. CASE ~free
    BY <1>1, <2>1, <2>3 DEF AcceptReadUnique
  <2> QED BY <2>2, <2>3
<1>5. /\ FillEvent(decision) = "DataModified"
      /\ GrantData(decision, "ReadUnique") = line
      /\ WriteBack(decision) = backing
      /\ decision.entry = Owned(a, "Modified")
      /\ decision.snooped = others /\ decision.event = "SnoopWrite"
  <2> HIDE DEF others
  <2> QED BY DEF Decision, FillEvent, GrantData, WriteBack
<1>6. /\ Transition(caches[a].state, CpuEvent(r)) = "InvalidToModified"
      /\ Transition("InvalidToModified", FillEvent(decision)) = "Modified"
  BY <1>3, <1>5, TransitionFacts
<1> HIDE DEF decision
<1>7. [Snooped(decision) EXCEPT ![a] = filled] = ready
  <2>1. ASSUME NEW b \in Agents, b # a PROVE Snooped(decision)[b] = EmptyCache
    <3>1. b # NoAgent
      BY LineAssumption
    <3>2. CASE b \in others
      <4>1. caches[b].state \in {"Shared", "Exclusive", "Modified"}
        BY <3>2 DEF LineInv
      <4>2. AcceptSnoop(caches[b], "SnoopWrite") = EmptyCache
        BY <4>1, SnoopWriteEmpties
      <4> HIDE DEF others
      <4> QED BY <1>5, <3>2, <4>2, Zenon DEF Snooped
    <3>3. CASE b \notin others
      <4>1. caches[b].state = "Invalid"
        BY <1>1, <2>1, <3>1, <3>3 DEF LineInv, Caches, StableStates
      <4> QED BY <1>5, <3>3, <4>1, InvalidIsEmpty, Zenon DEF Snooped
    <3> QED BY <3>2, <3>3
  <2>2. Snooped(decision) = [b \in Agents |-> Snooped(decision)[b]]
    BY Zenon DEF Snooped
  <2> HIDE DEF filled
  <2> QED BY <2>1, <2>2, Zenon
<1>8. directory' = Owned(a, "Modified") /\ backing' = backing /\ Completes(ready, a, r)
  <2>1. filled = IF GrantData(decision, "ReadUnique") = NoData
                   THEN [caches[a] EXCEPT
                            !.state = Transition("InvalidToModified", FillEvent(decision))]
                   ELSE [state |-> Transition("InvalidToModified", FillEvent(decision)),
                         data |-> GrantData(decision, "ReadUnique"), reservation |-> NoGranule]
    <3> HIDE DEF line
    <3> QED BY <1>2, <1>5, <1>6, Zenon
  <2> HIDE DEF filled, ready
  <2>2. /\ directory' = decision.entry
        /\ backing' = WriteBack(decision)
        /\ Completes([Snooped(decision) EXCEPT ![a] = filled], a, r)
    BY <1>3, <1>4, <1>6, <2>1, MissSteps, Zenon
  <2> QED BY <1>5, <1>7, <2>2, Zenon
<1>9. filled \in Caches(StableStates) /\ filled.state = "Modified" /\ filled.data = line
  <2> HIDE DEF line
  <2> QED BY <1>2 DEF Caches, StableStates
<1>10. ready[a] = filled /\ \A b \in Agents : ready[b].reservation = NoGranule
  BY DEF EmptyCache
<1>11. LineOf(caches, backing) = line
  <2>1. CASE free
    BY <2>1, LineOfStore, Zenon
  <2>2. CASE ~free
    <3>1. o \in Agents /\ line = caches[o].data
      BY <1>1, <2>2
    <3> QED BY <1>2, <3>1, LineOfCopy, Zenon
  <2> QED BY <2>1, <2>2
<1> HIDE DEF line, filled
<1>12. LineInv(ready, directory', backing')
  BY <1>1, <1>2, <1>8, <1>9, WriterAlone, Zenon
<1> HIDE DEF ready
<1>13. LineOf(ready, backing') = line
  BY <1>2, <1>9, <1>10, <1>12, LineOfCopy, Zenon
<1>14. ready \in [Agents -> Caches(StableStates)]
  BY <1>12, Zenon DEF LineInv
<1> QED BY <1>2, <1>8, <1>9, <1>10, <1>11, <1>12, <1>13, <1>14, Zenon DEF Prepared

\* A write that misses on a shared copy: the upgrade keeps the data and empties every other copy.
LEMMA UpgradePrepares ==
    ASSUME LineInv(caches, directory, backing), NEW a \in Agents, NEW r \in Requests, Miss(a, r),
           r.op \notin ReadOperations, caches[a].state = "Shared"
    PROVE  \E ready \in [Agents -> Caches(StableStates)] :
              Prepared(ready, a, r) /\ Completes(ready, a, r)
<1> DEFINE others == directory.sharers \ {a}
           decision == Decision(Owned(a, "Modified"), others, "SnoopWrite", "Modified",
                                "NoData", NoAgent)
           filled == [caches[a] EXCEPT !.state = "Modified"]
           ready == [b \in Agents |-> IF b = a THEN filled ELSE EmptyCache]
<1>1. /\ caches \in [Agents -> Caches(StableStates)]
      /\ a \in directory.sharers /\ directory.owner = NoAgent /\ NoAgent # a
      /\ caches[a].data \in Lines /\ caches[a].data # NoData /\ caches[a].data = backing
      /\ backing \in Lines
  BY LineAssumption DEF LineInv, Caches
<1>2. /\ CpuEvent(r) = "CpuWrite"
      /\ DownstreamRequest(r, caches[a].state) = "Upgrade"
  BY DEF CpuEvent, DownstreamRequest
<1>3. Accept(directory, a, "Upgrade") = decision
  <2>1. Accept(directory, a, "Upgrade") = AcceptUpgrade(directory, a)
    BY DEF Accept
  <2> QED BY <1>1, <2>1 DEF AcceptUpgrade
<1>4. /\ FillEvent(decision) = "DataModified"
      /\ GrantData(decision, "Upgrade") = NoData
      /\ WriteBack(decision) = backing
      /\ decision.entry = Owned(a, "Modified")
      /\ decision.snooped = others /\ decision.event = "SnoopWrite"
  <2> HIDE DEF others
  <2> QED BY DEF Decision, FillEvent, GrantData, WriteBack
<1>5. /\ Transition(caches[a].state, CpuEvent(r)) = "SharedToModified"
      /\ Transition("SharedToModified", FillEvent(decision)) = "Modified"
  BY <1>2, <1>4, TransitionFacts
<1> HIDE DEF decision
<1>6. [Snooped(decision) EXCEPT ![a] = filled] = ready
  <2>1. ASSUME NEW b \in Agents, b # a PROVE Snooped(decision)[b] = EmptyCache
    <3>1. CASE b \in others
      <4>1. caches[b].state \in {"Shared", "Exclusive", "Modified"}
        BY <3>1 DEF LineInv
      <4>2. AcceptSnoop(caches[b], "SnoopWrite") = EmptyCache
        BY <4>1, SnoopWriteEmpties
      <4> HIDE DEF others
      <4> QED BY <1>4, <3>1, <4>2, Zenon DEF Snooped
    <3>2. CASE b \notin others
      <4>1. caches[b].state = "Invalid"
        BY <1>1, <2>1, <3>2, LineAssumption DEF LineInv, Caches, StableStates
      <4> HIDE DEF others
      <4> QED BY <1>4, <3>2, <4>1, InvalidIsEmpty, Zenon DEF Snooped
    <3> QED BY <3>1, <3>2
  <2>2. Snooped(decision) = [b \in Agents |-> Snooped(decision)[b]]
    BY Zenon DEF Snooped
  <2> HIDE DEF filled
  <2> QED BY <2>1, <2>2, Zenon
<1>7. directory' = Owned(a, "Modified") /\ backing' = backing /\ Completes(ready, a, r)
  <2>1. filled = IF GrantData(decision, "Upgrade") = NoData
                   THEN [caches[a] EXCEPT
                            !.state = Transition("SharedToModified", FillEvent(decision))]
                   ELSE [state |-> Transition("SharedToModified", FillEvent(decision)),
                         data |-> GrantData(decision, "Upgrade"), reservation |-> NoGranule]
    BY <1>4, <1>5, Zenon
  <2> HIDE DEF filled, ready
  <2>2. /\ directory' = decision.entry
        /\ backing' = WriteBack(decision)
        /\ Completes([Snooped(decision) EXCEPT ![a] = filled], a, r)
    BY <1>2, <1>3, <1>5, <2>1, MissSteps, Zenon
  <2> QED BY <1>4, <1>6, <2>2, Zenon
<1>8. /\ filled \in Caches(StableStates) /\ filled.state = "Modified"
      /\ filled.data = backing /\ filled.reservation = caches[a].reservation
  BY <1>1 DEF Caches, StableStates
<1>9. /\ ready[a] = filled
      /\ \A b \in Agents : ready[b].reservation \in {NoGranule, caches[b].reservation}
  <2> HIDE DEF filled
  <2> QED BY <1>8 DEF EmptyCache
<1>10. LineOf(caches, backing) = backing
  BY <1>1, LineOfStore, Zenon
<1> HIDE DEF filled
<1>11. LineInv(ready, directory', backing')
  BY <1>1, <1>7, <1>8, WriterAlone, Zenon
<1> HIDE DEF ready
<1>12. LineOf(ready, backing') = backing
  BY <1>1, <1>8, <1>9, <1>11, LineOfCopy, Zenon
<1>13. ready \in [Agents -> Caches(StableStates)]
  BY <1>11, Zenon DEF LineInv
<1> QED BY <1>1, <1>7, <1>8, <1>9, <1>10, <1>11, <1>12, <1>13, Zenon DEF Prepared

\* Every access, hit or miss, completes on coherent copies.
LEMMA AccessPrepares ==
    ASSUME LineInv(caches, directory, backing), NEW a \in Agents, NEW r \in Requests,
           Hit(a, r) \/ Miss(a, r)
    PROVE  \E ready \in [Agents -> Caches(StableStates)] :
              Prepared(ready, a, r) /\ Completes(ready, a, r)
<1>1. CASE Hit(a, r)
  BY <1>1, HitPrepares, Zenon
<1>2. CASE Miss(a, r)
  <2>1. caches[a].state \in StableStates
    BY DEF LineInv, Caches
  <2>2. Transition(caches[a].state, CpuEvent(r)) \in TransientStates
    BY <1>2, Zenon DEF Miss
  <2>3. \/ caches[a].state = "Invalid"
        \/ caches[a].state = "Shared" /\ r.op \notin ReadOperations
    BY <2>1, <2>2, TransitionFacts DEF CpuEvent, StableStates, TransientStates
  <2> QED
    BY <1>2, <2>3, ReadOwnedPrepares, ReadFreePrepares, WriteInvalidPrepares, UpgradePrepares,
       Zenon
<1> QED BY <1>1, <1>2

-----------------------------------------------------------------------------
(* The invariant                                                           *)

\* Completing the request keeps the line coherent: it changes data only in a Modified copy.
LEMMA CompletesKeeps ==
    ASSUME NEW a \in Agents, NEW r \in Requests, NEW ready \in [Agents -> Caches(StableStates)],
           Prepared(ready, a, r), Completes(ready, a, r)
    PROVE  LineInv(caches', directory', backing') /\ caches'[a].data \in Lines
<1> DEFINE done == CompleteCpuRequest(ready[a], a, r)
<1>1. /\ LineInv(ready, directory', backing')
      /\ ready[a].data \in Lines
      /\ r.op \in ReadOperations \/ ready[a].state = "Modified"
  BY Zenon DEF Prepared
<1>2. /\ done.cache \in Caches(StableStates)
      /\ done.cache.state = ready[a].state
      /\ done.cache.data \in Lines
      /\ r.op \in ReadOperations => done.cache.data = ready[a].data
  BY <1>1, CompleteType
<1> HIDE DEF done
<1>3. caches' = [ready EXCEPT ![a] = done.cache]
  BY Zenon DEF Completes, done
<1>4. /\ caches' \in [Agents -> Caches(StableStates)]
      /\ caches'[a] = done.cache
      /\ \A b \in Agents \ {a} : caches'[b] = ready[b]
  BY <1>2, <1>3
<1>5. ready[a].state # "Invalid" /\ done.cache.data # NoData
  BY <1>1, <1>2, NoDataFact DEF LineInv, NoDataIsNoLine
<1>6. LineInv(caches', directory', backing')
  BY <1>1, <1>2, <1>4, <1>5 DEF LineInv
<1> QED BY <1>2, <1>4, <1>6

\* Dropping the reservations, as a snapshot does, keeps the line coherent.
LEMMA SnapshotCoherent ==
    ASSUME LineInv(caches, directory, backing)
    PROVE  LET kept == [a \in Agents |-> [caches[a] EXCEPT !.reservation = NoGranule]]
           IN  /\ LineInv(kept, directory, backing)
               /\ \A a \in Agents : /\ kept[a].reservation = NoGranule
                                    /\ kept[a].data = caches[a].data
<1> DEFINE kept == [a \in Agents |-> [caches[a] EXCEPT !.reservation = NoGranule]]
<1>1. caches \in [Agents -> Caches(StableStates)]
  BY DEF LineInv
<1>2. \A a \in Agents :
          /\ kept[a] \in Caches(StableStates)
          /\ kept[a].state = caches[a].state
          /\ kept[a].data = caches[a].data
          /\ kept[a].reservation = NoGranule
  BY <1>1 DEF Caches
<1>3. kept \in [Agents -> Caches(StableStates)]
  BY <1>2
<1> HIDE DEF kept
<1>4. LineInv(kept, directory, backing)
  BY <1>2, <1>3 DEF LineInv
<1> QED BY <1>2, <1>4 DEF kept

\* A new harness satisfies the invariant.
LEMMA InvInitially == Init => Inv
<1> SUFFICES ASSUME Init PROVE Inv
  OBVIOUS
<1>1. agents \subseteq Agents /\ backing \in Lines /\ directory = NoEntry
      /\ caches = [a \in Agents |-> EmptyCache] /\ saved = HarnessSnapshot
  BY DEF Init
<1>2. LineInv(caches, directory, backing)
  BY <1>1, LineAssumption DEF LineInv, Caches, Entries, NoEntry, EmptyCache, StableStates
<1>3. /\ LineInv(saved.caches, saved.directory, saved.backing)
      /\ \A a \in Agents : saved.caches[a].reservation = NoGranule
  BY <1>1, <1>2, SnapshotCoherent DEF HarnessSnapshot
<1> QED BY <1>1, <1>2, <1>3 DEF Inv

\* Every step keeps the invariant.
LEMMA InvStep == Inv /\ [Next]_vars => Inv'
<1> SUFFICES ASSUME Inv, [Next]_vars PROVE Inv'
  OBVIOUS
<1>1. /\ agents \subseteq Agents
      /\ LineInv(caches, directory, backing)
      /\ LineInv(saved.caches, saved.directory, saved.backing)
      /\ \A a \in Agents : saved.caches[a].reservation = NoGranule
  BY Zenon DEF Inv
<1>2. ASSUME NEW a \in agents, NEW r \in Requests, Hit(a, r) \/ Miss(a, r) PROVE Inv'
  <2>1. a \in Agents /\ agents' = agents /\ saved' = saved
    BY <1>1, <1>2, Zenon DEF Hit, Miss
  <2>2. LineInv(caches', directory', backing')
    <3>1. PICK ready \in [Agents -> Caches(StableStates)] :
              Prepared(ready, a, r) /\ Completes(ready, a, r)
      BY <1>1, <1>2, <2>1, AccessPrepares, Zenon
    <3> QED BY <2>1, <3>1, CompletesKeeps, Zenon
  <2> QED BY <1>1, <2>1, <2>2, Zenon DEF Inv
<1>3. CASE Snapshot
  <2>1. /\ agents' = agents /\ caches' = caches /\ directory' = directory /\ backing' = backing
        /\ saved'.caches = [a \in Agents |-> [caches[a] EXCEPT !.reservation = NoGranule]]
        /\ saved'.directory = directory /\ saved'.backing = backing
    BY <1>3 DEF Snapshot, HarnessSnapshot
  <2> QED BY <1>1, <2>1, SnapshotCoherent, Zenon DEF Inv
<1>4. CASE Restore
  BY <1>1, <1>4, Zenon DEF Restore, Inv
<1>5. CASE UNCHANGED vars
  BY <1>1, <1>5, Zenon DEF vars, Inv
<1> QED BY <1>2, <1>3, <1>4, <1>5, Zenon DEF Next

\* The invariant holds in every reachable state, whatever the agents, words and values.
THEOREM MesiInvariant == Spec => []Inv
BY InvInitially, InvStep, PTL DEF Spec

\* The directory and the caches of a MESI line agree in every state between two CPU requests:
\* every controller is stable, at most one cache may write and then it holds the only copy, the
\* directory names exactly the copies that exist, a clean copy equals the backing store, and no
\* reservation outlives its copy.
THEOREM MesiCoherent ==
    Spec => [](TypeOK /\ SingleWriter /\ DirectoryMatchesCaches /\ CleanCopiesMatchBacking
                 /\ ReservationNeedsCopy)
<1>1. Inv => TypeOK /\ DirectoryMatchesCaches /\ CleanCopiesMatchBacking /\ ReservationNeedsCopy
  BY DEF Inv, LineInv, TypeOK, Entries, DirectoryMatchesCaches, CleanCopiesMatchBacking,
         ReservationNeedsCopy
<1>2. Inv => SingleWriter
  <2> SUFFICES ASSUME Inv PROVE SingleWriter
    OBVIOUS
  <2>1. \A a \in Holding({"Exclusive", "Modified"}) : a \in Agents /\ directory.owner = a
    BY Zenon DEF Inv, LineInv, Holding
  <2>2. ASSUME NEW a \in Holding({"Exclusive", "Modified"}) PROVE Holding({"Shared"}) = {}
    <3>1. directory.sharers = {}
      BY <2>1, LineAssumption DEF Inv, LineInv
    <3> QED BY <3>1 DEF Inv, LineInv, Holding
  <2> QED BY <2>1, <2>2 DEF SingleWriter
<1> QED BY <1>1, <1>2, MesiInvariant, PTL

-----------------------------------------------------------------------------
(* The line implements the uncached store                                  *)

\* Coherent copies with the same data are the same line of memory.
LEMMA SameData ==
    ASSUME NEW copies, NEW entry, NEW store, LineInv(copies, entry, store),
           NEW others, LineInv(others, entry, store),
           \A x \in Agents : others[x].data = copies[x].data
    PROVE  LineOf(others, store) = LineOf(copies, store)
<1>1. CASE \E x \in Agents : copies[x].data # NoData
  <2>1. PICK x \in Agents : copies[x].data # NoData
    BY <1>1
  <2>2. others[x].data # NoData
    BY <2>1, Zenon
  <2>3. LineOf(copies, store) = copies[x].data
    BY <2>1, LineOfCopy, Zenon
  <2>4. LineOf(others, store) = others[x].data
    BY <2>2, LineOfCopy, Zenon
  <2> QED BY <2>3, <2>4, Zenon
<1>2. CASE ~ \E x \in Agents : copies[x].data # NoData
  BY <1>2, Zenon DEF LineOf
<1> QED BY <1>1, <1>2

\* A request completed on coherent copies is an access of the store, with the reservations
\* the copies lost on the way.
LEMMA CompletesAccess ==
    ASSUME NEW a \in Agents, NEW r \in Requests, r.op # "CacheBlockZero",
           NEW ready \in [Agents -> Caches(StableStates)],
           Prepared(ready, a, r), Completes(ready, a, r), saved' = saved
    PROVE  Memory!Access(a, r)
<1> DEFINE done == CompleteCpuRequest(ready[a], a, r)
           lost == {b \in Agents : ready[b].reservation = NoGranule}
           reserved == [b \in Agents |-> caches[b].reservation]
           held == [b \in Agents |-> IF b \in lost THEN NoGranule ELSE reserved[b]]
           line == LineOf(caches, backing)
<1>1. /\ LineInv(ready, directory', backing') /\ ready[a].data \in Lines
      /\ r.op \in ReadOperations \/ ready[a].state = "Modified"
      /\ LineOf(ready, backing') = line
      /\ \A b \in Agents : ready[b].reservation \in {NoGranule, caches[b].reservation}
      /\ ready[a] \in Caches(StableStates)
  BY Zenon DEF Prepared
<1>2. held = [b \in Agents |-> ready[b].reservation]
  BY <1>1
<1>3. line = ready[a].data
  BY <1>1, NoDataFact, LineOfCopy, Zenon DEF NoDataIsNoLine
<1>4. /\ caches' = [ready EXCEPT ![a] = done.cache]
      /\ response' = done.response
      /\ LineOf(caches', backing') = done.cache.data
  <2>1. caches' = [ready EXCEPT ![a] = done.cache] /\ response' = done.response
    BY Zenon DEF Completes
  <2>2. LineInv(caches', directory', backing') /\ caches'[a].data \in Lines
    BY CompletesKeeps, Zenon
  <2>3. LineOf(caches', backing') = caches'[a].data
    BY <2>2, NoDataFact, LineOfCopy, Zenon DEF NoDataIsNoLine
  <2>4. caches'[a] = done.cache
    <3> HIDE DEF done
    <3> QED BY <2>1
  <2> QED BY <2>1, <2>3, <2>4, Zenon
<1>5. [b \in Agents |-> caches'[b].reservation]
         = [b \in Agents |-> IF b = a THEN done.cache.reservation ELSE ready[b].reservation]
  <2> HIDE DEF done
  <2> QED BY <1>4
<1>6. ASSUME Memory!Respond(a, r, held) PROVE Memory!Access(a, r)
  <2>1. lost \in IF TRUE THEN SUBSET Agents ELSE {{}}
    BY Zenon
  <2>2. [memory |-> LineOf(saved.caches, saved.backing), response |-> saved.response]'
          = [memory |-> LineOf(saved.caches, saved.backing), response |-> saved.response]
    BY Zenon
  <2> HIDE DEF lost
  <2> QED BY <1>6, <2>1, <2>2, Zenon DEF Memory!Access, Memory!Respond
<1> DEFINE reserved1 == [b \in Agents |-> caches'[b].reservation]
<1>7. CASE WritesCopy(ready[a], a, r, done)
  <2> USE DEF WritesCopy, AnswerData
  <2> HIDE DEF done, lost
  <2>1. \A b \in Agents \ {a} : ready[b].reservation = NoGranule
    BY <1>1, <1>7, LineAssumption DEF LineInv, ReadOperations, Caches, StableStates
  <2>2. reserved1 = [b \in Agents |-> IF OverlapsReservation(r, held[b]) THEN NoGranule
                                                                         ELSE held[b]]
    <3>1. ASSUME NEW b \in Agents
          PROVE  (IF b = a THEN done.cache.reservation ELSE ready[b].reservation)
                    = IF OverlapsReservation(r, ready[b].reservation) THEN NoGranule
                                                                      ELSE ready[b].reservation
      BY <1>7, <2>1, Zenon
    <3>2. reserved1 = [b \in Agents |-> IF OverlapsReservation(r, ready[b].reservation)
                                          THEN NoGranule ELSE ready[b].reservation]
      BY <1>5, <3>1, Zenon
    <3> HIDE DEF held
    <3>3. \A b \in Agents : held[b] = ready[b].reservation
      BY <1>2, Zenon
    <3> QED BY <3>2, <3>3, Zenon
  <2>3. Memory!Respond(a, r, held)
    BY <1>2, <1>3, <1>4, <1>7, <2>2, Zenon
       DEF Memory!Respond, Memory!Written, Memory!Clear, Memory!OverlapsReservation,
           Memory!Range, OverlapsReservation, Range, Memory!AtomicWrite, AtomicWrite,
           Memory!ApplyStore, ApplyStore, Memory!Words, Words, Memory!Response, Response,
           Memory!ReturnsData, ReturnsData, Memory!ReadSlice, ReadSlice,
           Memory!LlscReservation, LlscReservation
  <2> QED BY <1>6, <2>3, Zenon
<1>8. CASE FailsOnCopy(ready[a], a, r, done)
  <2> USE DEF FailsOnCopy
  <2> HIDE DEF done, lost
  <2>1. reserved1 = held /\ line = LineOf(caches', backing')
    BY <1>2, <1>3, <1>4, <1>5, <1>8, ZenonT(60)
  <2>2. Memory!Respond(a, r, held)
    BY <1>2, <1>4, <1>8, <2>1, Zenon
       DEF Memory!Respond, Memory!Response, Response, Memory!LlscReservation, LlscReservation
  <2> QED BY <1>6, <2>2, Zenon
<1>9. CASE ReadsCopy(ready[a], a, r, done)
  <2> USE DEF ReadsCopy, AnswerData
  <2> HIDE DEF done, lost
  <2>1. reserved1 = IF r.op = "LoadLocked" THEN [held EXCEPT ![a] = LlscReservation(r)] ELSE held
    BY <1>2, <1>5, <1>9, ZenonT(30)
  <2>2. line = LineOf(caches', backing')
    BY <1>3, <1>4, <1>9, Zenon
  <2>3. Memory!Respond(a, r, held)
    BY <1>3, <1>4, <1>9, <2>1, <2>2, Zenon
       DEF Memory!Respond, Memory!Response, Response, Memory!LlscReservation, LlscReservation,
           Memory!ReturnsData, ReturnsData, Memory!ReadSlice, ReadSlice, Memory!Range, Range
  <2> QED BY <1>6, <2>3, Zenon
<1>10. \/ WritesCopy(ready[a], a, r, done)
      \/ FailsOnCopy(ready[a], a, r, done)
      \/ ReadsCopy(ready[a], a, r, done)
  BY <1>1, CompleteResponds
<1> QED
  BY <1>7, <1>8, <1>9, <1>10

\* Every step of the harness is a step of the uncached store or leaves it alone.
LEMMA RefinementStep ==
    ASSUME "CacheBlockZero" \notin Operations
    PROVE  Inv /\ [Next]_vars => [Memory!MemoryNext]_(Memory!memoryVars)
<1> SUFFICES ASSUME Inv, [Next]_vars
             PROVE  Memory!MemoryNext \/ UNCHANGED Memory!memoryVars
  BY Zenon
<1>1. /\ agents \subseteq Agents
      /\ LineInv(caches, directory, backing)
      /\ \A a \in Agents : saved.caches[a].reservation = NoGranule
  BY Zenon DEF Inv
<1>2. ASSUME NEW a \in agents, NEW r \in Requests, Hit(a, r) \/ Miss(a, r)
      PROVE  Memory!MemoryNext
  <2>1. a \in Agents /\ saved' = saved
    BY <1>1, <1>2, Zenon DEF Hit, Miss
  <2>2. r.op # "CacheBlockZero" /\ r \in Memory!Requests
    BY DEF Requests, Memory!Requests, Words, Memory!Words, Values, Memory!Values,
           CarriesData, Memory!CarriesData
  <2>3. PICK ready \in [Agents -> Caches(StableStates)] :
            Prepared(ready, a, r) /\ Completes(ready, a, r)
    BY <1>1, <1>2, <2>1, AccessPrepares, Zenon
  <2>4. Memory!Access(a, r)
    BY <2>1, <2>2, <2>3, CompletesAccess, Zenon
  <2> QED BY <2>1, <2>2, <2>4, Zenon DEF Memory!MemoryNext, Memory!Access, Memory!Respond
<1>3. CASE Snapshot
  <2>1. /\ caches' = caches /\ backing' = backing /\ response' = response
        /\ saved'.caches = [a \in Agents |-> [caches[a] EXCEPT !.reservation = NoGranule]]
        /\ saved'.backing = backing /\ saved'.response = response
    BY <1>3 DEF Snapshot, HarnessSnapshot
  <2>2. LineOf(saved'.caches, saved'.backing) = LineOf(caches, backing)
    BY <1>1, <2>1, SnapshotCoherent, SameData
  <2>3. Memory!TakeSnapshot
    BY <2>1, <2>2, Zenon DEF Memory!TakeSnapshot, Memory!Snapshot
  <2> QED BY <2>3, Zenon DEF Memory!MemoryNext
<1>4. CASE Restore
  <2>1. /\ caches' = saved.caches /\ backing' = saved.backing
        /\ response' = saved.response /\ saved' = saved
    BY <1>4, Zenon DEF Restore
  <2>2. [a \in Agents |-> caches'[a].reservation] = [a \in Agents |-> NoGranule]
    BY <1>1, <2>1, Zenon
  <2>3. Memory!Restore
    BY <2>1, <2>2, Zenon DEF Memory!Restore
  <2> QED BY <2>3, Zenon DEF Memory!MemoryNext
<1>5. CASE UNCHANGED vars
  BY <1>5, Zenon DEF vars, Memory!memoryVars
<1> QED BY <1>2, <1>3, <1>4, <1>5, Zenon DEF Next

\* A new harness is a new store.
LEMMA RefinementInit == Init => Memory!MemoryInit
<1> SUFFICES ASSUME Init PROVE Memory!MemoryInit
  OBVIOUS
<1>1. /\ backing \in Lines /\ response = NoResponse /\ caches = [a \in Agents |-> EmptyCache]
      /\ saved.caches = [a \in Agents |-> [caches[a] EXCEPT !.reservation = NoGranule]]
      /\ saved.backing = backing /\ saved.response = response
  BY DEF Init, HarnessSnapshot
<1>2. \A a \in Agents : caches[a].data = NoData /\ caches[a].reservation = NoGranule
                        /\ saved.caches[a].data = NoData
  BY <1>1, ZenonT(30) DEF EmptyCache
<1>3. LineOf(caches, backing) = backing /\ LineOf(saved.caches, saved.backing) = backing
  BY <1>1, <1>2, Zenon DEF LineOf
<1>4. [a \in Agents |-> caches[a].reservation] = [a \in Agents |-> NoGranule]
  BY <1>2, Zenon
<1> QED
  BY <1>1, <1>3, <1>4, Zenon
     DEF Memory!MemoryInit, Memory!Lines, Memory!Words, Memory!Values, Lines, Words, Values,
         Memory!NoResponse, NoResponse, Memory!Snapshot

\* The MESI line is one line of LineMemoryStore, for any agents, line length and values, as long
\* as no CPU issues cache-block-zero: every response is one the uncached store could give, and
\* a restored snapshot brings back the data of the time it was taken.
THEOREM MesiImplementsLineMemory ==
    ASSUME "CacheBlockZero" \notin Operations
    PROVE  Spec => ImplementsLineMemory
<1>1. Inv /\ [Next]_vars => [Memory!MemoryNext]_(Memory!memoryVars)
  BY RefinementStep
<1> QED
  BY <1>1, RefinementInit, MesiInvariant, PTL DEF Spec, ImplementsLineMemory, Memory!MemorySpec
=============================================================================
