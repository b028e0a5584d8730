--------------------------- MODULE MsiChiAccesses ---------------------------
(***************************************************************************)
(* The invariant of one cache line under any of the four protocols, what   *)
(* its harnesses have in common, and the accesses of the MSI and the CHI   *)
(* line: each brings the line into the requester's copy and completes      *)
(* there, and keeps the invariant.                                         *)
(*                                                                         *)
(* What completing a request does is taken from MesiLineProofs, whose      *)
(* lemmas are cited through the instance MesiProofs.                       *)
(***************************************************************************)
EXTENDS CoherentLine, TLAPS

MesiProofs == INSTANCE MesiLineProofs

-----------------------------------------------------------------------------
(* The invariant                                                           *)

(***************************************************************************)
(* What the copies satisfy under every protocol: a controller is stable,   *)
(* has data exactly with a copy, and has no reservation without one.       *)
(***************************************************************************)
CopiesOk(copies, states) ==
    /\ copies \in [Agents -> Caches(states)]
    /\ \A a \in Agents :
          /\ copies[a].data = NoData <=> copies[a].state = "Invalid"
          /\ copies[a].state = "Invalid" => copies[a].reservation = NoGranule

(***************************************************************************)
(* MSI: the entry names exactly the Modified copy or the Shared ones.  The *)
(* backing store is not written back, so that the copies agree, and agree  *)
(* with it while some agent may still be served from it, is only claimed   *)
(* of a harness with at most two agents.                                   *)
(***************************************************************************)
Pair == \E x, y \in Agents : agents \subseteq {x, y}

MsiEntries == [owner : Agents \union {NoAgent}, sharers : SUBSET Agents]

MsiMatch(copies, entry) ==
    /\ entry \in MsiEntries
    /\ entry.owner # NoAgent => entry.sharers = {}
    /\ entry.sharers \subseteq agents /\ entry.owner \in agents \union {NoAgent}
    /\ \A a \in Agents :
          /\ entry.owner = a <=> copies[a].state = "Modified"
          /\ a \in entry.sharers <=> copies[a].state = "Shared"

MsiFresh(copies, entry, store) ==
    Pair => /\ \A a, b \in entry.sharers : copies[a].data = copies[b].data
            /\ ~ agents \subseteq entry.sharers =>
                  \A a \in entry.sharers : copies[a].data = store

MsiInv(copies, entry, store) ==
    /\ CopiesOk(copies, Msi!StableStates)
    /\ store \in Lines
    /\ MsiMatch(copies, entry)
    /\ MsiFresh(copies, entry, store)

(***************************************************************************)
(* MOESI: an Exclusive owner may have written silently.  When it is then   *)
(* read it becomes Owned while the directory counts it among the sharers,  *)
(* so a sharer may be Owned, but only one, and only without a recorded     *)
(* owner.                                                                  *)
(***************************************************************************)
MoesiEntries == [owner : Agents \union {NoAgent},
                 state : {"Invalid", "Exclusive", "Owned", "Modified"}, sharers : SUBSET Agents]

MoesiMatch(copies, entry) ==
    /\ entry \in MoesiEntries
    /\ entry.owner \notin entry.sharers
    /\ entry.owner = NoAgent <=> entry.state = "Invalid"
    /\ entry.state = "Exclusive" => entry.sharers = {}
    /\ \A a \in Agents :
          /\ copies[a].state # "Invalid" <=> a \in entry.sharers \/ a = entry.owner
          /\ a \in entry.sharers =>
                \/ copies[a].state = "Shared"
                \/ copies[a].state = "Owned" /\ entry.owner = NoAgent
          /\ a = entry.owner =>
                \/ copies[a].state = entry.state
                \/ copies[a].state = "Modified" /\ entry.state = "Exclusive"
    /\ \A a, b \in Agents : copies[a].state = "Owned" /\ copies[b].state = "Owned" => a = b

MoesiInv(copies, entry, store) ==
    /\ CopiesOk(copies, Moesi!StableStates)
    /\ store \in Lines
    /\ MoesiMatch(copies, entry)

(***************************************************************************)
(* CHI: the directory grants only UniqueDirty and SharedClean, and it      *)
(* updates the backing store whenever a unique copy becomes shared.        *)
(***************************************************************************)
ChiEntries == [owner : Agents \union {NoAgent}, state : {"Invalid", "UniqueDirty"},
               sharers : [Agents -> {"Invalid", "SharedClean"}]]

ChiMatch(copies, entry) ==
    /\ entry \in ChiEntries
    /\ entry.owner = NoAgent <=> entry.state = "Invalid"
    /\ entry.owner # NoAgent => entry.sharers = Chi!NoSharers
    /\ \A a \in Agents :
          copies[a].state = IF entry.owner = a THEN "UniqueDirty" ELSE entry.sharers[a]

ChiInv(copies, entry, store) ==
    /\ CopiesOk(copies, Chi!StableStates)
    /\ store \in Lines
    /\ ChiMatch(copies, entry)
    /\ \A a \in Agents : copies[a].state = "SharedClean" => copies[a].data = store

\* The invariant, of the running harness and of its snapshot.
LineInv(copies, entry, store) ==
    \/ protocol = "MSI" /\ MsiInv(copies, entry, store)
    \/ protocol = "MESI" /\ MesiProofs!LineInv(copies, entry, store)
    \/ protocol = "MOESI" /\ MoesiInv(copies, entry, store)
    \/ protocol = "CHI" /\ ChiInv(copies, entry, store)

Inv ==
    /\ agents \subseteq Agents
    /\ LineInv(caches, directory, backing)
    /\ LineInv(saved.caches, saved.directory, saved.backing)
    /\ \A a \in Agents : saved.caches[a].reservation = NoGranule

-----------------------------------------------------------------------------
(* The protocol modules share the requests and the controller's copy       *)

(***************************************************************************)
(* Each protocol module is instantiated with this module's constants, so   *)
(* the definitions it takes from CacheLine are the ones seen here.         *)
(***************************************************************************)
LEMMA MsiShares ==
    /\ Msi!Requests = Requests /\ Msi!Lines = Lines /\ Msi!EmptyCache = EmptyCache
    /\ \A states : Msi!Caches(states) = Caches(states)
    /\ \A r : Msi!CpuEvent(r) = CpuEvent(r)
    /\ \A copy, line : Msi!InstallData(copy, line) = InstallData(copy, line)
<1>1. Msi!Requests = Requests
  BY DEF Msi!Requests, Requests, Msi!Words, Words, Msi!Values, Values, Msi!CarriesData, CarriesData
<1>2. /\ Msi!Lines = Lines /\ Msi!EmptyCache = EmptyCache
      /\ \A states : Msi!Caches(states) = Caches(states)
  BY Zenon DEF Msi!Lines, Lines, Msi!Words, Words, Msi!Values, Values, Msi!EmptyCache, EmptyCache,
       Msi!Caches, Caches
<1>3. /\ \A r : Msi!CpuEvent(r) = CpuEvent(r)
      /\ \A copy, line : Msi!InstallData(copy, line) = InstallData(copy, line)
  BY Zenon DEF Msi!CpuEvent, CpuEvent, Msi!ReadOperations, ReadOperations, Msi!InstallData,
       InstallData
<1> QED BY <1>1, <1>2, <1>3

LEMMA MsiSharesCompletion ==
    ASSUME NEW copy, NEW a, NEW r
    PROVE  Msi!CompleteCpuRequest(copy, a, r) = CompleteCpuRequest(copy, a, r)
BY SMTT(30)
   DEF Msi!CompleteCpuRequest, CompleteCpuRequest, Msi!TouchesData, TouchesData, Msi!ReturnsData,
       ReturnsData, Msi!StoreConditionalAllowed, StoreConditionalAllowed, Msi!LlscReservation,
       LlscReservation, Msi!Completed, Completed, Msi!Response, Response, Msi!StoreData, StoreData,
       Msi!OverlapsReservation, OverlapsReservation, Msi!Range, Range, Msi!AtomicWrite,
       AtomicWrite, Msi!ApplyStore, ApplyStore, Msi!Words, Words, Msi!ReadSlice, ReadSlice

LEMMA MoesiShares ==
    /\ Moesi!Requests = Requests /\ Moesi!Lines = Lines /\ Moesi!EmptyCache = EmptyCache
    /\ \A states : Moesi!Caches(states) = Caches(states)
    /\ \A r : Moesi!CpuEvent(r) = CpuEvent(r)
    /\ \A copy, line : Moesi!InstallData(copy, line) = InstallData(copy, line)
<1>1. Moesi!Requests = Requests
  BY DEF Moesi!Requests, Requests, Moesi!Words, Words, Moesi!Values, Values, Moesi!CarriesData,
       CarriesData
<1>2. /\ Moesi!Lines = Lines /\ Moesi!EmptyCache = EmptyCache
      /\ \A states : Moesi!Caches(states) = Caches(states)
  BY Zenon DEF Moesi!Lines, Lines, Moesi!Words, Words, Moesi!Values, Values, Moesi!EmptyCache,
       EmptyCache,
       Moesi!Caches, Caches
<1>3. /\ \A r : Moesi!CpuEvent(r) = CpuEvent(r)
      /\ \A copy, line : Moesi!InstallData(copy, line) = InstallData(copy, line)
  BY Zenon DEF Moesi!CpuEvent, CpuEvent, Moesi!ReadOperations, ReadOperations, Moesi!InstallData,
       InstallData
<1> QED BY <1>1, <1>2, <1>3

LEMMA MoesiSharesCompletion ==
    ASSUME NEW copy, NEW a, NEW r
    PROVE  Moesi!CompleteCpuRequest(copy, a, r) = CompleteCpuRequest(copy, a, r)
BY SMTT(30)
   DEF Moesi!CompleteCpuRequest, CompleteCpuRequest, Moesi!TouchesData, TouchesData,
       Moesi!ReturnsData,
       ReturnsData, Moesi!StoreConditionalAllowed, StoreConditionalAllowed, Moesi!LlscReservation,
       LlscReservation, Moesi!Completed, Completed, Moesi!Response, Response, Moesi!StoreData,
       StoreData,
       Moesi!OverlapsReservation, OverlapsReservation, Moesi!Range, Range, Moesi!AtomicWrite,
       AtomicWrite, Moesi!ApplyStore, ApplyStore, Moesi!Words, Words, Moesi!ReadSlice, ReadSlice

LEMMA ChiShares ==
    /\ Chi!Requests = Requests /\ Chi!Lines = Lines /\ Chi!EmptyCache = EmptyCache
    /\ \A states : Chi!Caches(states) = Caches(states)
    /\ \A r : Chi!CpuEvent(r) = CpuEvent(r)
    /\ \A copy, line : Chi!InstallData(copy, line) = InstallData(copy, line)
<1>1. Chi!Requests = Requests
  BY DEF Chi!Requests, Requests, Chi!Words, Words, Chi!Values, Values, Chi!CarriesData,
       CarriesData
<1>2. /\ Chi!Lines = Lines /\ Chi!EmptyCache = EmptyCache
      /\ \A states : Chi!Caches(states) = Caches(states)
  BY Zenon DEF Chi!Lines, Lines, Chi!Words, Words, Chi!Values, Values, Chi!EmptyCache, EmptyCache,
       Chi!Caches, Caches
<1>3. /\ \A r : Chi!CpuEvent(r) = CpuEvent(r)
      /\ \A copy, line : Chi!InstallData(copy, line) = InstallData(copy, line)
  BY Zenon DEF Chi!CpuEvent, CpuEvent, Chi!ReadOperations, ReadOperations, Chi!InstallData,
       InstallData
<1> QED BY <1>1, <1>2, <1>3

LEMMA ChiSharesCompletion ==
    ASSUME NEW copy, NEW a, NEW r
    PROVE  Chi!CompleteCpuRequest(copy, a, r) = CompleteCpuRequest(copy, a, r)
BY SMTT(30)
   DEF Chi!CompleteCpuRequest, CompleteCpuRequest, Chi!TouchesData, TouchesData, Chi!ReturnsData,
       ReturnsData, Chi!StoreConditionalAllowed, StoreConditionalAllowed, Chi!LlscReservation,
       LlscReservation, Chi!Completed, Completed, Chi!Response, Response, Chi!StoreData,
       StoreData,
       Chi!OverlapsReservation, OverlapsReservation, Chi!Range, Range, Chi!AtomicWrite,
       AtomicWrite, Chi!ApplyStore, ApplyStore, Chi!Words, Words, Chi!ReadSlice, ReadSlice

LEMMA MesiShares ==
    /\ MesiProofs!Requests = Requests /\ MesiProofs!Lines = Lines
    /\ MesiProofs!EmptyCache = EmptyCache
    /\ \A states : MesiProofs!Caches(states) = Caches(states)
    /\ \A r : MesiProofs!CpuEvent(r) = CpuEvent(r)
    /\ \A copy, line : MesiProofs!InstallData(copy, line) = InstallData(copy, line)
<1>1. MesiProofs!Requests = Requests
  BY DEF MesiProofs!Requests, Requests, MesiProofs!Words, Words, MesiProofs!Values, Values,
       MesiProofs!CarriesData, CarriesData
<1>2. /\ MesiProofs!Lines = Lines /\ MesiProofs!EmptyCache = EmptyCache
      /\ \A states : MesiProofs!Caches(states) = Caches(states)
  BY Zenon DEF MesiProofs!Lines, Lines, MesiProofs!Words, Words, MesiProofs!Values, Values,
       MesiProofs!EmptyCache, EmptyCache,
       MesiProofs!Caches, Caches
<1>3. /\ \A r : MesiProofs!CpuEvent(r) = CpuEvent(r)
      /\ \A copy, line : MesiProofs!InstallData(copy, line) = InstallData(copy, line)
  BY Zenon DEF MesiProofs!CpuEvent, CpuEvent, MesiProofs!ReadOperations, ReadOperations,
       MesiProofs!InstallData,
       InstallData
<1> QED BY <1>1, <1>2, <1>3

LEMMA MesiSharesCompletion ==
    ASSUME NEW copy, NEW a, NEW r
    PROVE  MesiProofs!CompleteCpuRequest(copy, a, r) = CompleteCpuRequest(copy, a, r)
BY SMTT(30)
   DEF MesiProofs!CompleteCpuRequest, CompleteCpuRequest, MesiProofs!TouchesData, TouchesData,
       MesiProofs!ReturnsData,
       ReturnsData, MesiProofs!StoreConditionalAllowed, StoreConditionalAllowed,
       MesiProofs!LlscReservation,
       LlscReservation, MesiProofs!Completed, Completed, MesiProofs!Response, Response,
       MesiProofs!StoreData, StoreData,
       MesiProofs!OverlapsReservation, OverlapsReservation, MesiProofs!Range, Range,
       MesiProofs!AtomicWrite,
       AtomicWrite, MesiProofs!ApplyStore, ApplyStore, MesiProofs!Words, Words,
       MesiProofs!ReadSlice, ReadSlice

-----------------------------------------------------------------------------
(* Completing a request on the copies it was prepared on                   *)

\* A request, hit or miss, first brings the line into the requester's copy and then completes
\* there: "ready" are the copies in between.
Completes(ready, a, r) ==
    /\ caches' = [ready EXCEPT ![a] = CompleteCpuRequest(ready[a], a, r).cache]
    /\ response' = CompleteCpuRequest(ready[a], a, r).response

LEMMA NoDataIsNoLine == NoData \notin Lines
BY LineAssumption DEF Lines, Words, Values

\* Completing a request keeps every copy well formed and in its state; a read changes no data
\* and takes no reservation away.
LEMMA CompletesCopies ==
    ASSUME NEW states, NEW ready, CopiesOk(ready, states), NEW a \in Agents, NEW r \in Requests,
           ready[a].data \in Lines, Completes(ready, a, r)
    PROVE  /\ CopiesOk(caches', states)
           /\ \A b \in Agents : caches'[b].state = ready[b].state
           /\ \A b \in Agents \ {a} : caches'[b] = ready[b]
           /\ caches'[a].data \in Lines
           /\ r.op \in ReadOperations => caches'[a].data = ready[a].data
           /\ r.op \in ReadOperations /\ caches'[a].reservation = NoGranule
                 => ready[a].reservation = NoGranule
           /\ response'.op = r.op
<1> DEFINE done == CompleteCpuRequest(ready[a], a, r)
<1>1. ready \in [Agents -> Caches(states)] /\ ready[a] \in Caches(states)
  BY DEF CopiesOk
<1>2. /\ done.cache \in Caches(states)
      /\ done.cache.state = ready[a].state
      /\ done.cache.data \in Lines
      /\ r.op \in ReadOperations => done.cache.data = ready[a].data
      /\ r.op \in ReadOperations /\ done.cache.reservation = NoGranule
            => ready[a].reservation = NoGranule
      /\ done.response.op = r.op
  <2>1. /\ ready[a] \in MesiProofs!Caches(states) /\ ready[a].data \in MesiProofs!Lines
        /\ r \in MesiProofs!Requests
    BY <1>1, MesiShares, Zenon
  <2>2. done = MesiProofs!CompleteCpuRequest(ready[a], a, r)
    BY MesiSharesCompletion, Zenon
  <2>3. MesiProofs!ReadOperations = ReadOperations
    BY Zenon DEF MesiProofs!ReadOperations, ReadOperations
  <2> DEFINE result == MesiProofs!CompleteCpuRequest(ready[a], a, r)
  <2>4. /\ result.cache \in MesiProofs!Caches(states)
        /\ result.cache.state = ready[a].state
        /\ result.cache.data \in MesiProofs!Lines
        /\ r.op \in MesiProofs!ReadOperations => result.cache.data = ready[a].data
        /\ r.op \in MesiProofs!ReadOperations /\ result.cache.reservation = NoGranule
              => ready[a].reservation = NoGranule
        /\ result.response.op = r.op
    BY <2>1, MesiProofs!CompleteType, LineAssumption
  <2> HIDE DEF done, result
  <2>5. done = result
    BY <2>2 DEF result
  <2> QED BY <2>3, <2>4, <2>5, MesiShares, Zenon
<1> HIDE DEF done
<1>3. caches' = [ready EXCEPT ![a] = done.cache] /\ response' = done.response
  BY Zenon DEF Completes, done
<1>4. /\ caches' \in [Agents -> Caches(states)]
      /\ caches'[a] = done.cache
      /\ \A b \in Agents \ {a} : caches'[b] = ready[b]
  BY <1>1, <1>2, <1>3
<1>5. ready[a].state # "Invalid" /\ done.cache.data # NoData
  BY <1>2, NoDataIsNoLine DEF CopiesOk
<1>6. CopiesOk(caches', states)
  BY <1>2, <1>4, <1>5 DEF CopiesOk
<1> QED BY <1>2, <1>3, <1>4, <1>6, Zenon

-----------------------------------------------------------------------------
(* The copies a request is prepared on                                     *)

\* a hit: the requester's copy may change its state
HitCopies(a, state) == [caches EXCEPT ![a] = [caches[a] EXCEPT !.state = state]]

FilledCopy(state, line) == [state |-> state, data |-> line, reservation |-> NoGranule]

\* a read that misses: the requester is filled, and the snooped owner (if any) changes its state
ReadCopies(o, ownerState, a, copy) ==
    [b \in Agents |-> IF b = a THEN copy
                      ELSE IF b = o THEN [caches[b] EXCEPT !.state = ownerState]
                      ELSE caches[b]]

\* a write that misses: every other copy is gone
OnlyCopy(a, copy) == [b \in Agents |-> IF b = a THEN copy ELSE EmptyCache]

LEMMA HitShape ==
    ASSUME NEW states, CopiesOk(caches, states), NEW a \in Agents, caches[a].state # "Invalid",
           NEW state \in states, state # "Invalid"
    PROVE  LET ready == HitCopies(a, state)
           IN  /\ CopiesOk(ready, states) /\ ready[a].data \in Lines
               /\ \A b \in Agents :
                     /\ ready[b].state = IF b = a THEN state ELSE caches[b].state
                     /\ ready[b].data = caches[b].data
                     /\ ready[b].reservation = caches[b].reservation
<1> DEFINE ready == HitCopies(a, state)
<1>1. /\ caches \in [Agents -> Caches(states)] /\ caches[a] \in Caches(states)
      /\ caches[a].data # NoData
  BY DEF CopiesOk
<1>2. /\ ready = [caches EXCEPT ![a] = [caches[a] EXCEPT !.state = state]]
      /\ [caches[a] EXCEPT !.state = state] \in Caches(states)
  BY <1>1 DEF HitCopies, Caches
<1>3. /\ ready \in [Agents -> Caches(states)]
      /\ \A b \in Agents :
            /\ ready[b].state = IF b = a THEN state ELSE caches[b].state
            /\ ready[b].data = caches[b].data
            /\ ready[b].reservation = caches[b].reservation
  <2> HIDE DEF ready
  <2> QED BY <1>1, <1>2 DEF Caches
<1>4. ready[a].data \in Lines
  <2> HIDE DEF ready
  <2> QED BY <1>1, <1>3 DEF Caches
<1> HIDE DEF ready
<1>5. CopiesOk(ready, states)
  BY <1>1, <1>3 DEF CopiesOk
<1> QED BY <1>3, <1>4, <1>5 DEF ready

LEMMA ReadShape ==
    ASSUME NEW states, CopiesOk(caches, states), NEW a \in Agents, caches[a].state = "Invalid",
           NEW o, o # a, o \in Agents => caches[o].state # "Invalid",
           NEW ownerState \in states, ownerState # "Invalid",
           NEW state \in states, state # "Invalid", NEW line \in Lines
    PROVE  LET ready == ReadCopies(o, ownerState, a, FilledCopy(state, line))
           IN  /\ CopiesOk(ready, states) /\ ready[a].data \in Lines
               /\ \A b \in Agents :
                     /\ ready[b].state = IF b = a THEN state
                                         ELSE IF b = o THEN ownerState ELSE caches[b].state
                     /\ ready[b].data = IF b = a THEN line ELSE caches[b].data
                     /\ ready[b].reservation = caches[b].reservation
<1> DEFINE ready == ReadCopies(o, ownerState, a, FilledCopy(state, line))
<1>1. /\ caches \in [Agents -> Caches(states)]
      /\ caches[a].reservation = NoGranule
      /\ line # NoData
  BY NoDataIsNoLine DEF CopiesOk
<1>2. ASSUME NEW b \in Agents
      PROVE  /\ ready[b] \in Caches(states)
             /\ ready[b].state = IF b = a THEN state
                                 ELSE IF b = o THEN ownerState ELSE caches[b].state
             /\ ready[b].data = IF b = a THEN line ELSE caches[b].data
             /\ ready[b].reservation = caches[b].reservation
  <2>1. caches[b] \in Caches(states)
    BY <1>1
  <2>2. ready[b] = IF b = a THEN FilledCopy(state, line)
                   ELSE IF b = o THEN [caches[b] EXCEPT !.state = ownerState] ELSE caches[b]
    BY Zenon DEF ReadCopies
  <2> HIDE DEF ready
  <2>3. CASE b = a
    BY <1>1, <2>2, <2>3 DEF FilledCopy, Caches
  <2>4. CASE b # a /\ b = o
    BY <2>1, <2>2, <2>4 DEF Caches
  <2>5. CASE b # a /\ b # o
    BY <2>1, <2>2, <2>5, Zenon
  <2> QED BY <2>3, <2>4, <2>5, Zenon
<1>3. ready = [b \in Agents |-> ready[b]]
  BY Zenon DEF ReadCopies
<1> HIDE DEF ready
<1>4. ready \in [Agents -> Caches(states)]
  BY <1>2, <1>3, Zenon
<1>5. CopiesOk(ready, states)
  BY <1>1, <1>2, <1>4 DEF CopiesOk
<1>6. ready[a].data \in Lines
  BY <1>2, Zenon
<1> QED BY <1>2, <1>5, <1>6, Zenon DEF ready

LEMMA OnlyShape ==
    ASSUME NEW states, "Invalid" \in states, NEW a \in Agents, NEW copy \in Caches(states),
           copy.state # "Invalid", copy.data \in Lines
    PROVE  LET ready == OnlyCopy(a, copy)
           IN  /\ CopiesOk(ready, states) /\ ready[a] = copy
               /\ \A b \in Agents \ {a} :
                     /\ ready[b].state = "Invalid"
                     /\ ready[b].data = NoData
                     /\ ready[b].reservation = NoGranule
<1> DEFINE ready == OnlyCopy(a, copy)
<1>1. EmptyCache \in Caches(states) /\ copy.data # NoData
  BY NoDataIsNoLine DEF EmptyCache, Caches
<1>2. ready \in [Agents -> Caches(states)]
  BY <1>1, Zenon DEF OnlyCopy
<1>3. ready[a] = copy /\ \A b \in Agents \ {a} : ready[b] = EmptyCache
  BY Zenon DEF OnlyCopy
<1> HIDE DEF ready
<1>4. \A b \in Agents \ {a} :
          ready[b].state = "Invalid" /\ ready[b].data = NoData /\ ready[b].reservation = NoGranule
  <2>1. EmptyCache.state = "Invalid" /\ EmptyCache.data = NoData
        /\ EmptyCache.reservation = NoGranule
    BY DEF EmptyCache
  <2> QED BY <1>3, <2>1, Zenon
<1>5. CopiesOk(ready, states)
  <2>1. ASSUME NEW b \in Agents
        PROVE  /\ ready[b].data = NoData <=> ready[b].state = "Invalid"
               /\ ready[b].state = "Invalid" => ready[b].reservation = NoGranule
    BY <1>1, <1>3, <1>4, Zenon
  <2> QED BY <1>2, <2>1, Zenon DEF CopiesOk
<1> QED BY <1>3, <1>4, <1>5, Zenon DEF ready

(***************************************************************************)
(* What every protocol does: the copies are well formed with the line in   *)
(* the requester's copy, and only a request with write intent costs        *)
(* another cache its reservation.                                          *)
(***************************************************************************)
Prepared(states, ready, a, r) ==
    /\ CopiesOk(ready, states)
    /\ ready[a].data \in Lines
    /\ \A b \in Agents : ready[b].reservation \in {NoGranule, caches[b].reservation}
    /\ r.op \in ReadOperations =>
          \A b \in Agents : ready[b].reservation = caches[b].reservation

(***************************************************************************)
(* What MSI with two agents, MESI and CHI do besides: the requester's copy *)
(* is the line of memory, the other copies agree with it, and a write      *)
(* finds no other copy.                                                    *)
(***************************************************************************)
Fresh(ready, a, r) ==
    /\ Mesi!LineOf(caches, backing) = ready[a].data
    /\ \A b \in Agents : ready[b].data \in {NoData, ready[a].data}
    /\ r.op \in ReadOperations \/ \A b \in Agents \ {a} : /\ ready[b].data = NoData
                                                          /\ ready[b].reservation = NoGranule

\* The controller that answers at once completes on its own copy.
LEMMA HitCompletes ==
    ASSUME NEW states, caches \in [Agents -> Caches(states)], NEW a \in Agents, NEW r, NEW state,
           NEW done, done = CompleteCpuRequest([caches[a] EXCEPT !.state = state], a, r),
           caches' = [caches EXCEPT ![a] = done.cache], response' = done.response
    PROVE  Completes(HitCopies(a, state), a, r)
<1> DEFINE ready == HitCopies(a, state)
<1>1. ready[a] = [caches[a] EXCEPT !.state = state]
  BY Zenon DEF HitCopies
<1>2. [ready EXCEPT ![a] = done.cache] = [caches EXCEPT ![a] = done.cache]
  BY Zenon DEF HitCopies
<1> QED BY <1>1, <1>2, Zenon DEF Completes

\* A fill completes on the snooped copies with the requester's copy filled.
LEMMA FillCompletes ==
    ASSUME NEW snooped, DOMAIN snooped = Agents, NEW a \in Agents, NEW r, NEW copy, NEW ready,
           ready = [snooped EXCEPT ![a] = copy],
           NEW done, done = CompleteCpuRequest(copy, a, r),
           caches' = [snooped EXCEPT ![a] = done.cache], response' = done.response
    PROVE  Completes(ready, a, r)
<1>1. ready[a] = copy
  BY Zenon
<1>2. [ready EXCEPT ![a] = done.cache] = [snooped EXCEPT ![a] = done.cache]
  BY Zenon
<1> QED BY <1>1, <1>2, Zenon DEF Completes

\* accept_fill moves the state twice, and installs the data if there is any.
Moved(copy, state) == [copy EXCEPT !.state = state]

LEMMA FillMoves ==
    ASSUME NEW states, NEW copy \in Caches(states), NEW waiting, NEW state
    PROVE  Moved(Moved(copy, waiting), state) = Moved(copy, state)
BY Zenon DEF Caches, Moved

LEMMA FillInstalls ==
    ASSUME NEW states, NEW copy \in Caches(states), NEW state, NEW line
    PROVE  InstallData(Moved(copy, state), line) = FilledCopy(state, line)
<1>1. [copy EXCEPT !.state = state]
         = [state |-> state, data |-> copy.data, reservation |-> copy.reservation]
  BY DEF Caches
<1>2. ASSUME NEW data, NEW reservation
      PROVE  [[state |-> state, data |-> data, reservation |-> reservation]
                 EXCEPT !.data = line, !.reservation = NoGranule]
                = [state |-> state, data |-> line, reservation |-> NoGranule]
  <2>1. [[state |-> state, data |-> data, reservation |-> reservation] EXCEPT !.data = line]
           = [state |-> state, data |-> line, reservation |-> reservation]
    OBVIOUS
  <2>2. [[state |-> state, data |-> line, reservation |-> reservation]
            EXCEPT !.reservation = NoGranule]
           = [state |-> state, data |-> line, reservation |-> NoGranule]
    OBVIOUS
  <2> QED BY <2>1, <2>2, Zenon
<1> QED BY <1>1, <1>2, Zenon DEF InstallData, FilledCopy, Moved

-----------------------------------------------------------------------------
(* The MSI line                                                            *)

LEMMA MsiTransitions ==
    /\ Msi!Transition("Invalid", "CpuRead") = "InvalidToShared"
    /\ Msi!Transition("Invalid", "CpuWrite") = "InvalidToModified"
    /\ Msi!Transition("Shared", "CpuRead") = "Shared"
    /\ Msi!Transition("Shared", "CpuWrite") = "SharedToModified"
    /\ Msi!Transition("Modified", "CpuRead") = "Modified"
    /\ Msi!Transition("Modified", "CpuWrite") = "Modified"
    /\ Msi!Transition("Modified", "SnoopRead") = "Shared"
    /\ Msi!Transition("Shared", "SnoopWrite") = "Invalid"
    /\ Msi!Transition("Modified", "SnoopWrite") = "Invalid"
    /\ Msi!Transition("InvalidToShared", "DataShared") = "Shared"
    /\ Msi!Transition("InvalidToModified", "DataModified") = "Modified"
    /\ Msi!Transition("SharedToModified", "DataModified") = "Modified"
BY DEF Msi!Transition

\* A hit leaves the copy's state: only a Modified copy is written at once.
LEMMA MsiHit ==
    ASSUME MsiInv(caches, directory, backing), NEW a \in Agents, NEW r \in Requests, Msi!Hit(a, r)
    PROVE  /\ caches[a].state \in {"Shared", "Modified"}
           /\ r.op \in ReadOperations \/ caches[a].state = "Modified"
           /\ Completes(HitCopies(a, caches[a].state), a, r)
           /\ UNCHANGED <<agents, directory, backing, saved>>
<1> DEFINE after == Msi!Transition(caches[a].state, CpuEvent(r))
<1>1. caches \in [Agents -> Caches(Msi!StableStates)] /\ caches[a].state \in Msi!StableStates
  BY DEF MsiInv, CopiesOk, Caches
<1>2. /\ after \notin Msi!TransientStates
      /\ caches' = [caches EXCEPT ![a] =
            CompleteCpuRequest([caches[a] EXCEPT !.state = after], a, r).cache]
      /\ response' = CompleteCpuRequest([caches[a] EXCEPT !.state = after], a, r).response
      /\ UNCHANGED <<agents, directory, backing, saved>>
  BY MsiShares, MsiSharesCompletion, Zenon DEF Msi!Hit
<1>3. CpuEvent(r) = IF r.op \in ReadOperations THEN "CpuRead" ELSE "CpuWrite"
  BY Zenon DEF CpuEvent
<1>4. /\ after = caches[a].state
      /\ caches[a].state \in {"Shared", "Modified"}
      /\ r.op \in ReadOperations \/ caches[a].state = "Modified"
  BY <1>1, <1>2, <1>3, MsiTransitions DEF Msi!StableStates, Msi!TransientStates
<1>5. Completes(HitCopies(a, after), a, r)
  <2> HIDE DEF after
  <2> QED BY <1>1, <1>2, HitCompletes, Zenon
<1> QED BY <1>2, <1>4, <1>5, Zenon

\* A miss: the directory's decision, the snoops, and the requester's fill on top of them.
LEMMA MsiMiss ==
    ASSUME MsiInv(caches, directory, backing), NEW a \in Agents, NEW r \in Requests,
           Msi!Miss(a, r),
           NEW waiting, waiting = Msi!Transition(caches[a].state, CpuEvent(r)),
           NEW decision,
           decision = Msi!Accept(directory, a, Msi!DownstreamRequest(r, caches[a].state)),
           decision.granted = TRUE,
           NEW state, state = Msi!Transition(waiting, Msi!PendingFillEvent(waiting)),
           NEW copy,
           copy = IF Msi!GrantData(decision) = NoData THEN Moved(caches[a], state)
                                                      ELSE FilledCopy(state, Msi!GrantData(decision))
    PROVE  /\ directory' = decision.entry
           /\ Completes([Msi!Snooped(decision) EXCEPT ![a] = copy], a, r)
           /\ UNCHANGED <<agents, backing, saved>>
<1> DEFINE data == Msi!GrantData(decision)
           event == Msi!PendingFillEvent(waiting)
           before == Moved(caches[a], waiting)
           done == Msi!AcceptFill(before, a, r, event, data)
<1>1. /\ directory' = decision.entry
      /\ caches' = [Msi!Snooped(decision) EXCEPT ![a] = done.cache]
      /\ response' = done.response
      /\ UNCHANGED <<agents, backing, saved>>
  BY MsiShares, Zenon DEF Msi!Miss, Moved
<1>2. caches[a] \in Caches(Msi!StableStates)
  BY DEF MsiInv, CopiesOk
<1>3. before.state = waiting
  BY <1>2 DEF Caches, Moved
<1>4. /\ Moved(before, state) = Moved(caches[a], state)
      /\ InstallData(Moved(caches[a], state), data) = FilledCopy(state, data)
  <2> HIDE DEF data
  <2>1. Moved(before, state) = Moved(caches[a], state)
    BY <1>2, FillMoves
  <2>2. InstallData(Moved(caches[a], state), data) = FilledCopy(state, data)
    BY <1>2, FillInstalls
  <2> QED BY <2>1, <2>2
<1>5. done = CompleteCpuRequest(copy, a, r)
  <2> HIDE DEF data, event, before
  <2>1. done = Msi!CompleteCpuRequest(
                   IF data = NoData THEN Moved(before, state)
                                    ELSE InstallData(Moved(before, state), data), a, r)
    BY <1>3, MsiShares, Zenon DEF Msi!AcceptFill, event, Moved
  <2>2. copy = IF data = NoData THEN Moved(before, state)
                                ELSE InstallData(Moved(before, state), data)
    BY <1>4, Zenon DEF data
  <2> QED BY <2>1, <2>2, MsiSharesCompletion, Zenon
<1>6. DOMAIN Msi!Snooped(decision) = Agents
  BY Zenon DEF Msi!Snooped
<1> HIDE DEF done
<1>7. Completes([Msi!Snooped(decision) EXCEPT ![a] = copy], a, r)
  BY <1>1, <1>5, <1>6, FillCompletes, Zenon
<1> QED BY <1>1, <1>7, Zenon

\* A read that misses: a Modified owner is downgraded and supplies the line, or the backing
\* store does.
LEMMA MsiRead ==
    ASSUME MsiInv(caches, directory, backing), NEW a \in Agents, NEW r \in Requests,
           Msi!Miss(a, r), r.op \in ReadOperations
    PROVE  LET o == directory.owner
               line == IF o = NoAgent THEN backing ELSE caches[o].data
               holders == IF o = NoAgent THEN directory.sharers \union {a} ELSE {o, a}
           IN  /\ caches[a].state = "Invalid"
               /\ directory' = [owner |-> NoAgent, sharers |-> holders]
               /\ Completes(ReadCopies(o, "Shared", a, FilledCopy("Shared", line)), a, r)
               /\ UNCHANGED <<agents, backing, saved>>
<1> DEFINE o == directory.owner
           line == IF o = NoAgent THEN backing ELSE caches[o].data
           holders == IF o = NoAgent THEN directory.sharers \union {a} ELSE {o, a}
           entry == [owner |-> NoAgent, sharers |-> holders]
           decision == IF o = NoAgent
                         THEN Msi!Decision(entry, {}, "SnoopRead", "BackingMemory", NoAgent)
                         ELSE Msi!Decision(entry, {o}, "SnoopRead", "ModifiedOwner", o)
           copy == FilledCopy("Shared", line)
<1>1. /\ caches \in [Agents -> Caches(Msi!StableStates)] /\ caches[a].state \in Msi!StableStates
      /\ CpuEvent(r) = "CpuRead"
      /\ Msi!Transition(caches[a].state, CpuEvent(r)) \in Msi!TransientStates
  <2>1. CpuEvent(r) = "CpuRead"
    BY Zenon DEF CpuEvent
  <2>2. Msi!Transition(caches[a].state, CpuEvent(r)) \in Msi!TransientStates
    BY MsiShares, Zenon DEF Msi!Miss
  <2> QED BY <2>1, <2>2 DEF MsiInv, CopiesOk, Caches
<1>2. /\ caches[a].state = "Invalid"
      /\ Msi!Transition(caches[a].state, CpuEvent(r)) = "InvalidToShared"
  BY <1>1, MsiTransitions DEF Msi!StableStates, Msi!TransientStates
<1>3. /\ o # a /\ a \notin directory.sharers /\ directory \in MsiEntries
      /\ o # NoAgent => o \in Agents /\ caches[o].state = "Modified" /\ directory.sharers = {}
      /\ line \in Lines /\ line # NoData
  BY <1>1, <1>2, NoDataIsNoLine, LineAssumption DEF MsiInv, MsiMatch, MsiEntries, CopiesOk, Caches
<1>4. Msi!DownstreamRequest(r, caches[a].state) = "ReadShared"
  BY <1>1, MsiShares DEF Msi!DownstreamRequest
<1>5. Msi!Accept(directory, a, "ReadShared") = decision
  <2>1. Msi!Accept(directory, a, "ReadShared") = Msi!AcceptReadShared(directory, a)
    BY DEF Msi!Accept
  <2>2. CASE o = NoAgent
    <3>1. Msi!AcceptReadShared(directory, a)
            = Msi!Decision([directory EXCEPT !.sharers = @ \union {a}], {}, "SnoopRead",
                           "BackingMemory", NoAgent)
      BY <1>3, <2>2 DEF Msi!AcceptReadShared
    <3>2. [directory EXCEPT !.sharers = @ \union {a}] = entry
      BY <1>3, <2>2 DEF MsiEntries
    <3> QED BY <2>1, <2>2, <3>1, <3>2, Zenon
  <2>3. CASE o # NoAgent
    <3>1. Msi!AcceptReadShared(directory, a)
            = Msi!Decision([owner |-> NoAgent, sharers |-> directory.sharers \union {o, a}],
                           {o}, "SnoopRead", "ModifiedOwner", o)
      BY <1>3, <2>3 DEF Msi!AcceptReadShared
    <3>2. directory.sharers \union {o, a} = holders
      BY <1>3, <2>3
    <3> QED BY <2>1, <2>3, <3>1, <3>2, Zenon
  <2> QED BY <2>2, <2>3, Zenon
<1>6. /\ decision.granted = TRUE /\ decision.entry = entry
      /\ decision.snooped = (IF o = NoAgent THEN {} ELSE {o}) /\ decision.event = "SnoopRead"
      /\ Msi!GrantData(decision) = line
  <2> HIDE DEF entry
  <2> QED BY DEF Msi!Decision, Msi!GrantData
<1>7. /\ Msi!PendingFillEvent("InvalidToShared") = "DataShared"
      /\ Msi!Transition("InvalidToShared", "DataShared") = "Shared"
  BY MsiTransitions DEF Msi!PendingFillEvent
<1> HIDE DEF decision
<1>8. [Msi!Snooped(decision) EXCEPT ![a] = copy] = ReadCopies(o, "Shared", a, copy)
  <2>1. ASSUME NEW b \in Agents, b # a
        PROVE  Msi!Snooped(decision)[b]
                  = IF b = o THEN [caches[b] EXCEPT !.state = "Shared"] ELSE caches[b]
    <3>1. CASE b = o
      <4>1. b \in decision.snooped /\ caches[b].state = "Modified"
        BY <1>3, <1>6, <3>1, LineAssumption
      <4>2. Msi!AcceptSnoop(caches[b], "SnoopRead") = [caches[b] EXCEPT !.state = "Shared"]
        BY <4>1, MsiTransitions DEF Msi!AcceptSnoop
      <4> QED BY <1>6, <3>1, <4>1, <4>2, Zenon DEF Msi!Snooped
    <3>2. CASE b # o
      <4>1. b \notin decision.snooped
        BY <1>6, <3>2
      <4> QED BY <3>2, <4>1, Zenon DEF Msi!Snooped
    <3> QED BY <3>1, <3>2
  <2>2. Msi!Snooped(decision) = [b \in Agents |-> Msi!Snooped(decision)[b]]
    BY Zenon DEF Msi!Snooped
  <2> HIDE DEF copy
  <2> QED BY <2>1, <2>2, Zenon DEF ReadCopies
<1>9. /\ directory' = decision.entry
      /\ Completes([Msi!Snooped(decision) EXCEPT ![a] = copy], a, r)
      /\ UNCHANGED <<agents, backing, saved>>
  <2>1. copy = IF Msi!GrantData(decision) = NoData
                 THEN Moved(caches[a], "Shared")
                 ELSE FilledCopy("Shared", Msi!GrantData(decision))
    <3> HIDE DEF line
    <3> QED BY <1>3, <1>6, Zenon
  <2>2. /\ "InvalidToShared" = Msi!Transition(caches[a].state, CpuEvent(r))
        /\ "Shared" = Msi!Transition("InvalidToShared", Msi!PendingFillEvent("InvalidToShared"))
        /\ decision = Msi!Accept(directory, a, Msi!DownstreamRequest(r, caches[a].state))
    BY <1>2, <1>4, <1>5, <1>7, Zenon
  <2> HIDE DEF copy
  <2> QED BY <1>6, <2>1, <2>2, MsiMiss, Zenon
<1> QED BY <1>2, <1>6, <1>8, <1>9, Zenon

\* A write that misses: with a Shared copy it upgrades, without one it takes the line from the
\* owner or the backing store; every other copy is emptied.
LEMMA MsiWrite ==
    ASSUME MsiInv(caches, directory, backing), NEW a \in Agents, NEW r \in Requests,
           Msi!Miss(a, r), r.op \notin ReadOperations
    PROVE  LET o == directory.owner
               line == IF o = NoAgent THEN backing ELSE caches[o].data
               copy == IF caches[a].state = "Shared" THEN Moved(caches[a], "Modified")
                                                     ELSE FilledCopy("Modified", line)
           IN  /\ caches[a].state \in {"Invalid", "Shared"}
               /\ line \in Lines
               /\ directory' = Msi!Owned(a)
               /\ Completes(OnlyCopy(a, copy), a, r)
               /\ UNCHANGED <<agents, backing, saved>>
<1> DEFINE o == directory.owner
           line == IF o = NoAgent THEN backing ELSE caches[o].data
           shares == caches[a].state = "Shared"
           copy == IF shares THEN Moved(caches[a], "Modified") ELSE FilledCopy("Modified", line)
           others == (directory.sharers \union {o}) \ {a, NoAgent}
           source == IF shares THEN "NoData"
                     ELSE IF o = NoAgent THEN "BackingMemory" ELSE "ModifiedOwner"
           supplier == IF shares THEN NoAgent ELSE o
           decision == Msi!Decision(Msi!Owned(a), others, "SnoopWrite", source, supplier)
           waiting == IF shares THEN "SharedToModified" ELSE "InvalidToModified"
<1>1. /\ caches \in [Agents -> Caches(Msi!StableStates)] /\ caches[a].state \in Msi!StableStates
      /\ CpuEvent(r) = "CpuWrite"
      /\ Msi!Transition(caches[a].state, CpuEvent(r)) \in Msi!TransientStates
  <2>1. CpuEvent(r) = "CpuWrite"
    BY Zenon DEF CpuEvent
  <2>2. Msi!Transition(caches[a].state, CpuEvent(r)) \in Msi!TransientStates
    BY MsiShares, Zenon DEF Msi!Miss
  <2> QED BY <2>1, <2>2 DEF MsiInv, CopiesOk, Caches
<1>2. /\ caches[a].state \in {"Invalid", "Shared"}
      /\ Msi!Transition(caches[a].state, CpuEvent(r)) = waiting
  BY <1>1, MsiTransitions DEF Msi!StableStates, Msi!TransientStates
<1>3. /\ o # a /\ NoAgent # a /\ directory \in MsiEntries
      /\ a \in directory.sharers <=> shares
      /\ o # NoAgent => o \in Agents /\ caches[o].state = "Modified" /\ directory.sharers = {}
      /\ line \in Lines /\ line # NoData
  BY <1>1, <1>2, NoDataIsNoLine, LineAssumption DEF MsiInv, MsiMatch, MsiEntries, CopiesOk, Caches
<1>4. Msi!Accept(directory, a, Msi!DownstreamRequest(r, caches[a].state)) = decision
  <2>1. CASE shares
    <3>1. Msi!DownstreamRequest(r, caches[a].state) = "Upgrade"
      BY <1>1, <2>1, MsiShares DEF Msi!DownstreamRequest
    <3>2. Msi!Accept(directory, a, "Upgrade") = Msi!AcceptUpgrade(directory, a)
      BY DEF Msi!Accept
    <3>3. Msi!AcceptUpgrade(directory, a)
            = Msi!Decision(Msi!Owned(a), directory.sharers \ {a}, "SnoopWrite", "NoData", NoAgent)
      BY <1>3, <2>1 DEF Msi!AcceptUpgrade
    <3>4. directory.sharers \ {a} = others
      BY <1>3, <2>1, LineAssumption DEF MsiEntries
    <3> QED BY <2>1, <3>1, <3>2, <3>3, <3>4, Zenon
  <2>2. CASE ~shares
    <3>1. Msi!DownstreamRequest(r, caches[a].state) = "ReadUnique"
      BY <1>1, <2>2, MsiShares DEF Msi!DownstreamRequest
    <3>2. Msi!Accept(directory, a, "ReadUnique") = Msi!AcceptReadUnique(directory, a)
      BY DEF Msi!Accept
    <3>3. Msi!AcceptReadUnique(directory, a)
            = Msi!Decision(Msi!Owned(a), others, "SnoopWrite",
                           IF o = NoAgent THEN "BackingMemory" ELSE "ModifiedOwner", o)
      <4> HIDE DEF others
      <4> QED BY <1>3, <2>2 DEF Msi!AcceptReadUnique, others
    <3> QED BY <2>2, <3>1, <3>2, <3>3, Zenon
  <2> QED BY <2>1, <2>2, Zenon
<1>5. /\ decision.granted = TRUE /\ decision.entry = Msi!Owned(a)
      /\ decision.snooped = others /\ decision.event = "SnoopWrite"
      /\ Msi!GrantData(decision) = IF shares THEN NoData ELSE line
  <2> HIDE DEF others
  <2> QED BY DEF Msi!Decision, Msi!GrantData
<1>6. /\ Msi!PendingFillEvent(waiting) = "DataModified"
      /\ Msi!Transition(waiting, "DataModified") = "Modified"
  BY MsiTransitions DEF Msi!PendingFillEvent
<1> HIDE DEF decision
<1>7. [Msi!Snooped(decision) EXCEPT ![a] = copy] = OnlyCopy(a, copy)
  <2>1. ASSUME NEW b \in Agents, b # a PROVE Msi!Snooped(decision)[b] = EmptyCache
    <3>1. CASE b \in others
      <4>1. caches[b].state \in {"Shared", "Modified"}
        BY <3>1 DEF MsiInv, MsiMatch
      <4>2. Msi!Transition(caches[b].state, "SnoopWrite") = "Invalid"
        BY <4>1, MsiTransitions
      <4>3. Msi!AcceptSnoop(caches[b], "SnoopWrite") = EmptyCache
        BY <4>2, MsiShares, Zenon DEF Msi!AcceptSnoop
      <4> HIDE DEF others
      <4> QED BY <1>5, <3>1, <4>3, Zenon DEF Msi!Snooped
    <3>2. CASE b \notin others
      <4>1. caches[b].state = "Invalid"
        BY <1>1, <2>1, <3>2, LineAssumption DEF MsiInv, MsiMatch, Caches, Msi!StableStates
      <4>2. caches[b] = EmptyCache
        BY <4>1 DEF MsiInv, CopiesOk, Caches, EmptyCache
      <4> HIDE DEF others
      <4> QED BY <1>5, <3>2, <4>2, Zenon DEF Msi!Snooped
    <3> QED BY <3>1, <3>2
  <2>2. Msi!Snooped(decision) = [b \in Agents |-> Msi!Snooped(decision)[b]]
    BY Zenon DEF Msi!Snooped
  <2> HIDE DEF copy
  <2> QED BY <2>1, <2>2, Zenon DEF OnlyCopy
<1>8. /\ directory' = decision.entry
      /\ Completes([Msi!Snooped(decision) EXCEPT ![a] = copy], a, r)
      /\ UNCHANGED <<agents, backing, saved>>
  <2>1. copy = IF Msi!GrantData(decision) = NoData
                 THEN Moved(caches[a], "Modified")
                 ELSE FilledCopy("Modified", Msi!GrantData(decision))
    <3> HIDE DEF line
    <3> QED BY <1>3, <1>5, Zenon
  <2>2. /\ waiting = Msi!Transition(caches[a].state, CpuEvent(r))
        /\ "Modified" = Msi!Transition(waiting, Msi!PendingFillEvent(waiting))
        /\ decision = Msi!Accept(directory, a, Msi!DownstreamRequest(r, caches[a].state))
    <3> HIDE DEF waiting
    <3> QED BY <1>2, <1>4, <1>6, Zenon
  <2> HIDE DEF copy, waiting
  <2> QED BY <1>5, <2>1, <2>2, MsiMiss, Zenon
<1> QED BY <1>2, <1>3, <1>5, <1>7, <1>8, Zenon

\* The line of memory: the data of any copy when the copies agree, or else the backing store.
LEMMA LineOfCopy ==
    ASSUME NEW copies, NEW store, NEW x \in Agents, copies[x].data # NoData,
           \A y \in Agents : copies[y].data \in {NoData, copies[x].data}
    PROVE  Mesi!LineOf(copies, store) = copies[x].data
<1> DEFINE y == CHOOSE y \in Agents : copies[y].data # NoData
<1>1. y \in Agents /\ copies[y].data # NoData
  BY Zenon
<1>2. Mesi!LineOf(copies, store) = copies[y].data
  BY Zenon DEF Mesi!LineOf
<1> HIDE DEF y
<1> QED BY <1>1, <1>2

LEMMA LineOfStore ==
    ASSUME NEW copies, NEW store, \A y \in Agents : copies[y].data \in {NoData, store}
    PROVE  Mesi!LineOf(copies, store) = store
<1>1. CASE \E x \in Agents : copies[x].data # NoData
  <2>1. PICK x \in Agents : copies[x].data # NoData
    BY <1>1, Zenon
  <2>2. copies[x].data = store
    BY <2>1
  <2> QED BY <2>1, <2>2, LineOfCopy, Zenon
<1>2. CASE ~ \E x \in Agents : copies[x].data # NoData
  BY <1>2, Zenon DEF Mesi!LineOf
<1> QED BY <1>1, <1>2

\* Completing the request keeps the MSI invariant: it writes only a Modified copy.
LEMMA MsiCompletes ==
    ASSUME NEW a \in Agents, NEW r \in Requests, NEW ready,
           Prepared(Msi!StableStates, ready, a, r), Completes(ready, a, r), agents' = agents,
           MsiMatch(ready, directory'), MsiFresh(ready, directory', backing'), backing' \in Lines,
           r.op \in ReadOperations \/ ready[a].state = "Modified"
    PROVE  MsiInv(caches, directory, backing)'
<1>1. /\ CopiesOk(caches', Msi!StableStates)
      /\ \A b \in Agents : caches'[b].state = ready[b].state
      /\ \A b \in Agents \ {a} : caches'[b] = ready[b]
      /\ r.op \in ReadOperations => caches'[a].data = ready[a].data
  <2>1. CopiesOk(ready, Msi!StableStates) /\ ready[a].data \in Lines
    BY Zenon DEF Prepared
  <2> QED BY <2>1, CompletesCopies
<1>2. MsiMatch(caches, directory)'
  BY <1>1 DEF MsiMatch
<1>3. \A b \in directory'.sharers : b \in Agents /\ caches'[b].data = ready[b].data
  <2>1. ASSUME NEW b \in directory'.sharers PROVE b \in Agents /\ ready[b].state = "Shared"
    BY DEF MsiMatch, MsiEntries
  <2> QED BY <1>1, <2>1
<1>4. MsiFresh(caches, directory, backing)'
  <2>1. Pair' <=> Pair
    BY DEF Pair
  <2> QED BY <1>3, <2>1 DEF MsiFresh
<1>5. CopiesOk(caches, Msi!StableStates)'
  BY <1>1 DEF CopiesOk, Msi!StableStates
<1> QED BY <1>2, <1>4, <1>5 DEF MsiInv

\* A hit of the MSI line.
LEMMA MsiHitStep ==
    ASSUME MsiInv(caches, directory, backing), NEW a \in Agents, NEW r \in Requests, Msi!Hit(a, r)
    PROVE  \E ready : /\ Prepared(Msi!StableStates, ready, a, r) /\ Completes(ready, a, r)
                      /\ MsiMatch(ready, directory') /\ MsiFresh(ready, directory', backing')
                      /\ r.op \in ReadOperations \/ ready[a].state = "Modified"
                      /\ Pair => Fresh(ready, a, r)
<1> DEFINE state == caches[a].state
           ready == HitCopies(a, state)
<1>1. /\ state \in {"Shared", "Modified"}
      /\ r.op \in ReadOperations \/ state = "Modified"
      /\ Completes(ready, a, r)
      /\ directory' = directory /\ backing' = backing
  BY MsiHit, Zenon
<1>2. /\ CopiesOk(ready, Msi!StableStates) /\ ready[a].data \in Lines
      /\ \A b \in Agents :
            /\ ready[b].state = IF b = a THEN state ELSE caches[b].state
            /\ ready[b].data = caches[b].data
            /\ ready[b].reservation = caches[b].reservation
  <2>1. CopiesOk(caches, Msi!StableStates) /\ state \in Msi!StableStates /\ state # "Invalid"
    BY <1>1 DEF MsiInv, Msi!StableStates
  <2> QED BY <2>1, HitShape
<1> HIDE DEF ready
<1>3. MsiMatch(ready, directory') /\ MsiFresh(ready, directory', backing')
  <2>1. \A b \in Agents : ready[b].state = caches[b].state /\ ready[b].data = caches[b].data
    BY <1>2
  <2>2. MsiMatch(ready, directory')
    BY <1>1, <2>1 DEF MsiInv, MsiMatch
  <2>3. MsiFresh(ready, directory', backing')
    BY <1>1, <2>1 DEF MsiInv, MsiFresh, MsiMatch, MsiEntries
  <2> QED BY <2>2, <2>3
<1>4. Prepared(Msi!StableStates, ready, a, r)
  BY <1>2, Zenon DEF Prepared
<1>5. ASSUME Pair PROVE Fresh(ready, a, r)
  <2>1. ready[a].data = caches[a].data /\ caches[a].data # NoData
    BY <1>2, NoDataIsNoLine
  <2>2. \A b \in Agents : caches[b].data \in {NoData, caches[a].data}
    <3>1. CASE state = "Modified"
      <4>1. \A b \in Agents \ {a} : caches[b].state = "Invalid"
        BY <3>1, LineAssumption
           DEF MsiInv, MsiMatch, CopiesOk, Caches, Msi!StableStates
      <4> QED BY <4>1 DEF MsiInv, CopiesOk
    <3>2. CASE state = "Shared"
      <4>1. a \in directory.sharers /\ directory.owner = NoAgent
        BY <3>2 DEF MsiInv, MsiMatch
      <4>2. ASSUME NEW b \in Agents, caches[b].data # NoData PROVE b \in directory.sharers
        BY <4>1, <4>2, LineAssumption
           DEF MsiInv, MsiMatch, CopiesOk, Caches, Msi!StableStates
      <4> QED BY <1>5, <4>1, <4>2 DEF MsiInv, MsiFresh
    <3> QED BY <1>1, <3>1, <3>2
  <2>3. Mesi!LineOf(caches, backing) = ready[a].data
    BY <2>1, <2>2, LineOfCopy, Zenon
  <2>4. \A b \in Agents : ready[b].data \in {NoData, ready[a].data}
    BY <1>2, <2>1, <2>2, Zenon
  <2>5. ASSUME r.op \notin ReadOperations, NEW b \in Agents \ {a}
        PROVE  ready[b].data = NoData /\ ready[b].reservation = NoGranule
    <3>1. state = "Modified"
      BY <1>1, <2>5
    <3>2. caches[b].state = "Invalid"
      BY <3>1, LineAssumption
         DEF MsiInv, MsiMatch, CopiesOk, Caches, Msi!StableStates
    <3>3. caches[b].data = NoData /\ caches[b].reservation = NoGranule
      BY <3>2 DEF MsiInv, CopiesOk
    <3> QED BY <1>2, <3>3
  <2> QED BY <2>3, <2>4, <2>5, Zenon DEF Fresh
<1>6. ready[a].state = state
  BY <1>2
<1> QED BY <1>1, <1>3, <1>4, <1>5, <1>6, Zenon

\* Without a copy of its own, an MSI requester is served the line of memory.
LEMMA MsiServed ==
    ASSUME MsiInv(caches, directory, backing), NEW a \in agents, a \in Agents,
           caches[a].state = "Invalid", Pair,
           NEW line, line = IF directory.owner = NoAgent THEN backing
                                                         ELSE caches[directory.owner].data
    PROVE  /\ Mesi!LineOf(caches, backing) = line
           /\ \A b \in Agents : caches[b].data \in {NoData, line}
<1> DEFINE o == directory.owner
<1>1. CASE o = NoAgent
  <2>1. a \notin directory.sharers
    BY DEF MsiInv, MsiMatch
  <2>2. \A b \in directory.sharers : caches[b].data = backing
    BY <2>1 DEF MsiInv, MsiFresh
  <2>3. ASSUME NEW b \in Agents, caches[b].data # NoData PROVE b \in directory.sharers
    BY <1>1, <2>3, LineAssumption DEF MsiInv, MsiMatch, CopiesOk, Caches, Msi!StableStates
  <2>4. \A b \in Agents : caches[b].data \in {NoData, backing}
    BY <2>2, <2>3
  <2> QED BY <1>1, <2>4, LineOfStore, Zenon
<1>2. CASE o # NoAgent
  <2>1. o \in Agents /\ caches[o].state = "Modified" /\ directory.sharers = {}
    BY <1>2 DEF MsiInv, MsiMatch, MsiEntries
  <2>2. \A b \in Agents \ {o} : caches[b].state = "Invalid"
    BY <2>1 DEF MsiInv, MsiMatch, CopiesOk, Caches, Msi!StableStates
  <2>3. caches[o].data # NoData /\ \A b \in Agents : caches[b].data \in {NoData, caches[o].data}
    BY <2>1, <2>2 DEF MsiInv, CopiesOk
  <2> QED BY <1>2, <2>1, <2>3, LineOfCopy, Zenon
<1> QED BY <1>1, <1>2

\* A read miss of the MSI line.
LEMMA MsiReadStep ==
    ASSUME MsiInv(caches, directory, backing), NEW a \in agents, a \in Agents, NEW r \in Requests,
           Msi!Miss(a, r), r.op \in ReadOperations
    PROVE  \E ready : /\ Prepared(Msi!StableStates, ready, a, r) /\ Completes(ready, a, r)
                      /\ MsiMatch(ready, directory') /\ MsiFresh(ready, directory', backing')
                      /\ Pair => Fresh(ready, a, r)
<1> DEFINE o == directory.owner
           line == IF o = NoAgent THEN backing ELSE caches[o].data
           holders == IF o = NoAgent THEN directory.sharers \union {a} ELSE {o, a}
           ready == ReadCopies(o, "Shared", a, FilledCopy("Shared", line))
<1>1. /\ caches[a].state = "Invalid"
      /\ directory' = [owner |-> NoAgent, sharers |-> holders]
      /\ Completes(ready, a, r)
      /\ backing' = backing
  BY MsiRead, Zenon
<1>2. /\ o # a /\ a \notin directory.sharers
      /\ directory.sharers \subseteq Agents /\ directory.sharers \subseteq agents
      /\ o # NoAgent => o \in agents /\ o \in Agents /\ caches[o].state = "Modified"
      /\ o \in Agents => o # NoAgent
      /\ line \in Lines
  BY <1>1, NoDataIsNoLine, LineAssumption DEF MsiInv, MsiMatch, MsiEntries, CopiesOk, Caches
<1>3. /\ CopiesOk(ready, Msi!StableStates) /\ ready[a].data \in Lines
      /\ \A b \in Agents :
            /\ ready[b].state = IF b = a THEN "Shared"
                                ELSE IF b = o THEN "Shared" ELSE caches[b].state
            /\ ready[b].data = IF b = a THEN line ELSE caches[b].data
            /\ ready[b].reservation = caches[b].reservation
  <2>1. /\ CopiesOk(caches, Msi!StableStates) /\ "Shared" \in Msi!StableStates
        /\ o \in Agents => caches[o].state # "Invalid"
    BY <1>2 DEF MsiInv, Msi!StableStates
  <2> HIDE DEF line, o
  <2> QED BY <1>1, <1>2, <2>1, ReadShape
<1> HIDE DEF ready
<1>4. \A b \in Agents : /\ b \in holders <=> ready[b].state = "Shared"
                        /\ ready[b].state # "Modified"
  <2>1. CASE o = NoAgent
    <3>1. \A b \in Agents \ {a} : ready[b].state = caches[b].state /\ b # o
      BY <1>3, <2>1, LineAssumption
    <3>2. \A b \in Agents : /\ b \in directory.sharers <=> caches[b].state = "Shared"
                            /\ b # o => caches[b].state # "Modified"
      BY Zenon DEF MsiInv, MsiMatch
    <3>3. ready[a].state = "Shared"
      BY <1>3
    <3> QED BY <2>1, <3>1, <3>2, <3>3
  <2>2. CASE o # NoAgent
    <3>1. \A b \in Agents \ {o} : caches[b].state = "Invalid"
      BY <1>2, <2>2 DEF MsiInv, MsiMatch, CopiesOk, Caches, Msi!StableStates
    <3> QED BY <1>2, <1>3, <2>2, <3>1
  <2> QED BY <2>1, <2>2
<1>5. MsiMatch(ready, directory')
  <2>1. holders \subseteq Agents /\ holders \subseteq agents
    BY <1>2
  <2> HIDE DEF holders
  <2> QED BY <1>1, <1>4, <2>1, LineAssumption DEF MsiMatch, MsiEntries
<1>6. ASSUME Pair PROVE Fresh(ready, a, r) /\ MsiFresh(ready, directory', backing')
  <2>1. /\ Mesi!LineOf(caches, backing) = line
        /\ \A b \in Agents : caches[b].data \in {NoData, line}
    <3> HIDE DEF line
    <3> QED BY <1>1, <1>6, MsiServed DEF line
  <2> HIDE DEF line
  <2>2. ready[a].data = line /\ \A b \in Agents : ready[b].data \in {NoData, line}
    BY <1>3, <2>1
  <2>3. Fresh(ready, a, r)
    BY <2>1, <2>2, Zenon DEF Fresh
  <2>4. \A b \in holders : ready[b].data = line
    <3>1. \A b \in holders : b \in Agents /\ ready[b].data # NoData
      <4>1. holders \subseteq Agents
        BY <1>2
      <4> HIDE DEF holders
      <4> QED BY <1>3, <1>4, <4>1 DEF CopiesOk
    <3> HIDE DEF holders
    <3> QED BY <2>2, <3>1
  <2>5. ~ agents \subseteq holders => line = backing
    <3>1. CASE o = NoAgent
      BY <3>1 DEF line
    <3>2. CASE o # NoAgent
      <4>1. PICK x, y \in Agents : agents \subseteq {x, y}
        BY <1>6 DEF Pair
      <4>2. agents \subseteq holders
        BY <1>2, <3>2, <4>1
      <4> QED BY <4>2
    <3> QED BY <3>1, <3>2
  <2>6. directory'.sharers = holders
    <3> HIDE DEF holders
    <3> QED BY <1>1
  <2> HIDE DEF holders
  <2>7. MsiFresh(ready, directory', backing')
    BY <1>1, <2>4, <2>5, <2>6, Zenon DEF MsiFresh
  <2> QED BY <2>3, <2>7
<1>7. MsiFresh(ready, directory', backing')
  BY <1>6 DEF MsiFresh
<1>8. Prepared(Msi!StableStates, ready, a, r)
  BY <1>3, Zenon DEF Prepared
<1> QED BY <1>1, <1>5, <1>6, <1>7, <1>8, Zenon

\* A write miss of the MSI line.
LEMMA MsiWriteStep ==
    ASSUME MsiInv(caches, directory, backing), NEW a \in agents, a \in Agents, NEW r \in Requests,
           Msi!Miss(a, r), r.op \notin ReadOperations
    PROVE  \E ready : /\ Prepared(Msi!StableStates, ready, a, r) /\ Completes(ready, a, r)
                      /\ MsiMatch(ready, directory') /\ MsiFresh(ready, directory', backing')
                      /\ ready[a].state = "Modified"
                      /\ Pair => Fresh(ready, a, r)
<1> DEFINE o == directory.owner
           line == IF o = NoAgent THEN backing ELSE caches[o].data
           shares == caches[a].state = "Shared"
           copy == IF shares THEN Moved(caches[a], "Modified") ELSE FilledCopy("Modified", line)
           ready == OnlyCopy(a, copy)
<1>1. /\ caches[a].state \in {"Invalid", "Shared"}
      /\ line \in Lines
      /\ directory' = Msi!Owned(a)
      /\ Completes(ready, a, r)
      /\ backing' = backing
  BY MsiWrite, Zenon
<1>2. /\ copy \in Caches(Msi!StableStates) /\ copy.state = "Modified" /\ copy.data \in Lines
      /\ copy.reservation \in {NoGranule, caches[a].reservation}
      /\ copy.data = IF shares THEN caches[a].data ELSE line
  <2> HIDE DEF line
  <2>1. CASE shares
    <3>1. caches[a] \in Caches(Msi!StableStates) /\ caches[a].data # NoData
      BY <2>1 DEF MsiInv, CopiesOk
    <3> QED BY <2>1, <3>1 DEF Moved, Caches, Msi!StableStates
  <2>2. CASE ~shares
    BY <1>1, <2>2 DEF FilledCopy, Caches, Msi!StableStates
  <2> QED BY <2>1, <2>2
<1> HIDE DEF copy
<1>3. /\ CopiesOk(ready, Msi!StableStates) /\ ready[a] = copy
      /\ \A b \in Agents \ {a} :
            /\ ready[b].state = "Invalid"
            /\ ready[b].data = NoData
            /\ ready[b].reservation = NoGranule
  <2>1. "Invalid" \in Msi!StableStates
    BY DEF Msi!StableStates
  <2> QED BY <1>2, <2>1, OnlyShape
<1> HIDE DEF ready
<1>4. MsiMatch(ready, directory') /\ MsiFresh(ready, directory', backing')
  BY <1>1, <1>2, <1>3, LineAssumption DEF MsiMatch, MsiFresh, MsiEntries, Msi!Owned
<1>5. Prepared(Msi!StableStates, ready, a, r)
  BY <1>2, <1>3 DEF Prepared
<1>6. ASSUME Pair PROVE Fresh(ready, a, r)
  <2>1. Mesi!LineOf(caches, backing) = copy.data
    <3>1. CASE shares
      <4>1. a \in directory.sharers /\ directory.owner = NoAgent /\ caches[a].data # NoData
        BY <3>1 DEF MsiInv, MsiMatch, CopiesOk
      <4>2. ASSUME NEW b \in Agents, caches[b].data # NoData PROVE b \in directory.sharers
        BY <4>1, <4>2, LineAssumption
           DEF MsiInv, MsiMatch, CopiesOk, Caches, Msi!StableStates
      <4>3. \A b \in Agents : caches[b].data \in {NoData, caches[a].data}
        BY <1>6, <4>1, <4>2 DEF MsiInv, MsiFresh
      <4> QED BY <1>2, <3>1, <4>1, <4>3, LineOfCopy, Zenon
    <3>2. CASE ~shares
      <4>1. caches[a].state = "Invalid"
        BY <1>1, <3>2
      <4>2. Mesi!LineOf(caches, backing) = line
        <5> HIDE DEF line
        <5> QED BY <1>6, <4>1, MsiServed DEF line
      <4> QED BY <1>2, <3>2, <4>2, Zenon
    <3> QED BY <3>1, <3>2
  <2> QED BY <1>3, <2>1 DEF Fresh
<1>7. ready[a].state = "Modified"
  BY <1>2, <1>3
<1> QED BY <1>1, <1>4, <1>5, <1>6, <1>7, Zenon

-----------------------------------------------------------------------------
(* The CHI line                                                            *)

LEMMA ChiTransitions ==
    /\ Chi!Transition("Invalid", "CpuRead") = "InvalidToSharedClean"
    /\ Chi!Transition("Invalid", "CpuWrite") = "InvalidToUniqueDirty"
    /\ Chi!Transition("SharedClean", "CpuRead") = "SharedClean"
    /\ Chi!Transition("SharedClean", "CpuWrite") = "SharedCleanToUniqueClean"
    /\ Chi!Transition("UniqueDirty", "CpuRead") = "UniqueDirty"
    /\ Chi!Transition("UniqueDirty", "CpuWrite") = "UniqueDirty"
    /\ Chi!Transition("UniqueDirty", "SnoopShared") = "SharedClean"
    /\ Chi!Transition("SharedClean", "SnoopUnique") = "Invalid"
    /\ Chi!Transition("UniqueDirty", "SnoopUnique") = "Invalid"
    /\ Chi!Transition("InvalidToSharedClean", "CompDataSharedClean") = "SharedClean"
    /\ Chi!Transition("InvalidToUniqueDirty", "CompDataUniqueDirty") = "UniqueDirty"
    /\ Chi!Transition("SharedCleanToUniqueClean", "CompDataUniqueDirty") = "UniqueDirty"
BY DEF Chi!Transition, Chi!StableStates, Chi!TransientStates

\* What the entry says: the copies are Invalid, SharedClean or UniqueDirty, and a UniqueDirty
\* one is the only one.
LEMMA ChiCopies ==
    ASSUME NEW copies, NEW entry, NEW store, ChiInv(copies, entry, store)
    PROVE  /\ entry \in ChiEntries /\ store \in Lines
           /\ copies \in [Agents -> Caches(Chi!StableStates)]
           /\ \A b \in Agents :
                 /\ copies[b].state \in {"Invalid", "SharedClean", "UniqueDirty"}
                 /\ copies[b].state = "UniqueDirty" <=> entry.owner = b
                 /\ copies[b].state = "SharedClean"
                       <=> entry.owner # b /\ entry.sharers[b] = "SharedClean"
                 /\ copies[b].state = "SharedClean" => entry.owner = NoAgent
                 /\ copies[b].data = NoData <=> copies[b].state = "Invalid"
<1>1. /\ entry \in ChiEntries /\ store \in Lines
      /\ copies \in [Agents -> Caches(Chi!StableStates)]
  BY DEF ChiInv, ChiMatch, CopiesOk
<1>2. ASSUME NEW b \in Agents
      PROVE  /\ copies[b].state = IF entry.owner = b THEN "UniqueDirty" ELSE entry.sharers[b]
             /\ entry.sharers[b] \in {"Invalid", "SharedClean"}
             /\ entry.owner # NoAgent => entry.sharers[b] = "Invalid"
             /\ copies[b].data = NoData <=> copies[b].state = "Invalid"
  BY <1>1 DEF ChiInv, ChiMatch, ChiEntries, CopiesOk, Chi!NoSharers
<1> QED BY <1>1, <1>2, SMTT(30)

\* No sharer is ever dirty.
LEMMA ChiNoDirtySharer ==
    ASSUME NEW entry \in ChiEntries, NEW a
    PROVE  Chi!FirstDirtySharerExcept(entry, a) = NoAgent
<1>1. {b \in Agents \ {a} : entry.sharers[b] = "SharedDirty"} = {}
  BY DEF ChiEntries
<1> QED BY <1>1, Zenon DEF Chi!FirstDirtySharerExcept

LEMMA ChiHit ==
    ASSUME ChiInv(caches, directory, backing), NEW a \in Agents, NEW r \in Requests, Chi!Hit(a, r)
    PROVE  /\ caches[a].state \in {"SharedClean", "UniqueDirty"}
           /\ r.op \in ReadOperations \/ caches[a].state = "UniqueDirty"
           /\ Completes(HitCopies(a, caches[a].state), a, r)
           /\ UNCHANGED <<agents, directory, backing, saved>>
<1> DEFINE after == Chi!Transition(caches[a].state, CpuEvent(r))
<1>1. /\ caches \in [Agents -> Caches(Chi!StableStates)]
      /\ caches[a].state \in {"Invalid", "SharedClean", "UniqueDirty"}
  BY ChiCopies
<1>2. /\ after \notin Chi!TransientStates
      /\ caches' = [caches EXCEPT ![a] =
            CompleteCpuRequest([caches[a] EXCEPT !.state = after], a, r).cache]
      /\ response' = CompleteCpuRequest([caches[a] EXCEPT !.state = after], a, r).response
      /\ UNCHANGED <<agents, directory, backing, saved>>
  BY ChiShares, ChiSharesCompletion, Zenon DEF Chi!Hit
<1>3. CpuEvent(r) = IF r.op \in ReadOperations THEN "CpuRead" ELSE "CpuWrite"
  BY Zenon DEF CpuEvent
<1>4. /\ after = caches[a].state
      /\ caches[a].state \in {"SharedClean", "UniqueDirty"}
      /\ r.op \in ReadOperations \/ caches[a].state = "UniqueDirty"
  BY <1>1, <1>2, <1>3, ChiTransitions DEF Chi!TransientStates
<1>5. Completes(HitCopies(a, after), a, r)
  <2> HIDE DEF after
  <2> QED BY <1>1, <1>2, HitCompletes, Zenon
<1> QED BY <1>2, <1>4, <1>5, Zenon

\* What a miss asks the home node for, what the home node decides, the state and the data the
\* fill brings, and the copy it leaves before the request completes.
ChiAsked(a, r) == Chi!DownstreamRequest(r, caches[a].state)

ChiDecision(a, r) == Chi!Accept(directory, a, ChiAsked(a, r))

ChiGranted(a, r) == Chi!GrantData(ChiDecision(a, r), ChiAsked(a, r))

ChiFilled(a, r) ==
    Chi!Transition(Chi!Transition(caches[a].state, CpuEvent(r)), Chi!FillEvent(ChiDecision(a, r)))

ChiCopy(a, r) ==
    IF ChiGranted(a, r) = NoData THEN Moved(caches[a], ChiFilled(a, r))
                                 ELSE FilledCopy(ChiFilled(a, r), ChiGranted(a, r))

LEMMA ChiMiss ==
    ASSUME ChiInv(caches, directory, backing), NEW a \in Agents, NEW r \in Requests,
           Chi!Miss(a, r)
    PROVE  /\ directory' = ChiDecision(a, r).entry
           /\ backing' = Chi!WriteBack(ChiDecision(a, r))
           /\ Completes([Chi!Snooped(ChiDecision(a, r)) EXCEPT ![a] = ChiCopy(a, r)], a, r)
           /\ UNCHANGED <<agents, saved>>
<1> DEFINE waiting == Chi!Transition(caches[a].state, CpuEvent(r))
           operation == ChiAsked(a, r)
           decision == ChiDecision(a, r)
           event == Chi!FillEvent(decision)
           state == ChiFilled(a, r)
           data == ChiGranted(a, r)
           copy == ChiCopy(a, r)
           before == Moved(caches[a], waiting)
           done == Chi!AcceptFill(before, a, r, event, data)
<1>0. /\ state = Chi!Transition(waiting, event)
      /\ copy = IF data = NoData THEN Moved(caches[a], state) ELSE FilledCopy(state, data)
  BY Zenon DEF ChiFilled, ChiCopy
<1>1. /\ directory' = decision.entry
      /\ backing' = Chi!WriteBack(decision)
      /\ caches' = [Chi!Snooped(decision) EXCEPT ![a] = done.cache]
      /\ response' = done.response
      /\ UNCHANGED <<agents, saved>>
  BY ChiShares, Zenon DEF Chi!Miss, Moved, ChiAsked, ChiDecision, ChiGranted
<1> HIDE DEF waiting, operation, decision, state, data, copy
<1>2. caches[a] \in Caches(Chi!StableStates)
  BY DEF ChiInv, CopiesOk
<1>3. before.state = waiting
  BY <1>2 DEF Caches, Moved
<1>4. /\ Moved(before, state) = Moved(caches[a], state)
      /\ InstallData(Moved(caches[a], state), data) = FilledCopy(state, data)
  <2>1. Moved(before, state) = Moved(caches[a], state)
    BY <1>2, FillMoves
  <2>2. InstallData(Moved(caches[a], state), data) = FilledCopy(state, data)
    BY <1>2, FillInstalls
  <2> QED BY <2>1, <2>2
<1>5. done = CompleteCpuRequest(copy, a, r)
  <2> HIDE DEF event, before
  <2>1. done = Chi!CompleteCpuRequest(
                   IF data = NoData THEN Moved(before, state)
                                    ELSE InstallData(Moved(before, state), data), a, r)
    BY <1>0, <1>3, ChiShares, Zenon DEF Chi!AcceptFill, event, Moved
  <2>2. copy = IF data = NoData THEN Moved(before, state)
                                ELSE InstallData(Moved(before, state), data)
    BY <1>0, <1>4, Zenon
  <2> QED BY <2>1, <2>2, ChiSharesCompletion, Zenon
<1>6. DOMAIN Chi!Snooped(decision) = Agents
  BY Zenon DEF Chi!Snooped
<1> HIDE DEF done
<1>7. Completes([Chi!Snooped(decision) EXCEPT ![a] = copy], a, r)
  BY <1>1, <1>5, <1>6, FillCompletes, Zenon
<1> QED BY <1>1, <1>7, Zenon DEF decision, copy

\* A read that misses: the unique owner is downgraded, supplies the line and writes it back, or
\* the backing store supplies it.
LEMMA ChiRead ==
    ASSUME ChiInv(caches, directory, backing), NEW a \in Agents, NEW r \in Requests,
           Chi!Miss(a, r), r.op \in ReadOperations
    PROVE  LET o == directory.owner
               line == IF o = NoAgent THEN backing ELSE caches[o].data
               sharers == [b \in Agents |-> IF b \in {a, o} THEN "SharedClean"
                                                            ELSE directory.sharers[b]]
           IN  /\ caches[a].state = "Invalid"
               /\ directory' = [owner |-> NoAgent, state |-> "Invalid", sharers |-> sharers]
               /\ backing' = line
               /\ Completes(ReadCopies(o, "SharedClean", a, FilledCopy("SharedClean", line)), a, r)
               /\ UNCHANGED <<agents, saved>>
<1> DEFINE o == directory.owner
           line == IF o = NoAgent THEN backing ELSE caches[o].data
           sharers == [b \in Agents |-> IF b \in {a, o} THEN "SharedClean"
                                                        ELSE directory.sharers[b]]
           entry == [owner |-> NoAgent, state |-> "Invalid", sharers |-> sharers]
           decision == IF o = NoAgent
                         THEN Chi!Decision(entry, {}, "SnoopShared", "SharedClean",
                                           "BackingMemory", NoAgent)
                         ELSE Chi!Decision(entry, {o}, "SnoopShared", "SharedClean",
                                           "OwnerCache", o)
           copy == FilledCopy("SharedClean", line)
<1>1. /\ CpuEvent(r) = "CpuRead"
      /\ Chi!Transition(caches[a].state, CpuEvent(r)) \in Chi!TransientStates
  <2>1. CpuEvent(r) = "CpuRead"
    BY Zenon DEF CpuEvent
  <2>2. Chi!Transition(caches[a].state, CpuEvent(r)) \in Chi!TransientStates
    BY ChiShares, Zenon DEF Chi!Miss
  <2> QED BY <2>1, <2>2
<1>2. /\ caches[a].state = "Invalid"
      /\ Chi!Transition(caches[a].state, CpuEvent(r)) = "InvalidToSharedClean"
  <2>1. caches[a].state \in {"Invalid", "SharedClean", "UniqueDirty"}
    BY ChiCopies
  <2> QED BY <1>1, <2>1, ChiTransitions DEF Chi!TransientStates
<1>3. /\ o # a /\ a \notin Chi!SharersOf(directory) /\ directory \in ChiEntries
      /\ o = NoAgent => directory.state = "Invalid"
      /\ o # NoAgent => o \in Agents /\ caches[o].state = "UniqueDirty"
      /\ line \in Lines /\ line # NoData
  <2>1. directory \in ChiEntries /\ backing \in Lines
        /\ caches \in [Agents -> Caches(Chi!StableStates)]
    BY ChiCopies
  <2>2. o # a /\ a \notin Chi!SharersOf(directory)
    BY <1>2, ChiCopies DEF Chi!SharersOf, ChiInv, ChiMatch
  <2>3. o = NoAgent => directory.state = "Invalid"
    BY DEF ChiInv, ChiMatch
  <2>4. ASSUME o # NoAgent PROVE o \in Agents /\ caches[o].state = "UniqueDirty"
                                 /\ caches[o].data \in Lines
    <3>1. o \in Agents
      BY <2>1, <2>4 DEF ChiEntries
    <3>2. caches[o].state = "UniqueDirty" /\ caches[o].data # NoData
      BY <3>1, ChiCopies
    <3> QED BY <2>1, <3>1, <3>2 DEF Caches
  <2> QED BY <2>1, <2>2, <2>3, <2>4, NoDataIsNoLine
<1>4. Chi!DownstreamRequest(r, caches[a].state) = "ReadShared"
  BY <1>1, ChiShares DEF Chi!DownstreamRequest
<1>5. Chi!Accept(directory, a, "ReadShared") = decision
  <2>1. Chi!Accept(directory, a, "ReadShared") = Chi!AcceptReadShared(directory, a)
    BY DEF Chi!Accept
  <2>2. CASE o = NoAgent
    <3>1. Chi!AcceptReadShared(directory, a)
            = Chi!Decision([directory EXCEPT !.sharers[a] = "SharedClean"], {}, "SnoopShared",
                           "SharedClean", "BackingMemory", NoAgent)
      <4>1. Chi!FirstDirtySharerExcept(directory, a) = NoAgent
        BY <1>3, ChiNoDirtySharer
      <4>2. {NoAgent} \ {NoAgent} = {}
        OBVIOUS
      <4> QED BY <1>3, <2>2, <4>1, <4>2, LineAssumption, Zenon DEF Chi!AcceptReadShared
    <3>2. [directory.sharers EXCEPT ![a] = "SharedClean"] = sharers
      <4>1. NoAgent \notin Agents
        BY LineAssumption
      <4> QED BY <1>3, <2>2, <4>1 DEF ChiEntries
    <3>3. [directory EXCEPT !.sharers[a] = "SharedClean"] = entry
      <4> HIDE DEF sharers
      <4> QED BY <1>3, <2>2, <3>2 DEF ChiEntries
    <3> HIDE DEF entry
    <3> QED BY <2>1, <2>2, <3>1, <3>3, Zenon
  <2>3. CASE o # NoAgent
    <3>1. Chi!AcceptReadShared(directory, a)
            = Chi!Decision([owner |-> NoAgent, state |-> "Invalid",
                            sharers |-> [directory.sharers EXCEPT ![o] = "SharedClean",
                                                                  ![a] = "SharedClean"]],
                           {o}, "SnoopShared", "SharedClean", "OwnerCache", o)
      BY <1>3, <2>3 DEF Chi!AcceptReadShared
    <3>2. [directory.sharers EXCEPT ![o] = "SharedClean", ![a] = "SharedClean"] = sharers
      BY <1>3, <2>3 DEF ChiEntries
    <3> HIDE DEF sharers
    <3> QED BY <2>1, <2>3, <3>1, <3>2, Zenon
  <2> QED BY <2>2, <2>3, Zenon
<1>6. /\ decision.entry = entry /\ Chi!FillEvent(decision) = "CompDataSharedClean"
      /\ decision.snooped = (IF o = NoAgent THEN {} ELSE {o}) /\ decision.event = "SnoopShared"
      /\ Chi!GrantData(decision, "ReadShared") = line
      /\ Chi!WriteBack(decision) = line
  <2> HIDE DEF entry
  <2>1. /\ decision.entry = entry /\ decision.event = "SnoopShared"
        /\ decision.grant = "SharedClean"
        /\ decision.snooped = (IF o = NoAgent THEN {} ELSE {o})
        /\ decision.source = (IF o = NoAgent THEN "BackingMemory" ELSE "OwnerCache")
        /\ decision.supplier = o
    BY DEF Chi!Decision
  <2> HIDE DEF decision
  <2>2. Chi!FillEvent(decision) = "CompDataSharedClean"
    BY <2>1 DEF Chi!FillEvent
  <2>3. Chi!GrantData(decision, "ReadShared") = line
    BY <2>1 DEF Chi!GrantData
  <2>4. Chi!WriteBack(decision) = line
    BY <2>1 DEF Chi!WriteBack
  <2> QED BY <2>1, <2>2, <2>3, <2>4, Zenon
<1> HIDE DEF decision, entry
<1>7. Chi!Transition("InvalidToSharedClean", "CompDataSharedClean") = "SharedClean"
  BY ChiTransitions
<1>8. [Chi!Snooped(decision) EXCEPT ![a] = copy] = ReadCopies(o, "SharedClean", a, copy)
  <2>1. ASSUME NEW b \in Agents, b # a
        PROVE  Chi!Snooped(decision)[b]
                  = IF b = o THEN [caches[b] EXCEPT !.state = "SharedClean"] ELSE caches[b]
    <3>1. CASE b = o
      <4>1. b \in decision.snooped /\ caches[b].state = "UniqueDirty"
        BY <1>3, <1>6, <3>1, LineAssumption
      <4>2. Chi!AcceptSnoop(caches[b], "SnoopShared") = [caches[b] EXCEPT !.state = "SharedClean"]
        BY <4>1, ChiTransitions DEF Chi!AcceptSnoop
      <4> QED BY <1>6, <3>1, <4>1, <4>2, Zenon DEF Chi!Snooped
    <3>2. CASE b # o
      <4>1. b \notin decision.snooped
        BY <1>6, <3>2
      <4> QED BY <3>2, <4>1, Zenon DEF Chi!Snooped
    <3> QED BY <3>1, <3>2
  <2>2. Chi!Snooped(decision) = [b \in Agents |-> Chi!Snooped(decision)[b]]
    BY Zenon DEF Chi!Snooped
  <2> HIDE DEF copy
  <2> QED BY <2>1, <2>2, Zenon DEF ReadCopies
<1>9. /\ directory' = decision.entry
      /\ backing' = Chi!WriteBack(decision)
      /\ Completes([Chi!Snooped(decision) EXCEPT ![a] = copy], a, r)
      /\ UNCHANGED <<agents, saved>>
  <2>1. copy = IF line = NoData THEN Moved(caches[a], "SharedClean")
                                ELSE FilledCopy("SharedClean", line)
    <3> HIDE DEF line
    <3> QED BY <1>3, Zenon
  <2> HIDE DEF copy, line
  <2>2. ChiAsked(a, r) = "ReadShared"
    BY <1>2, <1>4, Zenon DEF ChiAsked
  <2>3. ChiDecision(a, r) = decision
    BY <1>5, <1>6, <2>2, Zenon DEF ChiDecision
  <2>4. ChiGranted(a, r) = line /\ ChiFilled(a, r) = "SharedClean"
    BY <1>2, <1>4, <1>6, <1>7, <2>2, <2>3, Zenon DEF ChiGranted, ChiFilled
  <2>5. ChiCopy(a, r) = copy
    BY <2>1, <2>4, Zenon DEF ChiCopy
  <2> QED BY <2>3, <2>5, ChiMiss, Zenon
<1> QED BY <1>2, <1>6, <1>8, <1>9, Zenon DEF entry

\* A write that misses: with a SharedClean copy it upgrades, without one it takes the line from
\* the owner or the backing store; every other copy is emptied.
LEMMA ChiWrite ==
    ASSUME ChiInv(caches, directory, backing), NEW a \in Agents, NEW r \in Requests,
           Chi!Miss(a, r), r.op \notin ReadOperations
    PROVE  LET o == directory.owner
               line == IF o = NoAgent THEN backing ELSE caches[o].data
               copy == IF caches[a].state = "SharedClean" THEN Moved(caches[a], "UniqueDirty")
                                                          ELSE FilledCopy("UniqueDirty", line)
           IN  /\ caches[a].state \in {"Invalid", "SharedClean"}
               /\ line \in Lines
               /\ directory' = Chi!Unique(a)
               /\ Completes(OnlyCopy(a, copy), a, r)
               /\ UNCHANGED <<agents, backing, saved>>
<1> DEFINE o == directory.owner
           line == IF o = NoAgent THEN backing ELSE caches[o].data
           shares == caches[a].state = "SharedClean"
           copy == IF shares THEN Moved(caches[a], "UniqueDirty")
                             ELSE FilledCopy("UniqueDirty", line)
           others == (Chi!SharersOf(directory) \union {o}) \ {a, NoAgent}
           source == IF shares THEN "NoData"
                     ELSE IF o = NoAgent THEN "BackingMemory" ELSE "OwnerCache"
           operation == IF shares THEN "Upgrade" ELSE "ReadUnique"
           decision == Chi!Decision(Chi!Unique(a), others, "SnoopUnique", "UniqueDirty", source,
                                    IF shares THEN NoAgent ELSE o)
           waiting == IF shares THEN "SharedCleanToUniqueClean" ELSE "InvalidToUniqueDirty"
           data == IF shares THEN NoData ELSE line
<1>1. /\ CpuEvent(r) = "CpuWrite"
      /\ Chi!Transition(caches[a].state, CpuEvent(r)) \in Chi!TransientStates
  <2>1. CpuEvent(r) = "CpuWrite"
    BY Zenon DEF CpuEvent
  <2>2. Chi!Transition(caches[a].state, CpuEvent(r)) \in Chi!TransientStates
    BY ChiShares, Zenon DEF Chi!Miss
  <2> QED BY <2>1, <2>2
<1>2. /\ caches[a].state \in {"Invalid", "SharedClean"}
      /\ Chi!Transition(caches[a].state, CpuEvent(r)) = waiting
  <2>1. caches[a].state \in {"Invalid", "SharedClean", "UniqueDirty"}
    BY ChiCopies
  <2> QED BY <1>1, <2>1, ChiTransitions DEF Chi!TransientStates
<1>3. /\ o # a /\ NoAgent # a /\ directory \in ChiEntries
      /\ a \in Chi!SharersOf(directory) <=> shares
      /\ shares => o = NoAgent
      /\ line \in Lines /\ line # NoData
      /\ Chi!FirstDirtySharerExcept(directory, a) = NoAgent
  <2>1. /\ directory \in ChiEntries /\ backing \in Lines /\ NoAgent # a
        /\ caches \in [Agents -> Caches(Chi!StableStates)]
    BY ChiCopies, LineAssumption
  <2>2. o # a /\ (shares => o = NoAgent)
    BY <1>2, ChiCopies
  <2>3. a \in Chi!SharersOf(directory) <=> shares
    BY <1>2, <2>1, <2>2, ChiCopies DEF Chi!SharersOf, ChiEntries
  <2>4. ASSUME o # NoAgent PROVE caches[o].data \in Lines
    <3>1. o \in Agents
      BY <2>1, <2>4 DEF ChiEntries
    <3>2. caches[o].data # NoData
      BY <3>1, ChiCopies
    <3> QED BY <2>1, <3>1, <3>2 DEF Caches
  <2>5. Chi!FirstDirtySharerExcept(directory, a) = NoAgent
    BY <2>1, ChiNoDirtySharer
  <2> QED BY <2>1, <2>2, <2>3, <2>4, <2>5, NoDataIsNoLine
<1>4. /\ Chi!DownstreamRequest(r, caches[a].state) = operation
      /\ Chi!Accept(directory, a, operation) = decision
  <2>1. CASE shares
    <3>1. Chi!DownstreamRequest(r, caches[a].state) = "Upgrade"
      BY <1>1, <2>1, ChiShares DEF Chi!DownstreamRequest
    <3>2. Chi!Accept(directory, a, "Upgrade") = Chi!AcceptUpgrade(directory, a)
      BY DEF Chi!Accept
    <3>3. Chi!AcceptUpgrade(directory, a)
            = Chi!Decision(Chi!Unique(a), Chi!SharersOf(directory) \ {a}, "SnoopUnique",
                           "UniqueDirty", "NoData", NoAgent)
      BY <1>3, <2>1 DEF Chi!AcceptUpgrade
    <3>4. Chi!SharersOf(directory) \ {a} = others
      <4>1. o = NoAgent /\ NoAgent \notin Chi!SharersOf(directory)
        BY <1>3, <2>1, LineAssumption DEF Chi!SharersOf
      <4> QED BY <4>1
    <3> HIDE DEF others
    <3> QED BY <2>1, <3>1, <3>2, <3>3, <3>4, Zenon
  <2>2. CASE ~shares
    <3>1. Chi!DownstreamRequest(r, caches[a].state) = "ReadUnique"
      BY <1>1, <1>2, <2>2, ChiShares DEF Chi!DownstreamRequest
    <3>2. Chi!Accept(directory, a, "ReadUnique") = Chi!AcceptReadUnique(directory, a)
      BY DEF Chi!Accept
    <3>3. Chi!AcceptReadUnique(directory, a)
            = Chi!Decision(Chi!Unique(a), others, "SnoopUnique", "UniqueDirty",
                           IF o = NoAgent THEN "BackingMemory" ELSE "OwnerCache", o)
      <4> HIDE DEF others
      <4> QED BY <1>3, <2>2 DEF Chi!AcceptReadUnique, others
    <3> HIDE DEF others
    <3> QED BY <2>2, <3>1, <3>2, <3>3, Zenon
  <2> QED BY <2>1, <2>2, Zenon
<1>5. /\ decision.entry = Chi!Unique(a)
      /\ decision.snooped = others /\ decision.event = "SnoopUnique"
      /\ Chi!FillEvent(decision) = "CompDataUniqueDirty"
      /\ Chi!GrantData(decision, operation) = data
      /\ Chi!WriteBack(decision) = backing
  <2> HIDE DEF others
  <2>1. /\ decision.entry = Chi!Unique(a) /\ decision.event = "SnoopUnique"
        /\ decision.snooped = others /\ decision.grant = "UniqueDirty"
        /\ decision.source = source /\ (~shares => decision.supplier = o)
    BY DEF Chi!Decision
  <2> HIDE DEF decision
  <2>2. Chi!FillEvent(decision) = "CompDataUniqueDirty"
    BY <2>1 DEF Chi!FillEvent
  <2>3. Chi!GrantData(decision, operation) = data
    BY <2>1 DEF Chi!GrantData
  <2>4. Chi!WriteBack(decision) = backing
    BY <2>1 DEF Chi!WriteBack
  <2> QED BY <2>1, <2>2, <2>3, <2>4, Zenon
<1>6. Chi!Transition(waiting, "CompDataUniqueDirty") = "UniqueDirty"
  BY ChiTransitions
<1> HIDE DEF decision
<1>7. [Chi!Snooped(decision) EXCEPT ![a] = copy] = OnlyCopy(a, copy)
  <2>1. ASSUME NEW b \in Agents, b # a PROVE Chi!Snooped(decision)[b] = EmptyCache
    <3>0. NoAgent # b
      BY LineAssumption
    <3>1. CASE b \in others
      <4>1. caches[b].state \in {"SharedClean", "UniqueDirty"}
        BY <1>3, <3>0, <3>1, ChiCopies DEF Chi!SharersOf, ChiEntries
      <4>2. Chi!Transition(caches[b].state, "SnoopUnique") = "Invalid"
        BY <4>1, ChiTransitions
      <4>3. Chi!AcceptSnoop(caches[b], "SnoopUnique") = EmptyCache
        BY <4>2, ChiShares, Zenon DEF Chi!AcceptSnoop
      <4> HIDE DEF others
      <4> QED BY <1>5, <3>1, <4>3, Zenon DEF Chi!Snooped
    <3>2. CASE b \notin others
      <4>1. caches[b].state = "Invalid"
        BY <2>1, <3>0, <3>2, ChiCopies DEF Chi!SharersOf
      <4>2. caches[b] = EmptyCache
        BY <4>1 DEF ChiInv, CopiesOk, Caches, EmptyCache
      <4> HIDE DEF others
      <4> QED BY <1>5, <3>2, <4>2, Zenon DEF Chi!Snooped
    <3> QED BY <3>1, <3>2
  <2>2. Chi!Snooped(decision) = [b \in Agents |-> Chi!Snooped(decision)[b]]
    BY Zenon DEF Chi!Snooped
  <2> HIDE DEF copy
  <2> QED BY <2>1, <2>2, Zenon DEF OnlyCopy
<1>8. /\ directory' = decision.entry
      /\ backing' = Chi!WriteBack(decision)
      /\ Completes([Chi!Snooped(decision) EXCEPT ![a] = copy], a, r)
      /\ UNCHANGED <<agents, saved>>
  <2>1. copy = IF data = NoData THEN Moved(caches[a], "UniqueDirty")
                                ELSE FilledCopy("UniqueDirty", data)
    <3> HIDE DEF line
    <3> QED BY <1>3, Zenon
  <2> HIDE DEF copy, waiting, operation, data
  <2>2. ChiAsked(a, r) = operation
    BY <1>2, <1>4, <1>5, <1>6, Zenon DEF ChiAsked
  <2>3. ChiDecision(a, r) = decision
    BY <1>2, <1>4, <1>5, <1>6, <2>2, Zenon DEF ChiDecision
  <2>4. ChiGranted(a, r) = data /\ ChiFilled(a, r) = "UniqueDirty"
    <3>1. ChiGranted(a, r) = data
      BY <1>4, <1>5, <1>6, <2>2, <2>3, Zenon DEF ChiGranted
    <3>2. ChiFilled(a, r) = "UniqueDirty"
      BY <1>2, <1>4, <1>5, <1>6, <2>3, Zenon DEF ChiFilled, waiting
    <3> QED BY <3>1, <3>2
  <2>5. ChiCopy(a, r) = copy
    BY <2>1, <2>4, Zenon DEF ChiCopy
  <2> QED BY <2>3, <2>5, ChiMiss, Zenon
<1> QED BY <1>2, <1>3, <1>5, <1>7, <1>8, Zenon

\* Every copy of the CHI line holds the line of memory.
LEMMA ChiServed ==
    ASSUME ChiInv(caches, directory, backing),
           NEW line, line = IF directory.owner = NoAgent THEN backing
                                                         ELSE caches[directory.owner].data
    PROVE  /\ Mesi!LineOf(caches, backing) = line
           /\ \A b \in Agents : caches[b].data \in {NoData, line}
<1> DEFINE o == directory.owner
<1>1. CASE o = NoAgent
  <2>1. ASSUME NEW b \in Agents PROVE caches[b].data \in {NoData, backing}
    <3>1. caches[b].state \in {"Invalid", "SharedClean"}
      BY <1>1, ChiCopies, LineAssumption
    <3>2. CASE caches[b].state = "Invalid"
      BY <3>2, ChiCopies
    <3>3. CASE caches[b].state = "SharedClean"
      BY <3>3 DEF ChiInv
    <3> QED BY <3>1, <3>2, <3>3
  <2> QED BY <1>1, <2>1, LineOfStore, Zenon
<1>2. CASE o # NoAgent
  <2>1. o \in Agents
    BY <1>2 DEF ChiInv, ChiMatch, ChiEntries
  <2>2. caches[o].data # NoData
    BY <2>1, ChiCopies
  <2>3. ASSUME NEW b \in Agents PROVE caches[b].data \in {NoData, caches[o].data}
    <3>1. CASE b = o
      BY <3>1
    <3>2. CASE b # o
      <4>1. caches[b].state = "Invalid"
        BY <1>2, <3>2, ChiCopies
      <4> QED BY <4>1, ChiCopies
    <3> QED BY <3>1, <3>2
  <2> QED BY <1>2, <2>1, <2>2, <2>3, LineOfCopy, Zenon
<1> QED BY <1>1, <1>2

\* Completing the request keeps the CHI invariant: it writes only a UniqueDirty copy.
LEMMA ChiCompletes ==
    ASSUME NEW a \in Agents, NEW r \in Requests, NEW ready,
           Prepared(Chi!StableStates, ready, a, r), Completes(ready, a, r),
           ChiMatch(ready, directory'), backing' \in Lines,
           \A b \in Agents : ready[b].state = "SharedClean" => ready[b].data = backing',
           r.op \in ReadOperations \/ ready[a].state = "UniqueDirty"
    PROVE  ChiInv(caches, directory, backing)'
<1>1. /\ CopiesOk(caches', Chi!StableStates)
      /\ \A b \in Agents : caches'[b].state = ready[b].state
      /\ \A b \in Agents \ {a} : caches'[b] = ready[b]
      /\ r.op \in ReadOperations => caches'[a].data = ready[a].data
  <2>1. CopiesOk(ready, Chi!StableStates) /\ ready[a].data \in Lines
    BY Zenon DEF Prepared
  <2> QED BY <2>1, CompletesCopies
<1>2. ChiMatch(caches, directory)'
  BY <1>1 DEF ChiMatch, Chi!NoSharers
<1>3. \A b \in Agents : caches'[b].state = "SharedClean" => caches'[b].data = backing'
  BY <1>1
<1>4. CopiesOk(caches, Chi!StableStates)'
  BY <1>1 DEF CopiesOk, Chi!StableStates
<1> QED BY <1>2, <1>3, <1>4 DEF ChiInv

\* A hit of the CHI line.
LEMMA ChiHitStep ==
    ASSUME ChiInv(caches, directory, backing), NEW a \in Agents, NEW r \in Requests, Chi!Hit(a, r)
    PROVE  \E ready : /\ Prepared(Chi!StableStates, ready, a, r) /\ Completes(ready, a, r)
                      /\ Fresh(ready, a, r) /\ ChiInv(caches, directory, backing)'
                      /\ UNCHANGED <<agents, saved>>
<1> DEFINE state == caches[a].state
           ready == HitCopies(a, state)
<1>1. /\ state \in {"SharedClean", "UniqueDirty"}
      /\ r.op \in ReadOperations \/ state = "UniqueDirty"
      /\ Completes(ready, a, r)
      /\ UNCHANGED <<agents, directory, backing, saved>>
  BY ChiHit, Zenon
<1>2. /\ CopiesOk(ready, Chi!StableStates) /\ ready[a].data \in Lines
      /\ \A b \in Agents :
            /\ ready[b].state = IF b = a THEN state ELSE caches[b].state
            /\ ready[b].data = caches[b].data
            /\ ready[b].reservation = caches[b].reservation
  <2>1. CopiesOk(caches, Chi!StableStates) /\ state \in Chi!StableStates /\ state # "Invalid"
    BY <1>1 DEF ChiInv, Chi!StableStates
  <2> QED BY <2>1, HitShape
<1> HIDE DEF ready
<1>3. \A b \in Agents : ready[b].state = caches[b].state /\ ready[b].data = caches[b].data
  BY <1>2
<1>4. Prepared(Chi!StableStates, ready, a, r)
  BY <1>2, Zenon DEF Prepared
<1>5. ChiInv(caches, directory, backing)'
  <2>1. ChiMatch(ready, directory')
    BY <1>1, <1>3 DEF ChiInv, ChiMatch, Chi!NoSharers
  <2>2. /\ backing' \in Lines
        /\ \A b \in Agents : ready[b].state = "SharedClean" => ready[b].data = backing'
        /\ r.op \in ReadOperations \/ ready[a].state = "UniqueDirty"
    BY <1>1, <1>3 DEF ChiInv
  <2> QED BY <1>1, <1>4, <2>1, <2>2, ChiCompletes
<1>6. Fresh(ready, a, r)
  <2> DEFINE line == IF directory.owner = NoAgent THEN backing ELSE caches[directory.owner].data
  <2>1. /\ Mesi!LineOf(caches, backing) = line
        /\ \A b \in Agents : caches[b].data \in {NoData, line}
    <3> HIDE DEF line
    <3> QED BY ChiServed DEF line
  <2> HIDE DEF line
  <2>2. ready[a].data = line /\ \A b \in Agents : ready[b].data \in {NoData, line}
    BY <1>2, <2>1, NoDataIsNoLine
  <2>3. ASSUME r.op \notin ReadOperations, NEW b \in Agents \ {a}
        PROVE  ready[b].data = NoData /\ ready[b].reservation = NoGranule
    <3>1. caches[b].state = "Invalid"
      BY <1>1, <2>3, ChiCopies, LineAssumption
    <3> QED BY <1>2, <3>1 DEF ChiInv, CopiesOk
  <2> QED BY <2>1, <2>2, <2>3, Zenon DEF Fresh
<1> QED BY <1>1, <1>4, <1>5, <1>6, Zenon

\* A read miss of the CHI line.
LEMMA ChiReadStep ==
    ASSUME ChiInv(caches, directory, backing), NEW a \in Agents, NEW r \in Requests,
           Chi!Miss(a, r), r.op \in ReadOperations
    PROVE  \E ready : /\ Prepared(Chi!StableStates, ready, a, r) /\ Completes(ready, a, r)
                      /\ Fresh(ready, a, r) /\ ChiInv(caches, directory, backing)'
                      /\ UNCHANGED <<agents, saved>>
<1> DEFINE o == directory.owner
           line == IF o = NoAgent THEN backing ELSE caches[o].data
           sharers == [b \in Agents |-> IF b \in {a, o} THEN "SharedClean"
                                                        ELSE directory.sharers[b]]
           ready == ReadCopies(o, "SharedClean", a, FilledCopy("SharedClean", line))
<1>1. /\ caches[a].state = "Invalid"
      /\ directory' = [owner |-> NoAgent, state |-> "Invalid", sharers |-> sharers]
      /\ backing' = line
      /\ Completes(ready, a, r)
      /\ UNCHANGED <<agents, saved>>
  BY ChiRead, Zenon
<1>2. /\ o # a /\ line \in Lines /\ line # NoData
      /\ o \in Agents => caches[o].state = "UniqueDirty"
  <2>1. o # a /\ (o \in Agents => caches[o].state = "UniqueDirty")
    BY <1>1, ChiCopies
  <2>2. line \in Lines
    <3>1. CASE o = NoAgent
      BY <3>1 DEF ChiInv
    <3>2. CASE o # NoAgent
      <4>1. o \in Agents
        BY <3>2 DEF ChiInv, ChiMatch, ChiEntries
      <4>2. caches[o].data # NoData /\ caches[o] \in Caches(Chi!StableStates)
        BY <4>1, ChiCopies
      <4> QED BY <3>2, <4>2, SMTT(30) DEF Caches
    <3> QED BY <3>1, <3>2
  <2> QED BY <2>1, <2>2, NoDataIsNoLine
<1>3. /\ CopiesOk(ready, Chi!StableStates) /\ ready[a].data \in Lines
      /\ \A b \in Agents :
            /\ ready[b].state = IF b = a THEN "SharedClean"
                                ELSE IF b = o THEN "SharedClean" ELSE caches[b].state
            /\ ready[b].data = IF b = a THEN line ELSE caches[b].data
            /\ ready[b].reservation = caches[b].reservation
  <2>1. /\ CopiesOk(caches, Chi!StableStates) /\ "SharedClean" \in Chi!StableStates
        /\ o \in Agents => caches[o].state # "Invalid"
    BY <1>2 DEF ChiInv, Chi!StableStates
  <2> HIDE DEF line, o
  <2> QED BY <1>1, <1>2, <2>1, ReadShape
<1> HIDE DEF ready
<1>4. Prepared(Chi!StableStates, ready, a, r)
  BY <1>3, Zenon DEF Prepared
<1>5. /\ Mesi!LineOf(caches, backing) = line
      /\ \A b \in Agents : caches[b].data \in {NoData, line}
  <2> HIDE DEF line
  <2> QED BY ChiServed DEF line
<1>6. ChiMatch(ready, directory')
  <2>1. ASSUME NEW b \in Agents
        PROVE  ready[b].state = sharers[b] /\ sharers[b] \in {"Invalid", "SharedClean"}
    <3>1. sharers[b] = IF b \in {a, o} THEN "SharedClean" ELSE directory.sharers[b]
      BY Zenon
    <3>2. /\ directory.sharers[b] \in {"Invalid", "SharedClean"}
          /\ caches[b].state = IF o = b THEN "UniqueDirty" ELSE directory.sharers[b]
      BY DEF ChiInv, ChiMatch, ChiEntries
    <3> HIDE DEF sharers
    <3> QED BY <1>3, <3>1, <3>2
  <2>2. sharers \in [Agents -> {"Invalid", "SharedClean"}]
    BY <2>1
  <2>3. \A b \in Agents : b # NoAgent
    BY LineAssumption
  <2> HIDE DEF sharers
  <2> QED BY <1>1, <2>1, <2>2, <2>3 DEF ChiMatch, ChiEntries
<1>7. ChiInv(caches, directory, backing)'
  <2> HIDE DEF line
  <2>1. \A b \in Agents : ready[b].state = "SharedClean" => ready[b].data = backing'
    BY <1>1, <1>2, <1>3, <1>5 DEF CopiesOk
  <2> QED BY <1>1, <1>2, <1>4, <1>6, <2>1, ChiCompletes
<1>8. Fresh(ready, a, r)
  <2> HIDE DEF line
  <2>1. ready[a].data = line /\ \A b \in Agents : ready[b].data \in {NoData, line}
    BY <1>3, <1>5
  <2> QED BY <1>5, <2>1, Zenon DEF Fresh
<1> QED BY <1>1, <1>4, <1>7, <1>8, Zenon

\* A write miss of the CHI line.
LEMMA ChiWriteStep ==
    ASSUME ChiInv(caches, directory, backing), NEW a \in Agents, NEW r \in Requests,
           Chi!Miss(a, r), r.op \notin ReadOperations
    PROVE  \E ready : /\ Prepared(Chi!StableStates, ready, a, r) /\ Completes(ready, a, r)
                      /\ Fresh(ready, a, r) /\ ChiInv(caches, directory, backing)'
                      /\ UNCHANGED <<agents, saved>>
<1> DEFINE o == directory.owner
           line == IF o = NoAgent THEN backing ELSE caches[o].data
           shares == caches[a].state = "SharedClean"
           copy == IF shares THEN Moved(caches[a], "UniqueDirty")
                             ELSE FilledCopy("UniqueDirty", line)
           ready == OnlyCopy(a, copy)
<1>1. /\ caches[a].state \in {"Invalid", "SharedClean"}
      /\ line \in Lines
      /\ directory' = Chi!Unique(a)
      /\ Completes(ready, a, r)
      /\ UNCHANGED <<agents, backing, saved>>
  BY ChiWrite, Zenon
<1>2. /\ Mesi!LineOf(caches, backing) = line
      /\ \A b \in Agents : caches[b].data \in {NoData, line}
  <2> HIDE DEF line
  <2> QED BY ChiServed DEF line
<1> HIDE DEF line
<1>3. /\ copy \in Caches(Chi!StableStates) /\ copy.state = "UniqueDirty" /\ copy.data = line
      /\ copy.reservation \in {NoGranule, caches[a].reservation}
  <2>1. CASE shares
    <3>1. caches[a] \in Caches(Chi!StableStates) /\ caches[a].data = line
      BY <1>2, <2>1 DEF ChiInv, CopiesOk
    <3> QED BY <2>1, <3>1 DEF Moved, Caches, Chi!StableStates
  <2>2. CASE ~shares
    BY <1>1, <2>2 DEF FilledCopy, Caches, Chi!StableStates
  <2> QED BY <2>1, <2>2
<1> HIDE DEF copy
<1>4. /\ CopiesOk(ready, Chi!StableStates) /\ ready[a] = copy
      /\ \A b \in Agents \ {a} :
            /\ ready[b].state = "Invalid"
            /\ ready[b].data = NoData
            /\ ready[b].reservation = NoGranule
  <2>1. "Invalid" \in Chi!StableStates
    BY DEF Chi!StableStates
  <2> QED BY <1>1, <1>3, <2>1, OnlyShape
<1> HIDE DEF ready
<1>5. Prepared(Chi!StableStates, ready, a, r)
  BY <1>1, <1>3, <1>4 DEF Prepared
<1>6. ChiMatch(ready, directory')
  BY <1>1, <1>3, <1>4, LineAssumption DEF ChiMatch, ChiEntries, Chi!Unique, Chi!NoSharers
<1>7. ChiInv(caches, directory, backing)'
  <2>1. /\ \A b \in Agents : ready[b].state # "SharedClean"
        /\ ready[a].state = "UniqueDirty"
    BY <1>3, <1>4
  <2>2. backing' \in Lines
    BY <1>1 DEF ChiInv
  <2> QED BY <1>1, <1>5, <1>6, <2>1, <2>2, ChiCompletes
<1>8. Fresh(ready, a, r)
  BY <1>2, <1>3, <1>4 DEF Fresh
<1> QED BY <1>1, <1>5, <1>7, <1>8, Zenon
=============================================================================
