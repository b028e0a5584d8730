------------------------- MODULE CoherentLineProofs -------------------------
(***************************************************************************)
(* One cache line under any of the four protocols, for any agents, words   *)
(* and values: between two CPU requests every controller is stable, at     *)
(* most one cache owns the line, and the directory knows every copy; reads *)
(* take no reservation away; and the MSI (two agents), MESI and CHI lines  *)
(* are the uncached line memory.                                           *)
(***************************************************************************)
EXTENDS MoesiMesiAccesses

-----------------------------------------------------------------------------
(* Every access, under every protocol                                      *)

\* submit_cpu_request of the harness that was built
Accesses(a, r) ==
    \/ protocol = "MSI" /\ (Msi!Hit(a, r) \/ Msi!Miss(a, r))
    \/ protocol = "MESI" /\ (Mesi!Hit(a, r) \/ Mesi!Miss(a, r))
    \/ protocol = "MOESI" /\ (Moesi!Hit(a, r) \/ Moesi!Miss(a, r))
    \/ protocol = "CHI" /\ (Chi!Hit(a, r) \/ Chi!Miss(a, r))

\* the harnesses that implement the uncached store: all but MOESI, and MSI for at most two agents
Sequential == protocol # "MOESI" /\ (protocol = "MSI" => Pair)

\* What an access does, whatever the protocol.
Served(states, a, r) ==
    \E ready : /\ Prepared(states, ready, a, r) /\ Completes(ready, a, r)
               /\ Sequential => Fresh(ready, a, r)

LEMMA MsiStep ==
    ASSUME MsiInv(caches, directory, backing), protocol = "MSI",
           NEW a \in agents, a \in Agents, NEW r \in Requests, Msi!Hit(a, r) \/ Msi!Miss(a, r)
    PROVE  /\ Served(Msi!StableStates, a, r) /\ UNCHANGED <<agents, saved>>
           /\ MsiInv(caches, directory, backing)'
<1>1. /\ UNCHANGED <<agents, saved>>
      /\ backing' \in Lines
  BY Zenon DEF Msi!Hit, Msi!Miss, MsiInv
<1>2. PICK ready : /\ Prepared(Msi!StableStates, ready, a, r) /\ Completes(ready, a, r)
                   /\ MsiMatch(ready, directory') /\ MsiFresh(ready, directory', backing')
                   /\ r.op \in ReadOperations \/ ready[a].state = "Modified"
                   /\ Pair => Fresh(ready, a, r)
  BY MsiHitStep, MsiReadStep, MsiWriteStep, Zenon
<1>3. MsiInv(caches, directory, backing)'
  BY <1>1, <1>2, MsiCompletes
<1>4. Served(Msi!StableStates, a, r)
  BY <1>2, Zenon DEF Served, Sequential
<1> QED BY <1>1, <1>3, <1>4, Zenon

LEMMA AccessStep ==
    ASSUME LineInv(caches, directory, backing), NEW a \in agents, a \in Agents,
           NEW r \in Requests, Accesses(a, r), protocol' = protocol
    PROVE  /\ \E states : Served(states, a, r)
           /\ UNCHANGED <<agents, saved>>
           /\ LineInv(caches, directory, backing)'
<1>1. CASE protocol = "MSI"
  <2>1. MsiInv(caches, directory, backing) /\ (Msi!Hit(a, r) \/ Msi!Miss(a, r))
    BY <1>1 DEF LineInv, Accesses
  <2>2. /\ Served(Msi!StableStates, a, r) /\ UNCHANGED <<agents, saved>>
        /\ MsiInv(caches, directory, backing)'
    BY <1>1, <2>1, MsiStep
  <2> QED BY <1>1, <2>2, Zenon DEF LineInv
<1>2. CASE protocol = "MESI"
  <2>1. /\ MesiProofs!LineInv(caches, directory, backing)
        /\ Mesi!Hit(a, r) \/ Mesi!Miss(a, r)
    BY <1>2 DEF LineInv, Accesses
  <2>2. /\ Served(Mesi!StableStates, a, r) /\ UNCHANGED <<agents, saved>>
        /\ MesiProofs!LineInv(caches, directory, backing)'
    BY <2>1, MesiStep, Zenon DEF Served
  <2> QED BY <1>2, <2>2, Zenon DEF LineInv
<1>3. CASE protocol = "MOESI"
  <2>1. /\ MoesiInv(caches, directory, backing)
        /\ Moesi!Hit(a, r) \/ Moesi!Miss(a, r)
    BY <1>3 DEF LineInv, Accesses
  <2>2. /\ Served(Moesi!StableStates, a, r) /\ UNCHANGED <<agents, saved>>
        /\ MoesiInv(caches, directory, backing)'
    BY <1>3, <2>1, MoesiHitStep, MoesiReadStep, MoesiWriteStep, Zenon DEF Served, Sequential
  <2> QED BY <1>3, <2>2, Zenon DEF LineInv
<1>4. CASE protocol = "CHI"
  <2>1. /\ ChiInv(caches, directory, backing)
        /\ Chi!Hit(a, r) \/ Chi!Miss(a, r)
    BY <1>4 DEF LineInv, Accesses
  <2>2. /\ Served(Chi!StableStates, a, r) /\ UNCHANGED <<agents, saved>>
        /\ ChiInv(caches, directory, backing)'
    BY <2>1, ChiHitStep, ChiReadStep, ChiWriteStep, Zenon DEF Served
  <2> QED BY <1>4, <2>2, Zenon DEF LineInv
<1> QED BY <1>1, <1>2, <1>3, <1>4, Zenon DEF LineInv

-----------------------------------------------------------------------------
(* Snapshots                                                               *)

\* the copies of a snapshot: without the reservations
Unreserved == [a \in Agents |-> [caches[a] EXCEPT !.reservation = NoGranule]]

LEMMA UnreservedCopies ==
    ASSUME NEW states, CopiesOk(caches, states)
    PROVE  /\ CopiesOk(Unreserved, states)
           /\ \A a \in Agents : /\ Unreserved[a].state = caches[a].state
                                /\ Unreserved[a].data = caches[a].data
                                /\ Unreserved[a].reservation = NoGranule
<1>1. ASSUME NEW a \in Agents
      PROVE  /\ Unreserved[a] \in Caches(states)
             /\ Unreserved[a].state = caches[a].state
             /\ Unreserved[a].data = caches[a].data
             /\ Unreserved[a].reservation = NoGranule
  <2>1. caches[a] \in Caches(states)
    BY DEF CopiesOk
  <2>2. Unreserved[a] = [caches[a] EXCEPT !.reservation = NoGranule]
    BY Zenon DEF Unreserved
  <2> QED BY <2>1, <2>2 DEF Caches
<1>2. Unreserved \in [Agents -> Caches(states)]
  BY <1>1 DEF Unreserved
<1>3. CopiesOk(Unreserved, states)
  BY <1>1, <1>2 DEF CopiesOk
<1> QED BY <1>1, <1>3, Zenon

\* A snapshot of a coherent line is coherent.
LEMMA SnapshotKeeps ==
    ASSUME LineInv(caches, directory, backing)
    PROVE  /\ LineInv(Unreserved, directory, backing)
           /\ \A a \in Agents : /\ Unreserved[a].reservation = NoGranule
                                /\ Unreserved[a].data = caches[a].data
<1>1. CASE protocol = "MSI" /\ MsiInv(caches, directory, backing)
  <2>1. /\ CopiesOk(Unreserved, Msi!StableStates)
        /\ \A a \in Agents : /\ Unreserved[a].state = caches[a].state
                             /\ Unreserved[a].data = caches[a].data
                             /\ Unreserved[a].reservation = NoGranule
    BY <1>1, UnreservedCopies DEF MsiInv
  <2>2. MsiMatch(Unreserved, directory)
    BY <1>1, <2>1 DEF MsiInv, MsiMatch
  <2>3. MsiFresh(Unreserved, directory, backing)
    BY <1>1, <2>1 DEF MsiInv, MsiFresh, MsiMatch, MsiEntries
  <2> QED BY <1>1, <2>1, <2>2, <2>3, Zenon DEF MsiInv, LineInv
<1>2. CASE protocol = "MESI" /\ MesiProofs!LineInv(caches, directory, backing)
  <2>1. CopiesOk(caches, MesiProofs!StableStates)
    BY <1>2, MesiShares, Zenon DEF MesiProofs!LineInv, CopiesOk
  <2>2. /\ CopiesOk(Unreserved, MesiProofs!StableStates)
        /\ \A a \in Agents : /\ Unreserved[a].state = caches[a].state
                             /\ Unreserved[a].data = caches[a].data
                             /\ Unreserved[a].reservation = NoGranule
    BY <2>1, UnreservedCopies, Zenon
  <2>3. Unreserved \in [Agents -> MesiProofs!Caches(MesiProofs!StableStates)]
    BY <2>2, MesiShares, Zenon DEF CopiesOk
  <2>4. MesiProofs!LineInv(Unreserved, directory, backing)
    BY <1>2, <2>2, <2>3, Zenon DEF MesiProofs!LineInv
  <2> QED BY <1>2, <2>2, <2>4, Zenon DEF LineInv
<1>3. CASE protocol = "MOESI" /\ MoesiInv(caches, directory, backing)
  <2>1. /\ CopiesOk(Unreserved, Moesi!StableStates)
        /\ \A a \in Agents : /\ Unreserved[a].state = caches[a].state
                             /\ Unreserved[a].data = caches[a].data
                             /\ Unreserved[a].reservation = NoGranule
    BY <1>3, UnreservedCopies DEF MoesiInv
  <2>2. MoesiMatch(Unreserved, directory)
    BY <1>3, <2>1 DEF MoesiInv, MoesiMatch
  <2> QED BY <1>3, <2>1, <2>2, Zenon DEF MoesiInv, LineInv
<1>4. CASE protocol = "CHI" /\ ChiInv(caches, directory, backing)
  <2>1. /\ CopiesOk(Unreserved, Chi!StableStates)
        /\ \A a \in Agents : /\ Unreserved[a].state = caches[a].state
                             /\ Unreserved[a].data = caches[a].data
                             /\ Unreserved[a].reservation = NoGranule
    BY <1>4, UnreservedCopies DEF ChiInv
  <2>2. ChiMatch(Unreserved, directory)
    BY <1>4, <2>1 DEF ChiInv, ChiMatch
  <2> QED BY <1>4, <2>1, <2>2, Zenon DEF ChiInv, LineInv
<1> QED BY <1>1, <1>2, <1>3, <1>4, Zenon DEF LineInv

-----------------------------------------------------------------------------
(* The invariant is kept                                                   *)

\* Every protocol takes and restores a snapshot in the same way.
TakesSnapshot ==
    /\ saved' = [caches |-> Unreserved, directory |-> directory, backing |-> backing,
                 response |-> response]
    /\ UNCHANGED <<agents, caches, directory, backing, response>>

Restores ==
    /\ caches' = saved.caches
    /\ directory' = saved.directory
    /\ backing' = saved.backing
    /\ response' = saved.response
    /\ UNCHANGED <<agents, saved>>

LEMMA NextCases ==
    ASSUME Next
    PROVE  /\ protocol' = protocol
           /\ \/ \E a \in agents, r \in Requests : Accesses(a, r)
              \/ TakesSnapshot
              \/ Restores
<1>1. protocol' = protocol
  BY Zenon DEF Next
<1>2. CASE protocol = "MSI" /\ Msi!Next
  <2>1. CASE \E a \in agents, r \in Msi!Requests : Msi!Hit(a, r) \/ Msi!Miss(a, r)
    BY <1>1, <1>2, <2>1, MsiShares, Zenon DEF Accesses
  <2>2. CASE Msi!Snapshot
    BY <1>1, <2>2, Zenon DEF Msi!Snapshot, Msi!HarnessSnapshot, TakesSnapshot, Unreserved
  <2>3. CASE Msi!Restore
    BY <1>1, <2>3, Zenon DEF Msi!Restore, Restores
  <2> QED BY <1>2, <2>1, <2>2, <2>3, Zenon DEF Msi!Next
<1>3. CASE protocol = "MESI" /\ Mesi!Next
  <2>1. CASE \E a \in agents, r \in Mesi!Requests : Mesi!Hit(a, r) \/ Mesi!Miss(a, r)
    <3>1. Mesi!Requests = Requests
      BY DEF Mesi!Requests, Requests, Mesi!Words, Words, Mesi!Values, Values,
           Mesi!CarriesData, CarriesData
    <3> QED BY <1>1, <1>3, <2>1, <3>1, Zenon DEF Accesses
  <2>2. CASE Mesi!Snapshot
    BY <1>1, <2>2, Zenon DEF Mesi!Snapshot, Mesi!HarnessSnapshot, TakesSnapshot, Unreserved
  <2>3. CASE Mesi!Restore
    BY <1>1, <2>3, Zenon DEF Mesi!Restore, Restores
  <2> QED BY <1>3, <2>1, <2>2, <2>3, Zenon DEF Mesi!Next
<1>4. CASE protocol = "MOESI" /\ Moesi!Next
  <2>1. CASE \E a \in agents, r \in Moesi!Requests : Moesi!Hit(a, r) \/ Moesi!Miss(a, r)
    BY <1>1, <1>4, <2>1, MoesiShares, Zenon DEF Accesses
  <2>2. CASE Moesi!Snapshot
    BY <1>1, <2>2, Zenon DEF Moesi!Snapshot, Moesi!HarnessSnapshot, TakesSnapshot, Unreserved
  <2>3. CASE Moesi!Restore
    BY <1>1, <2>3, Zenon DEF Moesi!Restore, Restores
  <2> QED BY <1>4, <2>1, <2>2, <2>3, Zenon DEF Moesi!Next
<1>5. CASE protocol = "CHI" /\ Chi!Next
  <2>1. CASE \E a \in agents, r \in Chi!Requests : Chi!Hit(a, r) \/ Chi!Miss(a, r)
    BY <1>1, <1>5, <2>1, ChiShares, Zenon DEF Accesses
  <2>2. CASE Chi!Snapshot
    BY <1>1, <2>2, Zenon DEF Chi!Snapshot, Chi!HarnessSnapshot, TakesSnapshot, Unreserved
  <2>3. CASE Chi!Restore
    BY <1>1, <2>3, Zenon DEF Chi!Restore, Restores
  <2> QED BY <1>5, <2>1, <2>2, <2>3, Zenon DEF Chi!Next
<1> QED BY <1>2, <1>3, <1>4, <1>5, Zenon DEF Next

\* Every step keeps the invariant.
LEMMA InvStep == Inv /\ [Next]_vars => Inv'
<1> SUFFICES ASSUME Inv, [Next]_vars PROVE Inv'
  OBVIOUS
<1>1. /\ agents \subseteq Agents
      /\ LineInv(caches, directory, backing)
      /\ LineInv(saved.caches, saved.directory, saved.backing)
      /\ \A a \in Agents : saved.caches[a].reservation = NoGranule
  BY Zenon DEF Inv
<1>2. ASSUME agents' = agents, protocol' = protocol, saved' = saved
      PROVE  LineInv(saved.caches, saved.directory, saved.backing)'
  BY <1>1, <1>2, SMTT(30) DEF LineInv, MsiInv, MsiMatch, MsiFresh, Pair
<1>3. ASSUME NEW a \in agents, NEW r \in Requests, Accesses(a, r), protocol' = protocol
      PROVE  Inv'
  <2>1. a \in Agents
    BY <1>1
  <2>2. UNCHANGED <<agents, saved>> /\ LineInv(caches, directory, backing)'
    BY <1>1, <1>3, <2>1, AccessStep, Zenon
  <2>3. LineInv(saved.caches, saved.directory, saved.backing)'
    BY <1>2, <1>3, <2>2, Zenon
  <2> QED BY <1>1, <2>2, <2>3, Zenon DEF Inv
<1>4. ASSUME agents' = agents, protocol' = protocol, caches' = caches, directory' = directory,
             backing' = backing
      PROVE  LineInv(caches, directory, backing)'
  <2>1. CASE protocol = "MSI"
    <3>1. MsiInv(caches, directory, backing)
      BY <1>1, <2>1 DEF LineInv
    <3>2. MsiInv(caches, directory, backing)'
      <4>1. MsiMatch(caches, directory)'
        BY <1>4, <3>1, Zenon DEF MsiInv, MsiMatch
      <4>2. MsiFresh(caches, directory, backing)'
        BY <1>4, <3>1, Zenon DEF MsiInv, MsiFresh, Pair
      <4>3. CopiesOk(caches, Msi!StableStates)' /\ backing' \in Lines
        BY <1>4, <3>1, Zenon DEF MsiInv
      <4> QED BY <4>1, <4>2, <4>3, Zenon DEF MsiInv
    <3> QED BY <1>4, <2>1, <3>2, Zenon DEF LineInv
  <2>2. CASE protocol # "MSI"
    BY <1>1, <1>4, <2>2, Zenon DEF LineInv
  <2> QED BY <2>1, <2>2
<1>5. ASSUME TakesSnapshot, protocol' = protocol PROVE Inv'
  <2>1. /\ agents' = agents /\ caches' = caches /\ directory' = directory /\ backing' = backing
        /\ saved'.caches = Unreserved /\ saved'.directory = directory
        /\ saved'.backing = backing
    BY <1>5 DEF TakesSnapshot
  <2>2. /\ LineInv(Unreserved, directory, backing)
        /\ \A a \in Agents : Unreserved[a].reservation = NoGranule
    BY <1>1, SnapshotKeeps, Zenon
  <2> HIDE DEF Unreserved
  <2>3. LineInv(saved.caches, saved.directory, saved.backing)'
    BY <1>5, <2>1, <2>2, SMTT(30) DEF LineInv, MsiInv, MsiMatch, MsiFresh, Pair
  <2>4. LineInv(caches, directory, backing)'
    BY <1>4, <1>5, <2>1, Zenon
  <2>5. \A a \in Agents : saved'.caches[a].reservation = NoGranule
    BY <2>1, <2>2, Zenon
  <2> QED BY <1>1, <2>1, <2>3, <2>4, <2>5, Zenon DEF Inv
<1>6. ASSUME Restores, protocol' = protocol PROVE Inv'
  <2>1. /\ agents' = agents /\ saved' = saved
        /\ caches' = saved.caches /\ directory' = saved.directory /\ backing' = saved.backing
    BY <1>6, Zenon DEF Restores
  <2>2. LineInv(caches, directory, backing)'
    BY <1>1, <1>6, <2>1, SMTT(30) DEF LineInv, MsiInv, MsiMatch, MsiFresh, Pair
  <2>3. LineInv(saved.caches, saved.directory, saved.backing)'
    BY <1>2, <1>6, <2>1, Zenon
  <2> QED BY <1>1, <2>1, <2>2, <2>3, Zenon DEF Inv
<1>7. CASE UNCHANGED vars
  <2>1. /\ agents' = agents /\ protocol' = protocol /\ caches' = caches
        /\ directory' = directory /\ backing' = backing /\ saved' = saved
    BY <1>7, Zenon DEF vars
  <2>2. /\ LineInv(caches, directory, backing)'
        /\ LineInv(saved.caches, saved.directory, saved.backing)'
    BY <1>2, <1>4, <2>1, Zenon
  <2> QED BY <1>1, <2>1, <2>2, Zenon DEF Inv
<1>8. CASE Next
  BY <1>3, <1>5, <1>6, <1>8, NextCases, Zenon
<1> QED BY <1>7, <1>8

\* A new harness has no copies.
LEMMA EmptyCopies ==
    ASSUME NEW states, "Invalid" \in states, caches = [a \in Agents |-> EmptyCache]
    PROVE  /\ CopiesOk(caches, states)
           /\ \A a \in Agents : caches[a].state = "Invalid"
BY DEF CopiesOk, Caches, EmptyCache

LEMMA InvInitially == Init => Inv
<1> SUFFICES ASSUME Init PROVE Inv
  OBVIOUS
<1>1. agents \subseteq Agents /\ protocol \in {"MSI", "MESI", "MOESI", "CHI"}
  BY HarnessAssumption DEF Init
<1>2. /\ LineInv(caches, directory, backing)
      /\ saved.caches = Unreserved /\ saved.directory = directory /\ saved.backing = backing
  <2>1. CASE protocol = "MSI"
    <3>1. Msi!Init
      BY <2>1 DEF Init
    <3>2. /\ caches = [a \in Agents |-> EmptyCache] /\ backing \in Lines
          /\ directory = [owner |-> NoAgent, sharers |-> {}]
          /\ saved = [caches |-> Unreserved, directory |-> directory, backing |-> backing,
                      response |-> response]
      BY <3>1, MsiShares, Zenon DEF Msi!Init, Msi!NoEntry, Msi!HarnessSnapshot, Unreserved
    <3>3. /\ CopiesOk(caches, Msi!StableStates)
          /\ \A a \in Agents : caches[a].state = "Invalid"
      BY <3>2, EmptyCopies DEF Msi!StableStates
    <3>4. directory.owner = NoAgent /\ directory.sharers = {} /\ directory \in MsiEntries
      BY <3>2 DEF MsiEntries
    <3>5. MsiMatch(caches, directory)
      BY <3>3, <3>4, LineAssumption DEF MsiMatch
    <3>6. MsiFresh(caches, directory, backing)
      BY <3>4, Zenon DEF MsiFresh
    <3>7. LineInv(caches, directory, backing)
      BY <2>1, <3>2, <3>3, <3>5, <3>6, Zenon DEF LineInv, MsiInv
    <3> QED BY <3>2, <3>7
  <2>2. CASE protocol = "MESI"
    <3>1. Mesi!Init
      BY <2>2 DEF Init
    <3>2. /\ caches = [a \in Agents |-> EmptyCache] /\ backing \in Lines
          /\ directory = [owner |-> NoAgent, state |-> "Invalid", sharers |-> {}]
          /\ saved = [caches |-> Unreserved, directory |-> directory, backing |-> backing,
                      response |-> response]
      BY <3>1, Zenon DEF Mesi!Init, Mesi!NoEntry, Mesi!HarnessSnapshot, Unreserved,
           Mesi!EmptyCache, EmptyCache, Mesi!Lines, Lines, Mesi!Words, Words, Mesi!Values, Values
    <3>3. /\ CopiesOk(caches, MesiProofs!StableStates)
          /\ \A a \in Agents : caches[a].state = "Invalid"
      BY <3>2, EmptyCopies DEF MesiProofs!StableStates
    <3>4. /\ directory.owner = NoAgent /\ directory.sharers = {}
          /\ directory \in MesiProofs!Entries
      BY <3>2 DEF MesiProofs!Entries
    <3>5. /\ caches \in [Agents -> MesiProofs!Caches(MesiProofs!StableStates)]
          /\ backing \in MesiProofs!Lines
      BY <3>2, <3>3, MesiShares, Zenon DEF CopiesOk
    <3>6. MesiProofs!LineInv(caches, directory, backing)
      BY <3>3, <3>4, <3>5, LineAssumption DEF MesiProofs!LineInv, CopiesOk
    <3>7. LineInv(caches, directory, backing)
      BY <2>2, <3>6, Zenon DEF LineInv
    <3> QED BY <3>2, <3>7
  <2>3. CASE protocol = "MOESI"
    <3>1. Moesi!Init
      BY <2>3 DEF Init
    <3>2. /\ caches = [a \in Agents |-> EmptyCache] /\ backing \in Lines
          /\ directory = [owner |-> NoAgent, state |-> "Invalid", sharers |-> {}]
          /\ saved = [caches |-> Unreserved, directory |-> directory, backing |-> backing,
                      response |-> response]
      BY <3>1, MoesiShares, Zenon
         DEF Moesi!Init, Moesi!NoEntry, Moesi!Entry, Moesi!HarnessSnapshot, Unreserved
    <3>3. /\ CopiesOk(caches, Moesi!StableStates)
          /\ \A a \in Agents : caches[a].state = "Invalid"
      BY <3>2, EmptyCopies DEF Moesi!StableStates
    <3>4. /\ directory.owner = NoAgent /\ directory.sharers = {} /\ directory.state = "Invalid"
          /\ directory \in MoesiEntries
      BY <3>2 DEF MoesiEntries
    <3>5. MoesiMatch(caches, directory)
      BY <3>3, <3>4, LineAssumption DEF MoesiMatch
    <3>6. LineInv(caches, directory, backing)
      BY <2>3, <3>2, <3>3, <3>5, Zenon DEF LineInv, MoesiInv
    <3> QED BY <3>2, <3>6
  <2>4. CASE protocol = "CHI"
    <3>1. Chi!Init
      BY <2>4 DEF Init
    <3>2. /\ caches = [a \in Agents |-> EmptyCache] /\ backing \in Lines
          /\ directory = [owner |-> NoAgent, state |-> "Invalid", sharers |-> Chi!NoSharers]
          /\ saved = [caches |-> Unreserved, directory |-> directory, backing |-> backing,
                      response |-> response]
      BY <3>1, ChiShares, Zenon DEF Chi!Init, Chi!NoEntry, Chi!HarnessSnapshot, Unreserved
    <3>3. /\ CopiesOk(caches, Chi!StableStates)
          /\ \A a \in Agents : caches[a].state = "Invalid"
      BY <3>2, EmptyCopies DEF Chi!StableStates
    <3>4. /\ directory.owner = NoAgent /\ directory.sharers = Chi!NoSharers
          /\ directory.state = "Invalid" /\ directory \in ChiEntries
      BY <3>2 DEF ChiEntries, Chi!NoSharers
    <3>5. ChiMatch(caches, directory)
      BY <3>3, <3>4, LineAssumption DEF ChiMatch, Chi!NoSharers
    <3>6. ChiInv(caches, directory, backing)
      BY <3>2, <3>3, <3>5 DEF ChiInv
    <3>7. LineInv(caches, directory, backing)
      BY <2>4, <3>6, Zenon DEF LineInv
    <3> QED BY <3>2, <3>7
  <2> QED BY <1>1, <2>1, <2>2, <2>3, <2>4
<1>3. /\ LineInv(Unreserved, directory, backing)
      /\ \A a \in Agents : Unreserved[a].reservation = NoGranule
  BY <1>2, SnapshotKeeps, Zenon
<1> QED BY <1>1, <1>2, <1>3, Zenon DEF Inv

\* Whatever the protocol, its agents, words and values, the invariant holds in every reachable
\* state.
THEOREM LineInvariant == Spec => []Inv
BY InvInitially, InvStep, PTL DEF Spec

-----------------------------------------------------------------------------
(* What the invariant gives                                                *)

\* An unfolding of LineInv for the protocol that was built.
LEMMA InvOfProtocol ==
    ASSUME Inv
    PROVE  \/ protocol = "MSI" /\ MsiInv(caches, directory, backing)
           \/ protocol = "MESI" /\ MesiProofs!LineInv(caches, directory, backing)
           \/ protocol = "MOESI" /\ MoesiInv(caches, directory, backing)
           \/ protocol = "CHI" /\ ChiInv(caches, directory, backing)
BY Zenon DEF Inv, LineInv

\* Between two calls of submit_cpu_request, whatever the protocol: every controller is stable, so
\* that no request met LineBusy, no event was refused and no directory decision failed; data
\* comes and goes with the copy; and no reservation outlives its copy.
THEOREM LineTypeOK == Spec => []TypeOK
<1>1. ASSUME Inv PROVE TypeOK
  <2>1. CASE protocol = "MSI" /\ MsiInv(caches, directory, backing)
    <3>1. Msi!TypeOK
      BY <2>1, MsiShares, Zenon DEF MsiInv, CopiesOk, MsiMatch, MsiEntries, Msi!TypeOK
    <3> QED BY <2>1, <3>1 DEF TypeOK, MsiInv, CopiesOk
  <2>2. CASE protocol = "MESI" /\ MesiProofs!LineInv(caches, directory, backing)
    <3>1. Mesi!TypeOK
      BY <2>2, Zenon
         DEF MesiProofs!LineInv, MesiProofs!Entries, Mesi!TypeOK, Mesi!Caches, MesiProofs!Caches,
             Mesi!Lines, MesiProofs!Lines, Mesi!Words, MesiProofs!Words, Mesi!Values,
             MesiProofs!Values, Mesi!StableStates, MesiProofs!StableStates
    <3> QED BY <2>2, <3>1 DEF TypeOK, MesiProofs!LineInv
  <2>3. CASE protocol = "MOESI" /\ MoesiInv(caches, directory, backing)
    <3>1. Moesi!TypeOK
      BY <2>3, MoesiShares, Zenon DEF MoesiInv, CopiesOk, MoesiMatch, MoesiEntries, Moesi!TypeOK
    <3> QED BY <2>3, <3>1 DEF TypeOK, MoesiInv, CopiesOk
  <2>4. CASE protocol = "CHI" /\ ChiInv(caches, directory, backing)
    <3>1. caches \in [Agents -> Chi!Caches(Chi!StableStates)] /\ backing \in Chi!Lines
      BY <2>4, ChiShares, Zenon DEF ChiInv, CopiesOk
    <3>2. directory \in [owner : Agents \union {NoAgent},
                         state : {"Invalid", "UniqueClean", "UniqueDirty"},
                         sharers : [Agents -> {"Invalid", "SharedClean", "SharedDirty"}]]
      BY <2>4 DEF ChiInv, ChiMatch, ChiEntries
    <3>3. Chi!TypeOK
      BY <3>1, <3>2, Zenon DEF Chi!TypeOK
    <3> QED BY <2>4, <3>3 DEF TypeOK, ChiInv, CopiesOk
  <2> QED BY <1>1, <2>1, <2>2, <2>3, <2>4, InvOfProtocol, Zenon
<1> QED BY <1>1, LineInvariant, PTL

\* DirectoryLineSnapshot::validate of every protocol never fails between two CPU requests: at
\* most one cache may write the line, or under MOESI owns it.
THEOREM LineSingleWriter == Spec => []SingleWriter
<1>1. ASSUME Inv PROVE SingleWriter
  <2>1. CASE protocol = "MSI" /\ MsiInv(caches, directory, backing)
    <3>1. \A a \in Agents : /\ caches[a].state = "Modified" => directory.owner = a
                            /\ caches[a].state = "Shared" => a \in directory.sharers
      BY <2>1, Zenon DEF MsiInv, MsiMatch
    <3>2. \A a \in Agents : directory.owner = a => directory.sharers = {}
      BY <2>1, LineAssumption DEF MsiInv, MsiMatch
    <3>3. Msi!SingleWriter
      BY <3>1, <3>2 DEF Msi!SingleWriter, Msi!Holding
    <3> QED BY <2>1, <3>3 DEF SingleWriter
  <2>2. CASE protocol = "MESI" /\ MesiProofs!LineInv(caches, directory, backing)
    <3>1. \A a \in Agents :
              /\ caches[a].state \in {"Exclusive", "Modified"} => directory.owner = a
              /\ caches[a].state = "Shared" => a \in directory.sharers
      BY <2>2, Zenon DEF MesiProofs!LineInv
    <3>2. \A a \in Agents : directory.owner = a => directory.sharers = {}
      BY <2>2, LineAssumption DEF MesiProofs!LineInv
    <3>3. Mesi!SingleWriter
      BY <3>1, <3>2 DEF Mesi!SingleWriter, Mesi!Holding
    <3> QED BY <2>2, <3>3 DEF SingleWriter
  <2>3. CASE protocol = "MOESI" /\ MoesiInv(caches, directory, backing)
    <3>1. ASSUME NEW a \in Agents, caches[a].state \in {"Exclusive", "Owned", "Modified"}
          PROVE  \/ directory.owner = a
                 \/ directory.owner = NoAgent /\ caches[a].state = "Owned"
      BY <2>3, <3>1 DEF MoesiInv, MoesiMatch
    <3>2. \A a, b \in Agents : caches[a].state = "Owned" /\ caches[b].state = "Owned" => a = b
      BY <2>3, Zenon DEF MoesiInv, MoesiMatch
    <3>3. \A a, b \in Agents : /\ caches[a].state \in {"Exclusive", "Owned", "Modified"}
                               /\ caches[b].state \in {"Exclusive", "Owned", "Modified"}
                               => a = b
      BY <3>1, <3>2, LineAssumption
    <3>4. Moesi!AtMostOneOwner
      BY <3>3, Zenon DEF Moesi!AtMostOneOwner, Moesi!Holding
    <3> QED BY <2>3, <3>4 DEF SingleWriter
  <2>4. CASE protocol = "CHI" /\ ChiInv(caches, directory, backing)
    <3>1. \A a \in Agents : /\ caches[a].state \in {"UniqueClean", "UniqueDirty"}
                                  => directory.owner = a
                            /\ caches[a].state \in {"SharedClean", "SharedDirty"}
                                  => directory.owner # a /\ directory.sharers[a] # "Invalid"
      BY <2>4 DEF ChiInv, ChiMatch, ChiEntries
    <3>2. \A a, b \in Agents : directory.owner = a => directory.sharers[b] = "Invalid"
      BY <2>4, LineAssumption DEF ChiInv, ChiMatch, Chi!NoSharers
    <3>3. Chi!SingleUniqueOwner
      BY <3>1, <3>2 DEF Chi!SingleUniqueOwner, Chi!Holding
    <3> QED BY <2>4, <3>3 DEF SingleWriter
  <2> QED BY <1>1, <2>1, <2>2, <2>3, <2>4, InvOfProtocol, Zenon
<1> QED BY <1>1, LineInvariant, PTL

\* The directory's entry names exactly the copies that exist, under every protocol, so no copy is
\* out of an invalidation's reach.
THEOREM LineDirectoryExact == Spec => []DirectoryMatchesCaches
<1>1. ASSUME Inv PROVE DirectoryMatchesCaches
  <2>1. CASE protocol = "MSI" /\ MsiInv(caches, directory, backing)
    <3>1. /\ directory.owner \in Agents \union {NoAgent} /\ directory.sharers \subseteq Agents
          /\ \A a \in Agents : /\ directory.owner = a <=> caches[a].state = "Modified"
                               /\ a \in directory.sharers <=> caches[a].state = "Shared"
      BY <2>1 DEF MsiInv, MsiMatch, MsiEntries
    <3>2. Msi!DirectoryMatchesCaches
      BY <3>1, LineAssumption DEF Msi!DirectoryMatchesCaches, Msi!Holding
    <3> QED BY <2>1, <3>2 DEF DirectoryMatchesCaches
  <2>2. CASE protocol = "MESI" /\ MesiProofs!LineInv(caches, directory, backing)
    <3>1. Mesi!DirectoryMatchesCaches
      BY <2>2, Zenon DEF MesiProofs!LineInv, Mesi!DirectoryMatchesCaches
    <3> QED BY <2>2, <3>1 DEF DirectoryMatchesCaches
  <2>3. CASE protocol = "MOESI" /\ MoesiInv(caches, directory, backing)
    <3>1. /\ directory.owner \in Agents \union {NoAgent} /\ directory.sharers \subseteq Agents
          /\ directory.owner = NoAgent <=> directory.state = "Invalid"
          /\ \A a \in Agents :
                /\ caches[a].state # "Invalid" <=> a \in directory.sharers \/ a = directory.owner
                /\ a = directory.owner => \/ caches[a].state = directory.state
                                          \/ directory.state = "Exclusive"
                /\ caches[a].state \in Moesi!StableStates
      BY <2>3 DEF MoesiInv, MoesiMatch, MoesiEntries, CopiesOk, Caches
    <3>2. Moesi!Holding(Moesi!StableStates \ {"Invalid"})
             = directory.sharers \union ({directory.owner} \ {NoAgent})
      <4>1. Moesi!Holding(Moesi!StableStates \ {"Invalid"})
               = {a \in Agents : caches[a].state # "Invalid"}
        BY <3>1, Zenon DEF Moesi!Holding
      <4> QED BY <3>1, <4>1, LineAssumption, Zenon
    <3>3. Moesi!DirectoryKnowsHolders
      BY <3>1, <3>2, Zenon DEF Moesi!DirectoryKnowsHolders
    <3> QED BY <2>3, <3>3 DEF DirectoryMatchesCaches
  <2>4. CASE protocol = "CHI" /\ ChiInv(caches, directory, backing)
    <3>1. /\ directory \in ChiEntries
          /\ directory.owner = NoAgent <=> directory.state = "Invalid"
          /\ \A a \in Agents : caches[a].state = IF directory.owner = a THEN "UniqueDirty"
                                                 ELSE directory.sharers[a]
      BY <2>4, Zenon DEF ChiInv, ChiMatch
    <3>2. ASSUME NEW a \in Agents
          PROVE  caches[a].state = IF directory.owner = a THEN directory.state
                                   ELSE directory.sharers[a]
      BY <3>1, LineAssumption DEF ChiEntries
    <3>3. Chi!DirectoryMatchesCaches
      BY <3>2, Zenon DEF Chi!DirectoryMatchesCaches
    <3> QED BY <2>4, <3>3 DEF DirectoryMatchesCaches
  <2> QED BY <1>1, <2>1, <2>2, <2>3, <2>4, InvOfProtocol, Zenon
<1> QED BY <1>1, LineInvariant, PTL

-----------------------------------------------------------------------------
(* Reads and reservations                                                  *)

LEMMA ReadsKeepReservations ==
    ASSUME Inv, [Next]_vars, NEW b \in Agents,
           caches[b].reservation # NoGranule, caches'[b].reservation = NoGranule
    PROVE  response'.op \in WriteOperations \/ caches' = saved.caches
<1>1. ASSUME NEW a \in agents, NEW r \in Requests, Accesses(a, r), protocol' = protocol
      PROVE  response'.op \in WriteOperations
  <2>1. a \in Agents /\ LineInv(caches, directory, backing)
    BY Zenon DEF Inv
  <2>2. PICK states : Served(states, a, r)
    BY <1>1, <2>1, AccessStep, Zenon
  <2>3. PICK ready : Prepared(states, ready, a, r) /\ Completes(ready, a, r)
    BY <2>2, Zenon DEF Served
  <2>4. /\ \A c \in Agents \ {a} : caches'[c] = ready[c]
        /\ r.op \in ReadOperations /\ caches'[a].reservation = NoGranule
              => ready[a].reservation = NoGranule
        /\ response'.op = r.op
    <3>1. CopiesOk(ready, states) /\ ready[a].data \in Lines /\ r \in Requests
      BY <1>1, <2>3, Zenon DEF Prepared
    <3> QED BY <2>1, <2>3, <3>1, CompletesCopies
  <2>5. r.op \in ReadOperations => ready[b].reservation = caches[b].reservation
    BY <2>3, Zenon DEF Prepared
  <2>6. r.op \notin ReadOperations
    BY <2>4, <2>5, Zenon
  <2>7. r.op \in WriteOperations
    BY <2>6, LineAssumption, Zenon DEF Requests, ReadOperations, WriteOperations
  <2> QED BY <2>4, <2>7, Zenon
<1>2. CASE TakesSnapshot \/ UNCHANGED vars
  BY <1>2, Zenon DEF TakesSnapshot, vars
<1>3. CASE Restores
  BY <1>3, Zenon DEF Restores
<1> QED BY <1>1, <1>2, <1>3, NextCases, Zenon

\* Under every protocol an agent loses its LR/SC reservation only to a request with write intent
\* or to a restore: reads, load-locked reads and prefetches of others leave it alone.
THEOREM LineReservations == Spec => ReservationSurvivesReads
<1>1. ASSUME Inv, [Next]_vars
      PROVE  \A a \in Agents :
                caches[a].reservation # NoGranule /\ caches'[a].reservation = NoGranule
                    => response'.op \in WriteOperations \/ caches' = saved.caches
  BY <1>1, ReadsKeepReservations, Zenon
<1> QED BY <1>1, LineInvariant, PTL DEF Spec, ReservationSurvivesReads

-----------------------------------------------------------------------------
(* The line implements the uncached store                                  *)

\* Copies with the same data are the same line of memory.
LEMMA SameData ==
    ASSUME NEW copies, NEW others, NEW store, \A x \in Agents : others[x].data = copies[x].data
    PROVE  Mesi!LineOf(others, store) = Mesi!LineOf(copies, store)
<1> DEFINE x == CHOOSE a \in Agents : copies[a].data # NoData
           y == CHOOSE a \in Agents : others[a].data # NoData
<1>1. x = y
  BY Zenon
<1>2. CASE \E a \in Agents : copies[a].data # NoData
  <2>1. x \in Agents
    BY <1>2, Zenon
  <2>2. Mesi!LineOf(copies, store) = copies[x].data /\ Mesi!LineOf(others, store) = others[y].data
    BY <1>2, Zenon DEF Mesi!LineOf
  <2> HIDE DEF x, y
  <2> QED BY <1>1, <2>1, <2>2
<1>3. CASE ~ \E a \in Agents : copies[a].data # NoData
  BY <1>3, Zenon DEF Mesi!LineOf
<1> QED BY <1>2, <1>3

\* The uncached store and complete_cpu_request share the arithmetic of a request.
LEMMA MemoryShares ==
    /\ Memory!Requests = Requests
    /\ \A r : /\ Memory!LlscReservation(r) = MesiProofs!LlscReservation(r)
              /\ Memory!ReturnsData(r) = MesiProofs!ReturnsData(r)
    /\ \A r, granule : Memory!OverlapsReservation(r, granule)
                          = MesiProofs!OverlapsReservation(r, granule)
    /\ \A line, r : /\ Memory!AtomicWrite(line, r) = MesiProofs!AtomicWrite(line, r)
                    /\ Memory!ApplyStore(line, r) = MesiProofs!ApplyStore(line, r)
                    /\ Memory!ReadSlice(line, r) = MesiProofs!ReadSlice(line, r)
    /\ \A a, r, status, data : Memory!Response(a, r, status, data)
                                  = MesiProofs!Response(a, r, status, data)
<1>1. Memory!Requests = Requests
  BY DEF Memory!Requests, Requests, Memory!Words, Words, Memory!Values, Values,
       Memory!CarriesData, CarriesData
<1>2. \A r : /\ Memory!LlscReservation(r) = MesiProofs!LlscReservation(r)
             /\ Memory!ReturnsData(r) = MesiProofs!ReturnsData(r)
  BY Zenon DEF Memory!LlscReservation, MesiProofs!LlscReservation, Memory!ReturnsData,
       MesiProofs!ReturnsData
<1>3. \A r, granule : Memory!OverlapsReservation(r, granule)
                         = MesiProofs!OverlapsReservation(r, granule)
  BY Zenon DEF Memory!OverlapsReservation, MesiProofs!OverlapsReservation, Memory!Range,
       MesiProofs!Range
<1>4. \A line, r : /\ Memory!AtomicWrite(line, r) = MesiProofs!AtomicWrite(line, r)
                   /\ Memory!ApplyStore(line, r) = MesiProofs!ApplyStore(line, r)
                   /\ Memory!ReadSlice(line, r) = MesiProofs!ReadSlice(line, r)
  BY Zenon DEF Memory!AtomicWrite, MesiProofs!AtomicWrite, Memory!ApplyStore,
       MesiProofs!ApplyStore, Memory!ReadSlice, MesiProofs!ReadSlice, Memory!Range,
       MesiProofs!Range, Memory!Words, MesiProofs!Words
<1>5. \A a, r, status, data : Memory!Response(a, r, status, data)
                                 = MesiProofs!Response(a, r, status, data)
  BY Zenon DEF Memory!Response, MesiProofs!Response
<1> QED BY <1>1, <1>2, <1>3, <1>4, <1>5

\* A request completed on fresh copies is an access of the store, with the reservations the
\* copies lost on the way.
LEMMA CompletesAccess ==
    ASSUME NEW a \in Agents, NEW r \in Requests, r.op # "CacheBlockZero", NEW states, NEW ready,
           Prepared(states, ready, a, r), Completes(ready, a, r), Fresh(ready, a, r),
           saved' = saved
    PROVE  Memory!Access(a, r)
<1> DEFINE done == CompleteCpuRequest(ready[a], a, r)
           lost == {b \in Agents : ready[b].reservation = NoGranule}
           reserved == [b \in Agents |-> caches[b].reservation]
           held == [b \in Agents |-> IF b \in lost THEN NoGranule ELSE reserved[b]]
           line == Mesi!LineOf(caches, backing)
           reserved1 == [b \in Agents |-> caches'[b].reservation]
<1>1. /\ CopiesOk(ready, states) /\ ready[a].data \in Lines
      /\ ready \in [Agents -> Caches(states)] /\ ready[a] \in Caches(states)
      /\ \A b \in Agents : ready[b].reservation \in {NoGranule, caches[b].reservation}
  BY Zenon DEF Prepared, CopiesOk
<1>2. held = [b \in Agents |-> ready[b].reservation]
  BY <1>1
<1>3. line = ready[a].data /\ ready[a].data # NoData
  BY <1>1, NoDataIsNoLine, Zenon DEF Fresh
<1>4. caches' = [ready EXCEPT ![a] = done.cache] /\ response' = done.response
  BY Zenon DEF Completes
<1>5. /\ \A b \in Agents \ {a} : caches'[b] = ready[b]
      /\ caches'[a].data \in Lines
      /\ r.op \in ReadOperations => caches'[a].data = ready[a].data
  BY <1>1, CompletesCopies
<1>6. caches'[a] = done.cache
  <2> HIDE DEF done
  <2> QED BY <1>1, <1>4
<1>7. Mesi!LineOf(caches', backing') = done.cache.data
  <2>1. \A b \in Agents : caches'[b].data \in {NoData, caches'[a].data}
    <3>1. CASE r.op \in ReadOperations
      <4>1. \A b \in Agents : ready[b].data \in {NoData, ready[a].data}
        BY Zenon DEF Fresh
      <4> QED BY <1>5, <3>1, <4>1
    <3>2. CASE r.op \notin ReadOperations
      <4>1. \A b \in Agents \ {a} : ready[b].data = NoData
        BY <3>2, Zenon DEF Fresh
      <4> QED BY <1>5, <4>1
    <3> QED BY <3>1, <3>2
  <2>2. caches'[a].data # NoData
    BY <1>5, NoDataIsNoLine
  <2>3. Mesi!LineOf(caches', backing') = caches'[a].data
    BY <2>1, <2>2, LineOfCopy, Zenon
  <2> QED BY <1>6, <2>3, Zenon
<1>8. reserved1
         = [b \in Agents |-> IF b = a THEN done.cache.reservation ELSE ready[b].reservation]
  <2> HIDE DEF done
  <2> QED BY <1>5, <1>6
<1>9. ASSUME Memory!Respond(a, r, held) PROVE Memory!Access(a, r)
  <2>1. lost \in IF TRUE THEN SUBSET Agents ELSE {{}}
    BY Zenon
  <2>2. [memory |-> Mesi!LineOf(saved.caches, saved.backing), response |-> saved.response]'
          = [memory |-> Mesi!LineOf(saved.caches, saved.backing), response |-> saved.response]
    BY Zenon
  <2> HIDE DEF lost
  <2> QED BY <1>9, <2>1, <2>2, Zenon DEF Memory!Access, Memory!Respond
<1>10. CASE MesiProofs!WritesCopy(ready[a], a, r, done)
  <2> USE DEF MesiProofs!WritesCopy, MesiProofs!AnswerData
  <2> HIDE DEF done, lost
  <2>1. \A b \in Agents \ {a} : ready[b].reservation = NoGranule
    BY <1>10, Zenon DEF Fresh, ReadOperations
  <2>2. reserved1 = [b \in Agents |-> IF Memory!OverlapsReservation(r, held[b]) THEN NoGranule
                                                                         ELSE held[b]]
    <3>1. ASSUME NEW b \in Agents
          PROVE  (IF b = a THEN done.cache.reservation ELSE ready[b].reservation)
                    = IF MesiProofs!OverlapsReservation(r, ready[b].reservation)
                        THEN NoGranule ELSE ready[b].reservation
      BY <1>10, <2>1, Zenon
    <3>2. reserved1 = [b \in Agents |-> IF Memory!OverlapsReservation(r, ready[b].reservation)
                                          THEN NoGranule ELSE ready[b].reservation]
      BY <1>8, <3>1, MemoryShares, Zenon
    <3> HIDE DEF held
    <3>3. \A b \in Agents : held[b] = ready[b].reservation
      BY <1>2, Zenon
    <3> QED BY <3>2, <3>3, Zenon
  <2>3. Memory!Respond(a, r, held)
    BY <1>2, <1>3, <1>4, <1>7, <1>10, <2>2, MemoryShares, Zenon
       DEF Memory!Respond, Memory!Written, Memory!Clear
  <2> QED BY <1>9, <2>3, Zenon
<1>11. CASE MesiProofs!FailsOnCopy(ready[a], a, r, done)
  <2> USE DEF MesiProofs!FailsOnCopy
  <2> HIDE DEF done, lost
  <2>1. reserved1 = held /\ line = Mesi!LineOf(caches', backing')
    <3>1. reserved1 = held
      BY <1>2, <1>3, <1>7, <1>8, <1>11, ZenonT(60)
    <3>2. line = Mesi!LineOf(caches', backing')
      BY <1>2, <1>3, <1>7, <1>8, <1>11, ZenonT(60)
    <3> QED BY <3>1, <3>2
  <2>2. Memory!Respond(a, r, held)
    BY <1>2, <1>4, <1>11, <2>1, MemoryShares, Zenon DEF Memory!Respond
  <2> QED BY <1>9, <2>2, Zenon
<1>12. CASE MesiProofs!ReadsCopy(ready[a], a, r, done)
  <2> USE DEF MesiProofs!ReadsCopy, MesiProofs!AnswerData
  <2> HIDE DEF done, lost
  <2>1. reserved1 = IF r.op = "LoadLocked" THEN [held EXCEPT ![a] = Memory!LlscReservation(r)]
                                           ELSE held
    BY <1>2, <1>8, <1>12, MemoryShares, ZenonT(30)
  <2>2. line = Mesi!LineOf(caches', backing')
    BY <1>3, <1>7, <1>12, Zenon
  <2>3. Memory!Respond(a, r, held)
    BY <1>3, <1>4, <1>12, <2>1, <2>2, MemoryShares, Zenon DEF Memory!Respond
  <2> QED BY <1>9, <2>3, Zenon
<1>13. \/ MesiProofs!WritesCopy(ready[a], a, r, done)
       \/ MesiProofs!FailsOnCopy(ready[a], a, r, done)
       \/ MesiProofs!ReadsCopy(ready[a], a, r, done)
  <2>1. /\ ready[a] \in MesiProofs!Caches(states) /\ ready[a].data \in MesiProofs!Lines
        /\ r \in MesiProofs!Requests
    BY <1>1, MesiShares, Zenon
  <2>2. done = MesiProofs!CompleteCpuRequest(ready[a], a, r)
    BY MesiSharesCompletion, Zenon
  <2> HIDE DEF done
  <2> QED BY <2>1, <2>2, LineAssumption, MesiProofs!CompleteResponds
<1> QED BY <1>10, <1>11, <1>12, <1>13

\* The harness never changes, so an MSI harness of at most two agents stays one.
PairInv == protocol = "MSI" => Pair

LEMMA PairKept == PairInv /\ [Next]_vars => PairInv'
<1> SUFFICES ASSUME PairInv, [Next]_vars PROVE PairInv'
  OBVIOUS
<1>1. protocol' = protocol /\ agents' = agents
  <2>1. CASE UNCHANGED vars
    BY <2>1, Zenon DEF vars
  <2>2. CASE Next
    BY <2>2, Zenon DEF Next, Msi!Next, Msi!Hit, Msi!Miss, Msi!Snapshot, Msi!Restore,
         Mesi!Next, Mesi!Hit, Mesi!Miss, Mesi!Snapshot, Mesi!Restore,
         Moesi!Next, Moesi!Hit, Moesi!Miss, Moesi!Snapshot, Moesi!Restore,
         Chi!Next, Chi!Hit, Chi!Miss, Chi!Snapshot, Chi!Restore
  <2> QED BY <2>1, <2>2
<1> QED BY <1>1, Zenon DEF PairInv, Pair

\* Every step of the harness is a step of the uncached store or leaves it alone.
LEMMA RefinementStep ==
    ASSUME "CacheBlockZero" \notin Operations, Inv, PairInv, [Next]_vars, protocol # "MOESI"
    PROVE  Memory!MemoryNext \/ UNCHANGED Memory!memoryVars
<1>1. /\ agents \subseteq Agents
      /\ LineInv(caches, directory, backing)
      /\ \A a \in Agents : saved.caches[a].reservation = NoGranule
      /\ Sequential
  BY Zenon DEF Inv, PairInv, Sequential
<1>2. ASSUME NEW a \in agents, NEW r \in Requests, Accesses(a, r), protocol' = protocol
      PROVE  Memory!MemoryNext
  <2>1. a \in Agents /\ r.op # "CacheBlockZero" /\ r \in Memory!Requests
    <3>1. r.op \in Operations
      BY <1>2 DEF Requests
    <3> QED BY <1>1, <1>2, <3>1, MemoryShares, Zenon
  <2>2. UNCHANGED saved /\ \E states : Served(states, a, r)
    BY <1>1, <1>2, <2>1, AccessStep, Zenon
  <2>3. PICK states : Served(states, a, r)
    BY <2>2, Zenon
  <2>4. PICK ready : Prepared(states, ready, a, r) /\ Completes(ready, a, r) /\ Fresh(ready, a, r)
    BY <1>1, <2>3, Zenon DEF Served
  <2>5. Memory!Access(a, r)
    BY <1>2, <2>1, <2>2, <2>4, CompletesAccess, Zenon
  <2> QED BY <2>1, <2>5, Zenon DEF Memory!MemoryNext, Memory!Access, Memory!Respond
<1>3. CASE TakesSnapshot
  <2>1. /\ caches' = caches /\ backing' = backing /\ response' = response
        /\ saved'.caches = Unreserved
        /\ saved'.backing = backing /\ saved'.response = response
    BY <1>3 DEF TakesSnapshot
  <2>2. Mesi!LineOf(saved'.caches, saved'.backing) = Mesi!LineOf(caches, backing)
    BY <1>1, <2>1, SnapshotKeeps, SameData, Zenon
  <2>3. Memory!TakeSnapshot
    BY <2>1, <2>2, Zenon DEF Memory!TakeSnapshot, Memory!Snapshot
  <2> QED BY <2>3, Zenon DEF Memory!MemoryNext
<1>4. CASE Restores
  <2>1. /\ caches' = saved.caches /\ backing' = saved.backing
        /\ response' = saved.response /\ saved' = saved
    BY <1>4, Zenon DEF Restores
  <2>2. [a \in Agents |-> caches'[a].reservation] = [a \in Agents |-> NoGranule]
    BY <1>1, <2>1, Zenon
  <2>3. Memory!Restore
    BY <2>1, <2>2, Zenon DEF Memory!Restore
  <2> QED BY <2>3, Zenon DEF Memory!MemoryNext
<1>5. CASE UNCHANGED vars
  BY <1>5, Zenon DEF vars, Memory!memoryVars
<1> QED BY <1>2, <1>3, <1>4, <1>5, NextCases, Zenon

\* MESI and CHI lines of any agents, and MSI lines of at most two, are one line of
\* LineMemoryStore, as long as no CPU issues cache-block-zero: whatever hits, misses, snoops,
\* snapshots and restores happen, every response is one the uncached store could give.
THEOREM LineImplementsMemory ==
    ASSUME "CacheBlockZero" \notin Operations,
           \A h \in Harnesses :
               h.protocol = "MSI" => \E x, y \in Agents : h.agents \subseteq {x, y}
    PROVE  Spec => ImplementsLineMemory
<1>1. Init => PairInv
  BY Zenon DEF Init, PairInv, Pair
<1>2. Spec => []PairInv
  BY <1>1, PairKept, PTL DEF Spec
<1>3. Inv /\ PairInv /\ [Next]_vars
         => (protocol # "MOESI" => Memory!MemoryNext \/ UNCHANGED Memory!memoryVars)
  BY RefinementStep
<1> QED BY <1>2, <1>3, LineInvariant, PTL DEF Spec, ImplementsLineMemory

=============================================================================
