----------------------------- MODULE LineMemory -----------------------------
(***************************************************************************)
(* What one line of memory promises its agents, from LineMemoryStore: the  *)
(* store without caches.  A read returns the last value written, an atomic *)
(* reads and writes in one step, a store-conditional writes exactly when   *)
(* its agent still holds the reservation of its granule, a write takes the *)
(* reservations it overlaps away from every agent, and restoring a         *)
(* snapshot brings back the data and drops every reservation.              *)
(*                                                                         *)
(* LineMemoryStore itself never drops a reservation for another reason.    *)
(* With MayLose the specification also allows that, which is the freedom a *)
(* cache has when it loses its copy; the coherence harnesses are shown to  *)
(* implement this module with MayLose = TRUE.                              *)
(***************************************************************************)
EXTENDS LineRequests

CONSTANT MayLose

VARIABLES
    memory,        \* the line
    reservations,  \* agent -> reserved granule or NoGranule
    response,      \* the last response
    saved          \* the last snapshot

memoryVars == <<memory, reservations, response, saved>>

Snapshot(line, resp) == [memory |-> line, response |-> resp]

MemoryInit ==
    /\ memory \in Lines
    /\ reservations = [a \in Agents |-> NoGranule]
    /\ response = NoResponse
    /\ saved = Snapshot(memory, NoResponse)

Clear(held, r) ==
    [b \in Agents |-> IF OverlapsReservation(r, held[b]) THEN NoGranule ELSE held[b]]

Written(line, r) ==
    CASE r.op = "CacheBlockZero" -> [w \in Words |-> 0]
      [] r.op = "Atomic" -> AtomicWrite(line, r)
      [] OTHER -> ApplyStore(line, r)

Respond(a, r, held) ==
    \/ /\ \/ r.op \in {"Write", "CacheBlockZero", "Atomic"}
          \/ r.op = "StoreConditional" /\ held[a] = LlscReservation(r)
       /\ memory' = Written(memory, r)
       /\ reservations' = Clear(held, r)
       /\ response' = Response(a, r, "Completed",
                               IF ReturnsData(r) THEN ReadSlice(memory, r) ELSE NoData)
    \/ /\ \/ r.op = "StoreConditionalFail"
          \/ r.op = "StoreConditional" /\ held[a] # LlscReservation(r)
       /\ memory' = memory
       /\ reservations' = held
       /\ response' = Response(a, r, "StoreConditionalFailed", NoData)
    \/ /\ r.op \in {"ReadShared", "ReadUnique", "LoadLocked", "PrefetchRead", "Upgrade"}
       /\ memory' = memory
       /\ reservations' =
             IF r.op = "LoadLocked" THEN [held EXCEPT ![a] = LlscReservation(r)] ELSE held
       /\ response' = Response(a, r, "Completed",
                               IF ReturnsData(r) THEN ReadSlice(memory, r) ELSE NoData)

Access(a, r) ==
    /\ \E lost \in IF MayLose THEN SUBSET Agents ELSE {{}} :
          Respond(a, r, [b \in Agents |-> IF b \in lost THEN NoGranule ELSE reservations[b]])
    /\ UNCHANGED saved

TakeSnapshot ==
    /\ saved' = Snapshot(memory, response)
    /\ UNCHANGED <<memory, reservations, response>>

Restore ==
    /\ memory' = saved.memory
    /\ reservations' = [a \in Agents |-> NoGranule]
    /\ response' = saved.response
    /\ UNCHANGED saved

MemoryNext ==
    \/ \E a \in Agents, r \in Requests : Access(a, r)
    \/ TakeSnapshot
    \/ Restore

MemorySpec == MemoryInit /\ [][MemoryNext]_memoryVars
=============================================================================
