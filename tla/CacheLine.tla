------------------------------ MODULE CacheLine -----------------------------
(***************************************************************************)
(* A cache controller's copy of one line: protocol state, data, and the    *)
(* LR/SC reservation of the controller's agent.  The MSI, MESI, MOESI and  *)
(* CHI controllers carry the same complete_cpu_request, install_data and   *)
(* reservation code; it is written once here and each controller adds its  *)
(* own state machine.                                                      *)
(*                                                                         *)
(* A controller also serves line fills and snoops through Transition, the  *)
(* operator its protocol module defines; an event the protocol refuses     *)
(* leaves the pseudo-state "Error", where the code returns Err.            *)
(***************************************************************************)
EXTENDS LineRequests

Caches(states) ==
    [state : states, data : Lines \union {NoData}, reservation : Words \union {NoGranule}]

EmptyCache == [state |-> "Invalid", data |-> NoData, reservation |-> NoGranule]

CpuEvent(r) == IF r.op \in ReadOperations THEN "CpuRead" ELSE "CpuWrite"

InstallData(cache, line) == [cache EXCEPT !.data = line, !.reservation = NoGranule]

StoreData(cache, r, line) ==
    [cache EXCEPT
        !.data = line,
        !.reservation = IF OverlapsReservation(r, cache.reservation) THEN NoGranule ELSE @]

StoreConditionalAllowed(cache, r) == cache.reservation = LlscReservation(r)

TouchesData(cache, r) ==
    \/ ReturnsData(r)
    \/ r.op = "Write"
    \/ r.op = "StoreConditional" /\ StoreConditionalAllowed(cache, r)

Completed(cache, a, r, data) ==
    [cache |-> cache, response |-> Response(a, r, "Completed", data)]

(***************************************************************************)
(* The copy after the request, and the response.  Reading or writing a     *)
(* copy without data is the error LineDataUnavailable.                     *)
(***************************************************************************)
CompleteCpuRequest(cache, a, r) ==
    CASE cache.data = NoData /\ TouchesData(cache, r) ->
            [cache |-> cache, response |-> Response(a, r, "LineDataUnavailable", NoData)]
      [] cache.data # NoData /\ r.op = "Atomic" ->
            Completed(StoreData(cache, r, AtomicWrite(cache.data, r)),
                      a, r, ReadSlice(cache.data, r))
      [] cache.data # NoData /\ r.op = "LoadLocked" ->
            Completed([cache EXCEPT !.reservation = LlscReservation(r)],
                      a, r, ReadSlice(cache.data, r))
      [] cache.data # NoData /\ r.op = "StoreConditional" /\ StoreConditionalAllowed(cache, r) ->
            Completed(StoreData(cache, r, ApplyStore(cache.data, r)), a, r, NoData)
      [] \/ r.op = "StoreConditional" /\ ~StoreConditionalAllowed(cache, r)
         \/ r.op = "StoreConditionalFail" ->
            [cache |-> cache, response |-> Response(a, r, "StoreConditionalFailed", NoData)]
      [] cache.data # NoData /\ r.op = "Write" ->
            Completed(StoreData(cache, r, ApplyStore(cache.data, r)), a, r, NoData)
      [] cache.data # NoData /\ r.op \in {"ReadShared", "ReadUnique"} ->
            Completed(cache, a, r, ReadSlice(cache.data, r))
      [] r.op \in {"PrefetchRead", "Upgrade", "CacheBlockZero"} ->
            Completed(cache, a, r, NoData)
=============================================================================
