---------------------------- MODULE LineRequests ----------------------------
(***************************************************************************)
(* One cache line seen by the CPU side of a cache controller: the requests *)
(* that reach it, the copy a controller holds, the LR/SC reservation kept  *)
(* beside the copy, and what completing a request does to both.            *)
(*                                                                         *)
(* The four controllers (MSI, MESI, MOESI, CHI) carry the same             *)
(* complete_cpu_request; it is written once here.  Bytes are grouped into  *)
(* words of one reservation granule each, and a payload is one value for   *)
(* all the words of the request.                                           *)
(***************************************************************************)
EXTENDS Naturals

CONSTANTS
    Agents,      \* the agents, one cache controller each
    NumWords,    \* reservation granules in the line
    NumValues,   \* a word holds 0..NumValues-1
    Operations,  \* the memory operations the CPUs issue
    NoAgent,     \* Option<AgentId>::None
    NoData,      \* Option<Vec<u8>>::None
    NoGranule    \* no reservation held

ASSUME LineAssumption ==
    /\ NumWords \in Nat \ {0}
    /\ NumValues \in Nat \ {0}
    /\ Operations \subseteq
          {"ReadShared", "LoadLocked", "PrefetchRead", "ReadUnique", "Write", "CacheBlockZero",
           "StoreConditional", "StoreConditionalFail", "Atomic", "Upgrade"}
    /\ NoAgent \notin Agents
    /\ NoData \notin [0..NumWords - 1 -> 0..NumValues - 1]
    /\ NoGranule \notin Nat

Words == 0..NumWords - 1
Values == 0..NumValues - 1
Lines == [Words -> Values]

ReadOperations == {"ReadShared", "LoadLocked", "PrefetchRead"}
WriteOperations ==
    {"ReadUnique", "Write", "CacheBlockZero", "StoreConditional", "StoreConditionalFail",
     "Atomic", "Upgrade"}

ReturnsData(r) == r.op \in {"ReadShared", "ReadUnique", "LoadLocked", "Atomic"}

CarriesData(r) == r.op \in {"Write", "StoreConditional", "StoreConditionalFail", "Atomic"}

Requests ==
    {r \in [op : Operations, first : Words, last : Words, value : Values] :
        /\ r.first <= r.last
        /\ CarriesData(r) \/ r.value = 0
        /\ r.op = "CacheBlockZero" => r.first = 0 /\ r.last = NumWords - 1}

Range(r) == r.first..r.last

LlscReservation(r) == r.first

OverlapsReservation(r, granule) == granule \in Range(r)

Response(a, r, status, data) ==
    [agent |-> a, op |-> r.op, status |-> status, data |-> data]

NoResponse == [agent |-> NoAgent, op |-> "NoAccess", status |-> "Idle", data |-> NoData]

ReadSlice(line, r) == [w \in Range(r) |-> line[w]]

ApplyStore(line, r) == [w \in Words |-> IF w \in Range(r) THEN r.value ELSE line[w]]

AtomicWrite(line, r) ==
    [w \in Words |-> IF w \in Range(r) THEN (line[w] + r.value) % NumValues ELSE line[w]]
=============================================================================
