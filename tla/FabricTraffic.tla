---------------------------- MODULE FabricTraffic ---------------------------
(***************************************************************************)
(* The memory transport on the fabric: batches of requests and of          *)
(* responses, ordered by the arbiter of their direction and reserved in    *)
(* one transaction that is rolled back when a hop overflows or the batch   *)
(* cannot be scheduled, and single packets of later hops.                  *)
(***************************************************************************)
EXTENDS FabricHops, QosQueueArbiter

CONSTANTS
    FabricRequests,     \* requests of a batch: bytes, vnet, path (a sequence of hops),
                        \* requestor, priority, and the ordering fields strict, before, after
    FabricPolicies,     \* QosQueuePolicyKind
    MaxBatch,           \* bound: requests of a batch
    MaxTransfers,       \* bound: packets sent
    MaxInjection        \* bound: ticks of injection

ASSUME FabricHopsAssumption ==
    \A r, s \in FabricRequests :
        \A i \in DOMAIN r.path, j \in DOMAIN s.path :
            /\ r.bytes > 0 /\ r.path[i].bandwidth > 0 /\ r.path[i].latency > 0
            /\ r.path[i].link = s.path[j].link => r.path[i].latency = s.path[j].latency

VARIABLES
    injection,    \* the scheduler's tick
    arbiters,     \* request_arbiter and response_arbiter
    transfers,    \* packets sent; the next packet's id
    grantLog      \* FabricQosActivity: the grants, with the requestors that were waiting

fabricVars == <<injection, fabric, hopActivity, arbiters, transfers, grantLog>>

Directions == {"Request", "Response"}

FabricInit ==
    /\ injection = 0
    /\ fabric = NewFabric
    /\ hopActivity = {}
    /\ \E policy \in FabricPolicies : arbiters = [d \in Directions |-> NewArbiter(policy)]
    /\ transfers = 0
    /\ grantLog = <<>>

-----------------------------------------------------------------------------
\* reserve_transfer: the hops in order; a reservation that overflows ends it
Transmit1(state, packet, hop) ==
    LET r == Reservation(state.fabric, packet, hop, state.at)
    IN  IF state.failed \/ Overflows(r)
          THEN [state EXCEPT !.failed = TRUE]
          ELSE [fabric |-> Reserved(state.fabric, r), at |-> r.arrival,
                log |-> state.log \union {r}, failed |-> FALSE]

ReserveTransfer(state, packet) ==
    FoldLeft(LAMBDA s, hop : Transmit1(s, packet, hop), [state EXCEPT !.at = injection],
             packet.path)

Begun == [fabric |-> fabric, at |-> injection, log |-> hopActivity, failed |-> FALSE]

PacketOf(request, n) ==
    [id |-> transfers + n, bytes |-> request.bytes, vnet |-> request.vnet, path |-> request.path]

\* MemoryRequest::orders_before
FabricOrdersBefore(earlier, later) ==
    earlier.strict \/ later.strict \/ later.before \/ earlier.after

\* mutant: a request overtakes any other
MutantEligible(direction, batch, pending) == pending

\* eligible_fabric_qos_requests; responses are all eligible
Eligible(direction, batch, pending) ==
    {i \in pending : direction = "Response" \/
                     \A j \in pending : j < i => ~FabricOrdersBefore(batch[j], batch[i])}

\* transmit_ordered_qos_fabric_batch and transmit_qos_fabric_batch: the order of the grants,
\* with the requestors that were waiting at each, and the arbiter after them
RECURSIVE GrantBatch(_, _, _, _, _)
GrantBatch(direction, batch, pending, arbiter, granted) ==
    IF pending = {}
      THEN [arbiter |-> arbiter, granted |-> granted]
      ELSE LET indexes == SetToSortSeq(Eligible(direction, batch, pending), <)
               queue == [n \in DOMAIN indexes |->
                            [requestor |-> batch[indexes[n]].requestor,
                             priority |-> batch[indexes[n]].priority,
                             order |-> indexes[n]]]
               index == indexes[GrantIndex(arbiter, queue)]
               waiting == {queue[n].requestor : n \in HighestPriority(queue)}
           IN  GrantBatch(direction, batch, pending \ {index}, ArbiterAfter(arbiter, queue),
                          Append(granted, [direction |-> direction, batch |-> transfers,
                                           index |-> index, request |-> batch[index],
                                           waiting |-> waiting]))

\* reserve_parallel_batch_first_hops and dispatch_parallel_response_qos_batch, with
\* try_transaction; "schedules" is whether the scheduler accepts the batch (external)
SubmitBatch(direction, batch, schedules) ==
    LET grant == GrantBatch(direction, batch, DOMAIN batch, arbiters[direction], <<>>)
        end == FoldLeft(LAMBDA s, g : ReserveTransfer(s, PacketOf(batch[g.index], g.index)),
                        Begun, grant.granted)
        committed == ~end.failed /\ schedules
    IN  /\ transfers + Len(batch) <= MaxTransfers
        /\ fabric' = IF committed THEN end.fabric ELSE RestoreSnapshot(fabric)
        /\ hopActivity' = IF committed THEN end.log ELSE hopActivity
        /\ arbiters' = IF committed THEN [arbiters EXCEPT ![direction] = grant.arbiter]
                                    ELSE arbiters
        /\ grantLog' = IF committed THEN grantLog \o grant.granted ELSE grantLog
        /\ transfers' = IF committed THEN transfers + Len(batch) ELSE transfers
        /\ UNCHANGED injection

\* request_hop_delay and response_hop_delay; the overflow of a later hop is a panic
TransmitHop(request) ==
    LET end == ReserveTransfer(Begun, PacketOf(request, 1))
    IN  /\ transfers < MaxTransfers
        /\ ~end.failed
        /\ fabric' = end.fabric
        /\ hopActivity' = end.log
        /\ transfers' = transfers + 1
        /\ UNCHANGED <<injection, arbiters, grantLog>>

InjectionAdvances ==
    /\ injection < MaxInjection
    /\ injection' = injection + 1
    /\ UNCHANGED <<fabric, hopActivity, arbiters, transfers, grantLog>>

FabricNext ==
    \/ \E direction \in Directions, n \in 1..MaxBatch, schedules \in BOOLEAN :
           \E batch \in [1..n -> FabricRequests] : SubmitBatch(direction, batch, schedules)
    \/ \E request \in FabricRequests : TransmitHop(request)
    \/ InjectionAdvances

-----------------------------------------------------------------------------
\* Grants are ordered.  The requests of a batch are granted in an order that keeps their memory
\* ordering, whatever their priorities and the policy; and the least recently granted policy
\* never grants a requestor twice while another one waits with a request of the same standing,
\* not within a batch, nor across batches.
GrantsInOrder ==
    /\ \A i, j \in DOMAIN grantLog :
          LET g == grantLog[i]  h == grantLog[j]
          IN  (i < j /\ g.direction = "Request" /\ g.batch = h.batch /\ h.index < g.index)
              => ~FabricOrdersBefore(h.request, g.request)
    /\ arbiters["Request"].policy = "LeastRecentlyGranted" =>
          \A i, k \in DOMAIN grantLog :
              LET g == grantLog[i]  h == grantLog[k]
              IN  (i < k /\ g.direction = h.direction
                         /\ g.request.requestor = h.request.requestor)
                  => \A other \in (g.waiting \intersect h.waiting) \ {g.request.requestor} :
                         \E j \in (i+1)..(k-1) : /\ grantLog[j].request.requestor = other
                                                 /\ grantLog[j].direction = g.direction

=============================================================================
