----------------------------- MODULE FabricModel ----------------------------
(***************************************************************************)
(* The resources of the fabric as a value: links, the lanes of each link   *)
(* (one per virtual network) with their credits, and the input virtual     *)
(* channels and output ports of routers.  A packet reserves the hops of    *)
(* its path one after the other, at once; nothing ever blocks.             *)
(***************************************************************************)
EXTENDS Integers, FiniteSets

CONSTANTS
    FabricLinks, VirtualNetworks, InputVcs, OutputPorts,
    NoStage,       \* a hop without a router stage
    NoOverride,    \* a hop that keeps the packet's virtual network
    MaxFabricTick  \* the largest tick a reservation can hold

ASSUME FabricAssumption ==
    /\ MaxFabricTick \in Nat
    /\ VirtualNetworks # {} /\ NoOverride \notin VirtualNetworks

\* a hop without a credit depth: with_credit_depth refuses 0
NoCredit == 0

Later(a, b) == IF a >= b THEN a ELSE b

CeilDiv(numerator, denominator) == ((numerator - 1) \div denominator) + 1

NewFabric ==
    [links |-> [l \in FabricLinks |-> 0],
     lanes |-> [k \in FabricLinks \X VirtualNetworks |-> [next |-> 0, returns |-> {}]],
     inputs |-> [i \in InputVcs |-> 0],
     outputs |-> [o \in OutputPorts |-> 0]]

\* reserve_router_stage
RouterStart(f, stage, ready) ==
    Later(ready, Later(f.inputs[stage.input], f.outputs[stage.output]))

LaneReady(f, hop, ready) ==
    IF hop.stage = NoStage THEN ready ELSE RouterStart(f, hop.stage, ready) + hop.stage.latency

\* mutant: a lane waits for itself only
MutantEarliestStart(lane, link, ready) == Later(ready, lane.next)

EarliestStart(lane, link, ready) == Later(ready, Later(lane.next, link))

\* mutant: one credit too many
MutantHasCredit(returns, start, depth) == Cardinality({r \in returns : r[1] > start}) <= depth

\* credit_returns as a set of pairs: when a credit comes back, and when its packet departed
\* (no two packets of a lane depart together, but their credits may return together)
HasCredit(returns, start, depth) == Cardinality({r \in returns : r[1] > start}) < depth

CreditTicks(returns, start, depth) ==
    {t \in {r[1] : r \in returns} \union {start} : t >= start /\ HasCredit(returns, t, depth)}

\* the loop of reserve: the first tick, from start on, that finds a credit
CreditStart(returns, start, depth) ==
    LET ticks == CreditTicks(returns, start, depth)
    IN  IF depth = NoCredit THEN start ELSE CHOOSE t \in ticks : \A u \in ticks : t <= u

\* one hop of reserve_transfer: when the packet passes it
Reservation(f, packet, hop, ready) ==
    LET vnet == IF hop.vnet = NoOverride THEN packet.vnet ELSE hop.vnet
        lane == f.lanes[<<hop.link, vnet>>]
        laneReady == LaneReady(f, hop, ready)
        earliest == EarliestStart(lane, f.links[hop.link], laneReady)
        start == CreditStart(lane.returns, earliest, hop.credits)
        depart == start + CeilDiv(packet.bytes, hop.bandwidth)
    IN  [packet |-> packet.id, link |-> hop.link, vnet |-> vnet,
         stage |-> hop.stage, credits |-> hop.credits,
         routerStart |-> IF hop.stage = NoStage THEN ready ELSE RouterStart(f, hop.stage, ready),
         ready |-> laneReady, earliest |-> earliest, start |-> start,
         depart |-> depart, arrival |-> depart + hop.latency]

\* the credits that are out once the packet has taken its own
CreditReturns(returns, r) ==
    IF r.credits = NoCredit
      THEN returns
      ELSE {c \in returns : c[1] > r.start} \union {<<r.arrival, r.depart>>}

LaneAfter(lane, r) == [next |-> r.depart, returns |-> CreditReturns(lane.returns, r)]

\* the fabric after the reservation
Reserved(f, r) ==
    [links |-> [f.links EXCEPT ![r.link] = r.depart],
     lanes |-> [f.lanes EXCEPT ![<<r.link, r.vnet>>] = LaneAfter(@, r)],
     inputs |-> IF r.stage = NoStage
                  THEN f.inputs ELSE [f.inputs EXCEPT ![r.stage.input] = r.ready],
     outputs |-> IF r.stage = NoStage
                   THEN f.outputs ELSE [f.outputs EXCEPT ![r.stage.output] = r.ready]]

Overflows(r) == r.arrival > MaxFabricTick

\* lane_states_from_snapshots: a link is available when the last of its lanes is
LatestLane(f, link) ==
    LET ticks == {f.lanes[<<link, v>>].next : v \in VirtualNetworks}
    IN  CHOOSE t \in ticks : \A u \in ticks : t >= u

\* mutant: the links start afresh
MutantRestoredLinks(f) == [l \in FabricLinks |-> 0]

RestoredLinks(f) == [l \in FabricLinks |-> LatestLane(f, l)]

\* restore_snapshot of the fabric's own snapshot, which holds no links
RestoreSnapshot(f) ==
    [links |-> RestoredLinks(f), lanes |-> f.lanes, inputs |-> f.inputs, outputs |-> f.outputs]
=============================================================================
