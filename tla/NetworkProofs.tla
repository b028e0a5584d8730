--------------------------- MODULE NetworkProofs ----------------------------
(***************************************************************************)
(* The hops of the fabric, for any links, routers, packets and ticks, and  *)
(* the distributed link, for any link timing, packet lengths and quantum.  *)
(***************************************************************************)
EXTENDS FabricHops, DistributedLink, FiniteSetTheorems, WellFoundedInduction,
        TLAPS

-----------------------------------------------------------------------------
(* The hops of the fabric                                                  *)

\* One packet more than those holding a credit, while one credit is free.
LEMMA OneMoreFits ==
    ASSUME NEW held \in Nat, NEW out \in Nat, NEW depth \in Nat, held <= out, out < depth
    PROVE  held + 1 <= depth
OBVIOUS

\* A nonempty set of ticks has a first one.
LEMMA FirstTick ==
    ASSUME NEW T \in SUBSET Nat, T # {}
    PROVE  \E t \in T : \A u \in T : t <= u
<1>1. IsWellFoundedOn(OpToRel(<, Nat), Nat)
  BY NatLessThanWellFounded
<1>2. PICK t \in T : \A u \in T : ~(<<u, t>> \in OpToRel(<, Nat))
  BY <1>1, WFMin, Zenon
<1>3. \A u \in T : ~(u < t)
  <2>1. TAKE u \in T
  <2>2. ~(<<u, t>> \in OpToRel(<, Nat)) BY <1>2
  <2> QED BY <2>2 DEF OpToRel
<1> QED BY <1>3

\* the credits of a lane have a last one to return
HasLast(returns) == returns = {} \/ \E m \in returns : \A c \in returns : c[1] <= m[1]

\* The loop of reserve ends: a tick with a credit exists, and the packet gets the first one,
\* which is not before the tick it came with.
LEMMA CreditStartFacts ==
    ASSUME NEW returns \in SUBSET (Nat \X Nat), HasLast(returns),
           NEW start \in Nat, NEW depth \in Nat
    PROVE  /\ CreditStart(returns, start, depth) \in Nat
           /\ CreditStart(returns, start, depth) >= start
           /\ depth # NoCredit =>
                  HasCredit(returns, CreditStart(returns, start, depth), depth)
<1> DEFINE ticks == CreditTicks(returns, start, depth)
<1>1. CASE depth = NoCredit
  BY <1>1 DEF CreditStart
<1>2. CASE depth # NoCredit
  <2>1. ticks \in SUBSET Nat
    BY SMT DEF CreditTicks
  <2>2. \A t \in Nat : (\A c \in returns : c[1] <= t) => HasCredit(returns, t, depth)
    <3>1. SUFFICES ASSUME NEW t \in Nat, \A c \in returns : c[1] <= t
                   PROVE  HasCredit(returns, t, depth)
      OBVIOUS
    <3>2. {r \in returns : r[1] > t} = {}
      BY <3>1, SMT
    <3> QED BY <3>2, <1>2, FS_EmptySet DEF HasCredit, NoCredit
  <2>3. ticks # {}
    <3>1. CASE \A c \in returns : c[1] <= start
      <4>1. start \in ticks BY <3>1, <2>2 DEF CreditTicks
      <4> QED BY <4>1
    <3>2. CASE ~(\A c \in returns : c[1] <= start)
      <4>1. PICK m \in returns : \A c \in returns : c[1] <= m[1]
        BY <3>2 DEF HasLast
      <4>2. m[1] \in Nat /\ m[1] >= start
        BY <4>1, <3>2, SMT
      <4>3. m[1] \in ticks
        BY <4>1, <4>2, <2>2 DEF CreditTicks
      <4> QED BY <4>3
    <3> QED BY <3>1, <3>2
  <2>4. PICK t \in ticks : \A u \in ticks : t <= u
    BY <2>1, <2>3, FirstTick
  <2>5. CreditStart(returns, start, depth) = CHOOSE x \in ticks : \A u \in ticks : x <= u
    BY <1>2 DEF CreditStart
  <2>6. CreditStart(returns, start, depth) \in ticks
    BY <2>4, <2>5, Zenon
  <2> QED BY <2>1, <2>6 DEF CreditTicks
<1> QED BY <1>1, <1>2

-----------------------------------------------------------------------------
\* the resources: ticks, and credits with a last one
FabricOk(f) ==
    /\ f = [links |-> f.links, lanes |-> f.lanes, inputs |-> f.inputs, outputs |-> f.outputs]
    /\ f.links \in [FabricLinks -> Nat]
    /\ f.inputs \in [InputVcs -> Nat]
    /\ f.outputs \in [OutputPorts -> Nat]
    /\ f.lanes \in [FabricLinks \X VirtualNetworks ->
                        [next : Nat, returns : SUBSET (Nat \X Nat)]]
    /\ \A l \in FabricLinks, v \in VirtualNetworks :
          HasLast(f.lanes[<<l, v>>].returns) /\ IsFiniteSet(f.lanes[<<l, v>>].returns)

\* what a reservation says of the hop
HopOk(r) ==
    /\ r.link \in FabricLinks /\ r.vnet \in VirtualNetworks /\ r.credits \in Nat
    /\ r.start \in Nat /\ r.depart \in Nat /\ r.arrival \in Nat
    /\ r.start < r.depart /\ r.depart < r.arrival
    /\ r.ready \in Nat /\ r.routerStart \in Nat
    /\ r.stage # NoStage => /\ r.stage.input \in InputVcs /\ r.stage.output \in OutputPorts
                            /\ r.routerStart < r.ready

\* the resources of the hop are free when the packet takes them
HopFree(f, r) ==
    /\ f.links[r.link] <= r.start
    /\ f.lanes[<<r.link, r.vnet>>].next <= r.start
    /\ r.stage # NoStage => /\ f.inputs[r.stage.input] <= r.routerStart
                            /\ f.outputs[r.stage.output] <= r.routerStart
    /\ r.credits # NoCredit =>
          HasCredit(f.lanes[<<r.link, r.vnet>>].returns, r.start, r.credits)

\* A packet takes at least one tick to pass a link.
LEMMA CeilDivFacts ==
    ASSUME NEW a \in Nat \ {0}, NEW b \in Nat \ {0}
    PROVE  CeilDiv(a, b) \in Nat /\ CeilDiv(a, b) > 0
BY DEF CeilDiv

\* reserve_transfer never gives a packet a resource before it is free.
LEMMA ReservationFacts ==
    ASSUME NEW f, FabricOk(f), NEW packet \in FabricPackets, NEW hop \in PathHops,
           NEW ready \in Nat
    PROVE  HopOk(Reservation(f, packet, hop, ready)) /\ HopFree(f, Reservation(f, packet, hop, ready))
<1> DEFINE vnet == IF hop.vnet = NoOverride THEN packet.vnet ELSE hop.vnet
           lane == f.lanes[<<hop.link, vnet>>]
           laneReady == LaneReady(f, hop, ready)
           earliest == EarliestStart(lane, f.links[hop.link], laneReady)
           start == CreditStart(lane.returns, earliest, hop.credits)
           serialization == CeilDiv(packet.bytes, hop.bandwidth)
           routerStart == IF hop.stage = NoStage THEN ready ELSE RouterStart(f, hop.stage, ready)
           r == Reservation(f, packet, hop, ready)
<1>1. /\ r.link = hop.link /\ r.vnet = vnet /\ r.stage = hop.stage /\ r.credits = hop.credits
      /\ r.routerStart = routerStart /\ r.ready = laneReady /\ r.start = start
      /\ r.depart = start + serialization /\ r.arrival = start + serialization + hop.latency
  BY DEF Reservation
<1>2. hop.link \in FabricLinks /\ vnet \in VirtualNetworks /\ hop.credits \in Nat
  BY DEF PathHops, FabricPackets
<1>3. hop.stage # NoStage => hop.stage \in Stages
  BY DEF PathHops
<1>4. /\ routerStart \in Nat /\ laneReady \in Nat
      /\ hop.stage # NoStage =>
            /\ hop.stage.input \in InputVcs /\ hop.stage.output \in OutputPorts
            /\ f.inputs[hop.stage.input] <= routerStart /\ f.outputs[hop.stage.output] <= routerStart
            /\ routerStart < laneReady
  <2>1. CASE hop.stage = NoStage
    BY <2>1 DEF LaneReady
  <2>2. CASE hop.stage # NoStage
    <3>1. /\ hop.stage.input \in InputVcs /\ hop.stage.output \in OutputPorts
          /\ hop.stage.latency \in Nat \ {0}
      BY <1>3, <2>2 DEF Stages
    <3>2. f.inputs[hop.stage.input] \in Nat /\ f.outputs[hop.stage.output] \in Nat
      BY <3>1 DEF FabricOk
    <3>3. /\ RouterStart(f, hop.stage, ready) \in Nat
          /\ RouterStart(f, hop.stage, ready) >= f.inputs[hop.stage.input]
          /\ RouterStart(f, hop.stage, ready) >= f.outputs[hop.stage.output]
      BY <3>2 DEF RouterStart, Later
    <3> QED BY <3>1, <3>2, <3>3, <2>2 DEF LaneReady
  <2> QED BY <2>1, <2>2
<1>5. /\ f.links[hop.link] \in Nat
      /\ lane \in [next : Nat, returns : SUBSET (Nat \X Nat)]
      /\ HasLast(lane.returns)
  BY <1>2, SMTT(30) DEF FabricOk
<1>6. /\ earliest \in Nat /\ earliest >= lane.next /\ earliest >= f.links[hop.link]
      /\ lane.next \in Nat /\ lane.returns \in SUBSET (Nat \X Nat)
  <2>1. lane.next \in Nat /\ lane.returns \in SUBSET (Nat \X Nat)
    BY <1>5, SMTT(30)
  <2> QED BY <2>1, <1>4, <1>5 DEF EarliestStart, Later
<1>7. /\ start \in Nat /\ start >= earliest
      /\ hop.credits # NoCredit => HasCredit(lane.returns, start, hop.credits)
  BY <1>2, <1>5, <1>6, CreditStartFacts, Zenon
<1>8. serialization \in Nat /\ serialization > 0 /\ hop.latency \in Nat /\ hop.latency > 0
  <2>1. packet.bytes \in Nat \ {0} /\ hop.bandwidth \in Nat \ {0} /\ hop.latency \in Nat \ {0}
    BY DEF PathHops, FabricPackets
  <2> QED BY <2>1, CeilDivFacts
<1> HIDE DEF vnet, lane, laneReady, earliest, start, serialization, routerStart, r
<1>9. HopOk(r)
  BY <1>1, <1>2, <1>4, <1>7, <1>6, <1>8 DEF HopOk
<1>10. f.lanes[<<hop.link, vnet>>] = lane
  BY DEF lane
<1>11. HopFree(f, r)
  BY <1>1, <1>2, <1>4, <1>5, <1>6, <1>7, <1>10 DEF HopFree
<1> QED BY <1>9, <1>11, SMTT(30) DEF r

-----------------------------------------------------------------------------
\* a link is taken as long as the last of its lanes
LinksAreLatest(f) ==
    \A l \in FabricLinks :
        /\ \A v \in VirtualNetworks : f.lanes[<<l, v>>].next <= f.links[l]
        /\ \E v \in VirtualNetworks : f.lanes[<<l, v>>].next = f.links[l]

\* the resources remember the hops: none is free before the hop is over, and the credit of a
\* packet is held until it returns
Remembers(f, r) ==
    /\ r.depart <= f.lanes[<<r.link, r.vnet>>].next
    /\ r.stage # NoStage => /\ r.ready <= f.inputs[r.stage.input]
                            /\ r.ready <= f.outputs[r.stage.output]
    /\ r.credits # NoCredit =>
          \/ <<r.arrival, r.depart>> \in f.lanes[<<r.link, r.vnet>>].returns
          \/ r.arrival <= f.lanes[<<r.link, r.vnet>>].next

HopsInv ==
    /\ FabricOk(fabric)
    /\ LinksAreLatest(fabric)
    /\ \A r \in hopActivity : HopOk(r) /\ Remembers(fabric, r)
    /\ OneAtATime
    /\ CreditsRespected

\* The restore that follows a failed transaction changes nothing: the links, which no snapshot
\* holds, are the latest of their lanes.
LEMMA RestoreIsIdentity ==
    ASSUME NEW f, FabricOk(f), LinksAreLatest(f)
    PROVE  RestoreSnapshot(f) = f
<1>1. ASSUME NEW l \in FabricLinks PROVE LatestLane(f, l) = f.links[l]
  <2> DEFINE ticks == {f.lanes[<<l, v>>].next : v \in VirtualNetworks}
  <2>1. f.links[l] \in Nat /\ \A t \in ticks : t \in Nat /\ t <= f.links[l]
    <3>1. \A v \in VirtualNetworks :
             f.lanes[<<l, v>>].next \in Nat /\ f.lanes[<<l, v>>].next <= f.links[l]
      BY <1>1 DEF FabricOk, LinksAreLatest
    <3> QED BY <3>1, <1>1, Zenon DEF FabricOk
  <2>2. f.links[l] \in ticks
    <3>1. PICK v \in VirtualNetworks : f.lanes[<<l, v>>].next = f.links[l]
      BY <1>1, SMTT(30) DEF LinksAreLatest
    <3> QED BY <3>1
  <2>3. LatestLane(f, l) = CHOOSE t \in ticks : \A u \in ticks : t >= u
    BY DEF LatestLane
  <2> HIDE DEF ticks
  <2>4. \A t \in ticks : (\A u \in ticks : t >= u) => t = f.links[l]
    BY <2>1, <2>2, SMT
  <2>5. \A u \in ticks : f.links[l] >= u
    BY <2>1, SMT
  <2> QED BY <2>2, <2>3, <2>4, <2>5, Zenon
<1>2. RestoredLinks(f) = [l \in FabricLinks |-> f.links[l]]
  BY <1>1 DEF RestoredLinks
<1>3. [l \in FabricLinks |-> f.links[l]] = f.links
  BY DEF FabricOk
<1> QED BY <1>2, <1>3 DEF RestoreSnapshot, FabricOk

-----------------------------------------------------------------------------
\* The credits of a lane stay finite and keep a last one.
LEMMA ReturnsAfter ==
    ASSUME NEW old \in SUBSET (Nat \X Nat), HasLast(old), IsFiniteSet(old), NEW r, HopOk(r)
    PROVE  /\ CreditReturns(old, r) \in SUBSET (Nat \X Nat)
           /\ HasLast(CreditReturns(old, r))
           /\ IsFiniteSet(CreditReturns(old, r))
<1> DEFINE kept == {c \in old : c[1] > r.start}
           new == <<r.arrival, r.depart>>
<1>1. old \in SUBSET (Nat \X Nat)
  OBVIOUS
<1>2. r.start \in Nat /\ new \in Nat \X Nat /\ new[1] = r.arrival /\ r.arrival \in Nat
      /\ r.depart \in Nat
  BY DEF HopOk
<1>3. CreditReturns(old, r) = IF r.credits = NoCredit THEN old ELSE kept \union {new}
  BY DEF CreditReturns
<1>4. IsFiniteSet(kept \union {new})
  <2>1. IsFiniteSet(kept) BY FS_Subset
  <2> QED BY <2>1, FS_AddElement, Zenon
<1> HIDE DEF new
<1>5. HasLast(kept \union {new})
  <2>1. CASE \A c \in kept : c[1] <= new[1]
    <3>1. \A c \in kept \union {new} : c[1] <= new[1]
      BY <2>1, <1>2
    <3> QED BY <3>1 DEF HasLast
  <2>2. CASE ~(\A c \in kept : c[1] <= new[1])
    <3>1. PICK c \in kept : ~(c[1] <= new[1])
      BY <2>2
    <3>2. PICK m \in old : \A d \in old : d[1] <= m[1]
      BY <3>1 DEF HasLast
    <3>3. c[1] \in Nat /\ m[1] \in Nat /\ c[1] <= m[1] /\ c[1] > r.start
      BY <3>1, <3>2, <1>1
    <3>4. m \in kept
      BY <3>2, <3>3, <1>2
    <3>5. new[1] <= m[1]
      BY <3>1, <3>3, <1>2
    <3>6. \A d \in kept \union {new} : d[1] <= m[1]
      BY <3>2, <3>5, Zenon
    <3> QED BY <3>4, <3>6 DEF HasLast
  <2> QED BY <2>1, <2>2
<1>6. kept \union {new} \in SUBSET (Nat \X Nat)
  BY <1>1, <1>2
<1> HIDE DEF kept
<1> QED BY <1>1, <1>3, <1>4, <1>5, <1>6

\* What a reservation changes.
LEMMA ReservedFields ==
    ASSUME NEW f, FabricOk(f), NEW r, HopOk(r)
    PROVE  LET g == Reserved(f, r) IN
           /\ g = [links |-> g.links, lanes |-> g.lanes, inputs |-> g.inputs,
                   outputs |-> g.outputs]
           /\ g.links \in [FabricLinks -> Nat]
           /\ g.inputs \in [InputVcs -> Nat]
           /\ g.outputs \in [OutputPorts -> Nat]
           /\ g.links = [f.links EXCEPT ![r.link] = r.depart]
           /\ g.lanes = [f.lanes EXCEPT ![<<r.link, r.vnet>>] = LaneAfter(@, r)]
           /\ r.stage = NoStage => g.inputs = f.inputs /\ g.outputs = f.outputs
           /\ r.stage # NoStage => /\ g.inputs = [f.inputs EXCEPT ![r.stage.input] = r.ready]
                                   /\ g.outputs = [f.outputs EXCEPT ![r.stage.output] = r.ready]
<1> DEFINE g == Reserved(f, r)
<1>1. /\ g = [links |-> g.links, lanes |-> g.lanes, inputs |-> g.inputs, outputs |-> g.outputs]
      /\ g.links = [f.links EXCEPT ![r.link] = r.depart]
      /\ r.stage = NoStage => g.inputs = f.inputs /\ g.outputs = f.outputs
      /\ r.stage # NoStage => /\ g.inputs = [f.inputs EXCEPT ![r.stage.input] = r.ready]
                              /\ g.outputs = [f.outputs EXCEPT ![r.stage.output] = r.ready]
  BY DEF Reserved
<1>2. g.lanes = [f.lanes EXCEPT ![<<r.link, r.vnet>>] = LaneAfter(@, r)]
  BY DEF Reserved
<1> HIDE DEF g
<1>3. g.links \in [FabricLinks -> Nat] /\ g.inputs \in [InputVcs -> Nat]
      /\ g.outputs \in [OutputPorts -> Nat]
  BY <1>1 DEF FabricOk, HopOk
<1> QED BY <1>1, <1>2, <1>3 DEF g

\* A reservation keeps the fabric well formed, every link the latest of its lanes, and every
\* earlier hop remembered; and it is remembered itself.
LEMMA ReservedKeeps ==
    ASSUME NEW f, FabricOk(f), LinksAreLatest(f), NEW r, HopOk(r), HopFree(f, r)
    PROVE  /\ FabricOk(Reserved(f, r)) /\ LinksAreLatest(Reserved(f, r))
           /\ Remembers(Reserved(f, r), r)
           /\ \A s : HopOk(s) /\ Remembers(f, s) => Remembers(Reserved(f, r), s)
<1> DEFINE g == Reserved(f, r)
           key == <<r.link, r.vnet>>
           lane == f.lanes[key]
<1>1. /\ g = [links |-> g.links, lanes |-> g.lanes, inputs |-> g.inputs, outputs |-> g.outputs]
      /\ g.links \in [FabricLinks -> Nat] /\ g.inputs \in [InputVcs -> Nat]
      /\ g.outputs \in [OutputPorts -> Nat]
      /\ g.links = [f.links EXCEPT ![r.link] = r.depart]
      /\ g.lanes = [f.lanes EXCEPT ![key] = LaneAfter(@, r)]
      /\ r.stage = NoStage => g.inputs = f.inputs /\ g.outputs = f.outputs
      /\ r.stage # NoStage => /\ g.inputs = [f.inputs EXCEPT ![r.stage.input] = r.ready]
                              /\ g.outputs = [f.outputs EXCEPT ![r.stage.output] = r.ready]
  BY ReservedFields, SMTT(30)
<1> HIDE DEF g
<1>2. key \in FabricLinks \X VirtualNetworks /\ r.link \in FabricLinks /\ r.vnet \in VirtualNetworks
  BY DEF HopOk
<1>3. /\ lane \in [next : Nat, returns : SUBSET (Nat \X Nat)]
      /\ HasLast(lane.returns) /\ IsFiniteSet(lane.returns)
  BY <1>2 DEF FabricOk
<1>4. /\ lane.next \in Nat /\ lane.returns \in SUBSET (Nat \X Nat)
  BY <1>3
<1>5. /\ CreditReturns(lane.returns, r) \in SUBSET (Nat \X Nat)
      /\ HasLast(CreditReturns(lane.returns, r)) /\ IsFiniteSet(CreditReturns(lane.returns, r))
  BY <1>3, <1>4, ReturnsAfter
<1>6. /\ g.lanes[key] = [next |-> r.depart, returns |-> CreditReturns(lane.returns, r)]
      /\ \A k \in FabricLinks \X VirtualNetworks : k # key => g.lanes[k] = f.lanes[k]
      /\ DOMAIN g.lanes = FabricLinks \X VirtualNetworks
  <2>1. DOMAIN f.lanes = FabricLinks \X VirtualNetworks BY DEF FabricOk
  <2> QED BY <1>1, <1>2, <2>1 DEF LaneAfter
<1>7. /\ g.lanes[key].next = r.depart /\ g.lanes[key].returns = CreditReturns(lane.returns, r)
  BY <1>6
<1>8. r.depart \in Nat /\ r.start \in Nat /\ r.start < r.depart /\ r.arrival \in Nat
  BY DEF HopOk
<1>9. lane.next <= r.start /\ f.links[r.link] <= r.start /\ f.links[r.link] \in Nat
  BY <1>2 DEF HopFree, FabricOk
<1>10. \A l \in FabricLinks, v \in VirtualNetworks :
          \/ l = r.link /\ v = r.vnet /\ <<l, v>> = key
          \/ <<l, v>> # key /\ g.lanes[<<l, v>>] = f.lanes[<<l, v>>]
  BY <1>6
<1>11. FabricOk(g)
  <2>1. \A k \in FabricLinks \X VirtualNetworks :
           g.lanes[k] \in [next : Nat, returns : SUBSET (Nat \X Nat)]
    <3>1. [next |-> r.depart, returns |-> CreditReturns(lane.returns, r)]
              \in [next : Nat, returns : SUBSET (Nat \X Nat)]
      BY <1>5, <1>8
    <3>2. \A k \in FabricLinks \X VirtualNetworks :
             f.lanes[k] \in [next : Nat, returns : SUBSET (Nat \X Nat)]
      BY DEF FabricOk
    <3> QED BY <3>1, <3>2, <1>6, ZenonT(30)
  <2>2. g.lanes \in [FabricLinks \X VirtualNetworks ->
                        [next : Nat, returns : SUBSET (Nat \X Nat)]]
    <3>1. g.lanes = [k \in FabricLinks \X VirtualNetworks |-> g.lanes[k]]
      BY <1>1, Zenon DEF FabricOk
    <3> QED BY <3>1, <2>1, Zenon
  <2>3. ASSUME NEW l \in FabricLinks, NEW v \in VirtualNetworks
        PROVE  HasLast(g.lanes[<<l, v>>].returns) /\ IsFiniteSet(g.lanes[<<l, v>>].returns)
    <3>1. CASE <<l, v>> = key
      BY <3>1, <1>5, <1>7, Zenon
    <3>2. CASE <<l, v>> # key
      <4>1. g.lanes[<<l, v>>] = f.lanes[<<l, v>>]
        BY <3>2, <1>10, <2>3, Zenon
      <4> QED BY <4>1, <2>3, Zenon DEF FabricOk
    <3> QED BY <3>1, <3>2
  <2> QED BY <1>1, <2>2, <2>3, Zenon DEF FabricOk
<1>12. LinksAreLatest(g)
  <2>1. SUFFICES ASSUME NEW l \in FabricLinks
                 PROVE  /\ \A v \in VirtualNetworks : g.lanes[<<l, v>>].next <= g.links[l]
                        /\ \E v \in VirtualNetworks : g.lanes[<<l, v>>].next = g.links[l]
    BY DEF LinksAreLatest
  <2>2. CASE l = r.link
    <3>1. g.links[l] = r.depart
      BY <2>2, <1>1, <1>2 DEF FabricOk
    <3>2. g.lanes[<<l, r.vnet>>].next = g.links[l]
      BY <3>1, <2>2, <1>7
    <3>3. ASSUME NEW v \in VirtualNetworks PROVE g.lanes[<<l, v>>].next <= g.links[l]
      <4>1. CASE <<l, v>> = key
        BY <4>1, <3>1, <1>7, <1>8
      <4>2. CASE <<l, v>> # key
        <5>1. g.lanes[<<l, v>>] = f.lanes[<<l, v>>]
          BY <4>2, <1>10, <3>3, Zenon
        <5>2. f.lanes[<<l, v>>].next <= f.links[l] /\ f.lanes[<<l, v>>].next \in Nat
          BY <3>3 DEF LinksAreLatest, FabricOk
        <5> QED BY <5>1, <5>2, <3>1, <1>8, <1>9, <2>2
      <4> QED BY <4>1, <4>2
    <3> QED BY <3>2, <3>3, <1>2
  <2>3. CASE l # r.link
    <3>1. g.links[l] = f.links[l]
      BY <2>3, <1>1 DEF FabricOk
    <3>2. \A v \in VirtualNetworks : g.lanes[<<l, v>>] = f.lanes[<<l, v>>]
      BY <2>3, <1>10, Zenon
    <3> QED BY <3>1, <3>2, Zenon DEF LinksAreLatest
  <2> QED BY <2>2, <2>3
<1>13. Remembers(g, r)
  <2>1. r.credits # NoCredit => <<r.arrival, r.depart>> \in g.lanes[key].returns
    BY <1>7, Zenon DEF CreditReturns
  <2>2. r.stage # NoStage => g.inputs[r.stage.input] = r.ready /\ g.outputs[r.stage.output] = r.ready
    BY <1>1 DEF HopOk, FabricOk
  <2>3. r.ready \in Nat BY DEF HopOk
  <2>4. r.depart <= g.lanes[key].next BY <1>7, <1>8
  <2> QED BY <2>1, <2>2, <2>3, <2>4 DEF Remembers
<1>14. ASSUME NEW s, HopOk(s), Remembers(f, s) PROVE Remembers(g, s)
  <2> DEFINE home == <<s.link, s.vnet>>
  <2>1. home \in FabricLinks \X VirtualNetworks /\ s.depart \in Nat /\ s.arrival \in Nat
        /\ s.ready \in Nat
    BY <1>14 DEF HopOk
  <2>2. /\ s.depart <= f.lanes[home].next /\ f.lanes[home].next \in Nat
        /\ s.credits # NoCredit => \/ <<s.arrival, s.depart>> \in f.lanes[home].returns
                                   \/ s.arrival <= f.lanes[home].next
    BY <1>14, <2>1 DEF Remembers, FabricOk
  <2>3. /\ s.depart <= g.lanes[home].next
        /\ s.credits # NoCredit => \/ <<s.arrival, s.depart>> \in g.lanes[home].returns
                                   \/ s.arrival <= g.lanes[home].next
    <3>1. CASE home # key
      <4>1. g.lanes[home] = f.lanes[home] BY <3>1, <1>6, <2>1, Zenon
      <4> QED BY <4>1, <2>2, Zenon
    <3>2. CASE home = key
      <4>1. s.depart <= g.lanes[home].next
        BY <3>2, <2>1, <2>2, <1>7, <1>8, <1>9
      <4>2. ASSUME s.credits # NoCredit, ~(s.arrival <= g.lanes[home].next)
            PROVE  <<s.arrival, s.depart>> \in g.lanes[home].returns
        <5>1. ~(s.arrival <= f.lanes[home].next) /\ s.arrival > r.start
          BY <4>2, <3>2, <2>1, <2>2, <1>7, <1>8, <1>9
        <5>2. <<s.arrival, s.depart>> \in lane.returns
          BY <5>1, <4>2, <2>2, <3>2
        <5> DEFINE c == <<s.arrival, s.depart>>
        <5>3. c[1] > r.start BY <5>1
        <5>4. c \in CreditReturns(lane.returns, r)
          BY <5>2, <5>3 DEF CreditReturns
        <5> QED BY <5>4, <3>2, <1>7
      <4> QED BY <4>1, <4>2
    <3> QED BY <3>1, <3>2
  <2>4. s.stage # NoStage => /\ s.ready <= g.inputs[s.stage.input]
                             /\ s.ready <= g.outputs[s.stage.output]
    <3>1. SUFFICES ASSUME s.stage # NoStage
                   PROVE  /\ s.ready <= g.inputs[s.stage.input]
                          /\ s.ready <= g.outputs[s.stage.output]
      OBVIOUS
    <3>2. /\ s.stage.input \in InputVcs /\ s.stage.output \in OutputPorts
          /\ s.ready <= f.inputs[s.stage.input] /\ s.ready <= f.outputs[s.stage.output]
          /\ f.inputs[s.stage.input] \in Nat /\ f.outputs[s.stage.output] \in Nat
      BY <3>1, <1>14 DEF Remembers, HopOk, FabricOk
    <3>3. CASE r.stage = NoStage
      BY <3>2, <3>3, <1>1
    <3>4. CASE r.stage # NoStage
      <4>1. /\ f.inputs[r.stage.input] <= r.routerStart /\ f.outputs[r.stage.output] <= r.routerStart
            /\ r.routerStart \in Nat /\ r.ready \in Nat /\ r.routerStart < r.ready
        BY <3>4 DEF HopFree, HopOk
      <4>2. /\ g.inputs = [f.inputs EXCEPT ![r.stage.input] = r.ready]
            /\ g.outputs = [f.outputs EXCEPT ![r.stage.output] = r.ready]
        BY <3>4, <1>1
      <4>3. DOMAIN f.inputs = InputVcs /\ DOMAIN f.outputs = OutputPorts
        BY DEF FabricOk
      <4>4. s.ready <= g.inputs[s.stage.input]
        BY <3>2, <4>1, <4>2, <4>3, <2>1, SMTT(30)
      <4>5. s.ready <= g.outputs[s.stage.output]
        BY <3>2, <4>1, <4>2, <4>3, <2>1
      <4> QED BY <4>4, <4>5
    <3> QED BY <3>3, <3>4
  <2> QED BY <2>3, <2>4 DEF Remembers
<1> QED BY <1>11, <1>12, <1>13, <1>14, SMTT(30) DEF g

-----------------------------------------------------------------------------
\* A new hop is after every hop of its link, and different from it.
LEMMA NewHopIsLast ==
    ASSUME HopsInv, NEW r, HopOk(r), HopFree(fabric, r), NEW s \in hopActivity, s.link = r.link
    PROVE  s.depart <= r.start /\ s # r
<1>1. HopOk(s) /\ Remembers(fabric, s)
  BY DEF HopsInv
<1>2. s.depart <= fabric.lanes[<<s.link, s.vnet>>].next /\ s.depart \in Nat /\ s.vnet \in VirtualNetworks
  BY <1>1 DEF Remembers, HopOk
<1>3. /\ r.link \in FabricLinks /\ r.start \in Nat /\ r.depart \in Nat /\ r.start < r.depart
      /\ fabric.links[r.link] <= r.start
  BY DEF HopOk, HopFree
<1>4. FabricOk(fabric) /\ LinksAreLatest(fabric)
  BY DEF HopsInv
<1>5. /\ fabric.lanes[<<s.link, s.vnet>>].next <= fabric.links[r.link]
      /\ fabric.lanes[<<s.link, s.vnet>>].next \in Nat /\ fabric.links[r.link] \in Nat
  BY <1>2, <1>3, <1>4 DEF LinksAreLatest, FabricOk
<1>6. s.depart <= r.start
  BY <1>2, <1>3, <1>5
<1>7. s.depart # r.depart
  BY <1>2, <1>3, <1>6
<1> QED BY <1>6, <1>7

\* A new hop finds a credit: the packets of its lane in flight at its start, with itself, are
\* no more than the credits.
LEMMA NewHopHasCredit ==
    ASSUME HopsInv, NEW r, HopOk(r), HopFree(fabric, r), r.credits # NoCredit
    PROVE  Cardinality({s \in hopActivity \union {r} :
                           /\ s.link = r.link /\ s.vnet = r.vnet /\ s.credits # NoCredit
                           /\ s.start <= r.start /\ r.start < s.arrival}) <= r.credits
<1> DEFINE old == {s \in hopActivity :
                      /\ s.link = r.link /\ s.vnet = r.vnet /\ s.credits # NoCredit
                      /\ s.start <= r.start /\ r.start < s.arrival}
           returns == fabric.lanes[<<r.link, r.vnet>>].returns
           out == {c \in returns : c[1] > r.start}
           credit == [s \in old |-> <<s.arrival, s.depart>>]
<1>1. r.start \in Nat /\ r.arrival \in Nat /\ r.start < r.arrival /\ r.credits \in Nat
      /\ r.link \in FabricLinks /\ r.vnet \in VirtualNetworks
  BY DEF HopOk
<1>2. IsFiniteSet(returns) /\ fabric.lanes[<<r.link, r.vnet>>].next \in Nat
  BY <1>1 DEF HopsInv, FabricOk
<1>3. IsFiniteSet(out)
  BY <1>2, FS_Subset
<1>4. Cardinality(out) < r.credits
  BY DEF HopFree, HasCredit
<1>5. credit \in Injection(old, out)
  <2>1. ASSUME NEW s \in old PROVE <<s.arrival, s.depart>> \in out
    <3>1. HopOk(s) /\ Remembers(fabric, s)
      BY DEF HopsInv
    <3>2. \/ <<s.arrival, s.depart>> \in returns
          \/ s.arrival <= fabric.lanes[<<r.link, r.vnet>>].next
      BY <3>1 DEF Remembers
    <3>3. fabric.lanes[<<r.link, r.vnet>>].next <= r.start
      BY DEF HopFree
    <3>4. s.arrival \in Nat /\ r.start < s.arrival
      BY <3>1 DEF HopOk
    <3>5. <<s.arrival, s.depart>> \in returns
      BY <3>2, <3>3, <3>4, <1>1, <1>2
    <3> DEFINE c == <<s.arrival, s.depart>>
    <3>6. c[1] > r.start BY <3>4, <1>1
    <3> QED BY <3>5, <3>6
  <2>2. ASSUME NEW s \in old, NEW t \in old, credit[s] = credit[t] PROVE s = t
    <3>1. s.depart = t.depart
      BY <2>2
    <3>2. s.link = t.link /\ HopOk(s) /\ HopOk(t)
      BY DEF HopsInv
    <3>3. s # t => s.depart <= t.start \/ t.depart <= s.start
      BY <3>2 DEF HopsInv, OneAtATime
    <3> QED BY <3>1, <3>2, <3>3 DEF HopOk
  <2> HIDE DEF out, old
  <2>3. credit \in [old -> out] BY <2>1
  <2>4. IsInjective(credit) BY <2>2 DEF IsInjective
  <2> QED BY <2>3, <2>4 DEF Injection
<1>6. IsFiniteSet(old) /\ Cardinality(old) <= Cardinality(out)
  BY <1>3, <1>5, FS_Injection
<1>7. r \notin old
  BY NewHopIsLast
<1>8. {s \in hopActivity \union {r} :
          /\ s.link = r.link /\ s.vnet = r.vnet /\ s.credits # NoCredit
          /\ s.start <= r.start /\ r.start < s.arrival} = old \union {r}
  BY <1>1, SMT
<1> HIDE DEF out, old
<1>9. Cardinality(old \union {r}) = Cardinality(old) + 1
  BY <1>6, <1>7, FS_AddElement
<1>10. Cardinality(old) \in Nat /\ Cardinality(out) \in Nat
  BY <1>3, <1>6, FS_CardinalityType
<1> QED BY <1>1, <1>4, <1>6, <1>8, <1>9, <1>10, OneMoreFits, Zenon

-----------------------------------------------------------------------------
\* The initial fabric satisfies the invariant.
LEMMA HopsInitOk == HopsInit => HopsInv
<1> SUFFICES ASSUME HopsInit PROVE HopsInv
  OBVIOUS
<1> USE DEF HopsInit, NewFabric
<1>1. FabricOk(fabric)
  <2>1. \A l \in FabricLinks, v \in VirtualNetworks : fabric.lanes[<<l, v>>].returns = {}
    OBVIOUS
  <2>2. fabric.lanes \in [FabricLinks \X VirtualNetworks ->
                             [next : Nat, returns : SUBSET (Nat \X Nat)]]
    OBVIOUS
  <2>3. /\ fabric = [links |-> fabric.links, lanes |-> fabric.lanes, inputs |-> fabric.inputs,
                     outputs |-> fabric.outputs]
        /\ fabric.links \in [FabricLinks -> Nat]
        /\ fabric.inputs \in [InputVcs -> Nat] /\ fabric.outputs \in [OutputPorts -> Nat]
    OBVIOUS
  <2>4. HasLast({}) /\ IsFiniteSet({})
    BY FS_EmptySet DEF HasLast
  <2> QED BY <2>1, <2>2, <2>3, <2>4, Zenon DEF FabricOk
<1>2. LinksAreLatest(fabric)
  BY FabricAssumption DEF LinksAreLatest
<1>3. hopActivity = {}
  OBVIOUS
<1> QED BY <1>1, <1>2, <1>3 DEF HopsInv, OneAtATime, CreditsRespected

\* A hop keeps the invariant.
LEMMA ReserveHopOk ==
    ASSUME HopsInv, NEW packet \in FabricPackets, NEW hop \in PathHops, NEW ready \in Nat,
           ReserveHop(packet, hop, ready)
    PROVE  HopsInv'
<1>0. PICK r : r = Reservation(fabric, packet, hop, ready)
  OBVIOUS
<1>1. fabric' = Reserved(fabric, r) /\ hopActivity' = hopActivity \union {r}
  BY <1>0 DEF ReserveHop
<1>2. FabricOk(fabric) /\ LinksAreLatest(fabric)
      /\ \A s \in hopActivity : HopOk(s) /\ Remembers(fabric, s)
  BY DEF HopsInv
<1>3. HopOk(r) /\ HopFree(fabric, r)
  BY <1>0, <1>2, ReservationFacts
<1>4. /\ FabricOk(fabric') /\ LinksAreLatest(fabric')
      /\ \A s \in hopActivity' : HopOk(s) /\ Remembers(fabric', s)
  BY <1>1, <1>2, <1>3, ReservedKeeps, Zenon
<1>5. \A s \in hopActivity : s.link = r.link => s.depart <= r.start
  BY <1>3, NewHopIsLast
<1>6. \A s \in hopActivity :
         /\ s.stage # NoStage /\ r.stage # NoStage
         /\ s.stage.input = r.stage.input \/ s.stage.output = r.stage.output
         => s.ready <= r.routerStart
  <2>1. ASSUME NEW s \in hopActivity, s.stage # NoStage, r.stage # NoStage,
               s.stage.input = r.stage.input \/ s.stage.output = r.stage.output
        PROVE  s.ready <= r.routerStart
    <3>1. /\ s.ready <= fabric.inputs[s.stage.input] /\ s.ready <= fabric.outputs[s.stage.output]
          /\ s.ready \in Nat
      BY <2>1, <1>2, Zenon DEF Remembers, HopOk
    <3>2. /\ fabric.inputs[r.stage.input] <= r.routerStart
          /\ fabric.outputs[r.stage.output] <= r.routerStart
          /\ r.routerStart \in Nat
          /\ fabric.inputs[r.stage.input] \in Nat /\ fabric.outputs[r.stage.output] \in Nat
      BY <2>1, <1>2, <1>3 DEF HopFree, HopOk, FabricOk
    <3> QED BY <2>1, <3>1, <3>2
  <2> QED BY <2>1
<1>8. OneAtATime'
  BY <1>1, <1>5, <1>6 DEF HopsInv, OneAtATime
<1>7. CreditsRespected'
  <2>1. SUFFICES ASSUME NEW s \in hopActivity', s.credits # NoCredit
                 PROVE  Cardinality(InFlight(s, s.start)') <= s.credits
    BY DEF CreditsRespected
  <2>2. CASE s = r
    <3>1. InFlight(r, r.start)' =
            {t \in hopActivity \union {r} :
                /\ t.link = r.link /\ t.vnet = r.vnet /\ t.credits # NoCredit
                /\ t.start <= r.start /\ r.start < t.arrival}
      BY <1>1 DEF InFlight
    <3> QED BY <3>1, <2>1, <2>2, <1>3, NewHopHasCredit
  <2>3. CASE s # r
    <3>1. s \in hopActivity
      BY <2>1, <2>3, <1>1
    <3>2. s.link = r.link => ~(r.start <= s.start)
      <4>1. s.link = r.link => s.depart <= r.start
        BY <3>1, <1>3, NewHopIsLast
      <4>2. s.start \in Nat /\ s.depart \in Nat /\ s.start < s.depart /\ r.start \in Nat
        BY <3>1, <1>2, <1>3 DEF HopOk
      <4> QED BY <4>1, <4>2
    <3>3. InFlight(s, s.start)' = InFlight(s, s.start)
      BY <1>1, <3>2, Zenon DEF InFlight
    <3> QED BY <3>1, <3>3, <2>1 DEF HopsInv, CreditsRespected
  <2> QED BY <2>2, <2>3
<1> QED BY <1>4, <1>7, <1>8 DEF HopsInv

\* The inductive invariant of the fabric: every resource is well formed, a link is taken as
\* long as the last of its lanes, and the resources remember every hop that was reserved.
THEOREM HopsInvariance == HopsSpec => []HopsInv
<1>1. ASSUME HopsInv, [HopsNext]_hopsVars PROVE HopsInv'
  <2>1. CASE UNCHANGED hopsVars
    BY <1>1, <2>1 DEF hopsVars, HopsInv, OneAtATime, CreditsRespected, InFlight
  <2>2. CASE FailTransaction
    <3>1. fabric' = fabric /\ hopActivity' = hopActivity
      BY <1>1, <2>2, RestoreIsIdentity DEF FailTransaction, HopsInv
    <3> QED BY <1>1, <3>1 DEF HopsInv, OneAtATime, CreditsRespected, InFlight
  <2>3. ASSUME NEW packet \in FabricPackets, NEW hop \in PathHops, NEW ready \in Nat,
               ReserveHop(packet, hop, ready)
        PROVE  HopsInv'
    BY <1>1, <2>3, ReserveHopOk
  <2> QED BY <1>1, <2>1, <2>2, <2>3 DEF HopsNext
<1> QED BY <1>1, HopsInitOk, PTL DEF HopsSpec

\* In any traffic a link, a router's input channel and its output port pass one packet at a time
\* (reserve, reserve_router_stage, commit_router_reservation).
THEOREM ResourcesExclusive == HopsSpec => []OneAtATime
<1>1. HopsInv => OneAtATime
  BY DEF HopsInv
<1> QED BY <1>1, HopsInvariance, PTL

\* In any traffic a packet enters a lane only while the lane's credits allow it, although the
\* lane forgets the credits that have returned (the loop of reserve).
THEOREM CreditsKept == HopsSpec => []CreditsRespected
<1>1. HopsInv => CreditsRespected
  BY DEF HopsInv
<1> QED BY <1>1, HopsInvariance, PTL

\* A failed transaction leaves the fabric as it found it, although its snapshot holds no links
\* (try_transaction, lane_states_from_snapshots).
THEOREM RollbackExact == HopsSpec => []RestoreFaithful
<1>1. HopsInv => RestoreFaithful
  BY RestoreIsIdentity DEF HopsInv, RestoreFaithful
<1> QED BY <1>1, HopsInvariance, PTL

-----------------------------------------------------------------------------
(* The distributed link                                                    *)

(***************************************************************************)
(* The two properties of DistributedLink for every link timing, packet     *)
(* length and quantum that satisfies LinkAssumption.  The argument: the    *)
(* sender is busy until a packet has left it, so of two packets the later  *)
(* one is sent no earlier than the earlier one was done (LinkOrder); a     *)
(* packet of this quantum is sent after the last barrier, so it is due     *)
(* after the next one (LinkOrder with the assumption on the quantum); and  *)
(* what was delivered last was done before anything still under way was    *)
(* sent (LinkDelivered).                                                   *)
(***************************************************************************)
Message == [send : Nat, delay : Nat \ {0}, length : Nat]

MessageDescriptor == [send : Nat, delay : Nat \ {0}, length : Nat, receive : Nat]

Done(m) == m.send + m.delay

LinkTypeOK ==
    /\ sendTick \in Nat
    /\ receiveTick \in Nat
    /\ syncTick \in Nat
    /\ busyUntil \in Nat
    /\ previousReceive \in Nat
    /\ wire \in Seq(Message)
    /\ pending \in Seq(MessageDescriptor)

LinkTicks ==
    /\ syncTick <= sendTick /\ sendTick <= syncTick + Quantum
    /\ syncTick <= receiveTick /\ receiveTick <= syncTick + Quantum

\* what is on the wire was sent in this quantum by a sender busy until it was done, and comes
\* after everything that is pending
LinkOrder ==
    /\ \A i \in 1..Len(wire) :
          /\ syncTick < wire[i].send
          /\ syncTick + Quantum < Receive(wire[i])
          /\ Done(wire[i]) <= sendTick \/ Done(wire[i]) <= busyUntil
          /\ \A j \in 1..Len(wire) : i < j => Done(wire[i]) <= wire[j].send
    /\ \A i \in 1..Len(pending) :
          /\ pending[i].receive = Receive(pending[i])
          /\ pending[i].receive >= receiveTick
          /\ Done(pending[i]) <= sendTick \/ Done(pending[i]) <= busyUntil
          /\ \A j \in 1..Len(pending) : i < j => Done(pending[i]) <= pending[j].send
          /\ \A j \in 1..Len(wire) : Done(pending[i]) <= wire[j].send

\* the last delivery was done before anything under way, or still to come, was sent
LinkDelivered ==
    /\ previousReceive <= sendTick + LinkDelay \/ previousReceive <= busyUntil + LinkDelay
    /\ \A i \in 1..Len(wire) : previousReceive <= wire[i].send + LinkDelay
    /\ \A i \in 1..Len(pending) : previousReceive <= pending[i].send + LinkDelay

LinkIInv ==
    /\ resumed \in BOOLEAN
    /\ resumed \/ (LinkTypeOK /\ LinkTicks /\ LinkOrder /\ LinkDelivered)

-----------------------------------------------------------------------------
\* A packet sent when an earlier one was done arrives after it.
LEMMA LaterArrival ==
    ASSUME NEW s \in Nat, NEW d \in Nat, NEW t \in Nat, NEW e \in Nat \ {0}, NEW l \in Nat,
           s + d <= t
    PROVE  s + d + l < t + e + l
OBVIOUS

\* The time a packet occupies the sender is a positive number of ticks, whatever its length.
LEMMA SendDelayPositive ==
    ASSUME NEW w \in WireLengths, NEW v \in Variations
    PROVE  SendDelay(w, v) \in Nat \ {0}
<1>1. TicksPerByte \in Nat /\ w \in Nat /\ v \in Nat
  BY LinkAssumption
<1>2. TicksPerByte * w \in Nat
  BY <1>1
<1> QED
  BY <1>1, <1>2 DEF SendDelay

\* In a state of the invariant push_data accepts the message at the head of the wire.
LEMMA HeadAccepted ==
    ASSUME LinkIInv, ~resumed, wire # <<>>
    PROVE  ~Refused(wire[1])
<1> USE LinkAssumption
<1>1. LinkTypeOK /\ LinkTicks /\ LinkOrder /\ LinkDelivered
  BY DEF LinkIInv
<1>2. 1 \in 1..Len(wire) /\ wire[1] \in Message
  BY <1>1 DEF LinkTypeOK
<1>3. ~Missed(wire[1])
  BY <1>1, <1>2 DEF Missed, Receive, LinkOrder, LinkTicks, LinkTypeOK, Message
<1>4. ~WindowTooSmall(wire[1])
  BY <1>1, <1>2 DEF WindowTooSmall, Receive, LinkDelivered, LinkTypeOK, Message
<1>5. ~OutsideWindow(wire[1])
  BY <1>1, <1>2 DEF OutsideWindow, nextSync, Receive, LinkOrder, LinkTypeOK, Message
<1>6. ~OutOfOrder(wire[1])
  <2>1. SUFFICES ASSUME pending # <<>>
                 PROVE  ~(pending[1].send + pending[1].delay > Receive(wire[1]))
    BY DEF OutOfOrder
  <2>2. 1 \in 1..Len(pending) /\ pending[1] \in MessageDescriptor
    BY <1>1, <2>1 DEF LinkTypeOK
  <2>3. Done(pending[1]) <= wire[1].send
    BY <1>1, <1>2, <2>2, Zenon DEF LinkOrder
  <2>4. /\ wire[1].send \in Nat /\ wire[1].delay \in Nat
        /\ pending[1].send \in Nat /\ pending[1].delay \in Nat
    BY <1>2, <2>2 DEF Message, MessageDescriptor
  <2> QED
    BY <2>3, <2>4 DEF Done, Receive
<1> QED
  BY <1>3, <1>4, <1>5, <1>6 DEF Refused

\* The strengthened invariant holds initially.
LEMMA LinkInitial == LinkInit => LinkIInv
<1> SUFFICES ASSUME LinkInit
             PROVE  LinkTypeOK /\ LinkTicks /\ LinkOrder /\ LinkDelivered /\ resumed \in BOOLEAN
  BY DEF LinkIInv
<1> USE LinkAssumption DEF LinkInit
<1>1. LinkTypeOK
  BY DEF LinkTypeOK
<1>2. LinkTicks
  BY DEF LinkTicks
<1>3. 1..Len(wire) = {} /\ 1..Len(pending) = {}
  OBVIOUS
<1>4. LinkOrder
  BY <1>3, Zenon DEF LinkOrder
<1>5. LinkDelivered
  BY <1>3 DEF LinkDelivered
<1> QED
  BY <1>1, <1>2, <1>4, <1>5, Zenon

\* What the invariant says of one message of the wire, and of one descriptor.
LEMMA WireFacts ==
    ASSUME LinkTypeOK, LinkOrder, LinkDelivered, NEW i \in 1..Len(wire)
    PROVE  /\ wire[i] \in Message
           /\ wire[i].send \in Nat /\ wire[i].delay \in Nat \ {0} /\ wire[i].length \in Nat
           /\ syncTick < wire[i].send
           /\ syncTick + Quantum < Receive(wire[i])
           /\ Done(wire[i]) <= sendTick \/ Done(wire[i]) <= busyUntil
           /\ previousReceive <= wire[i].send + LinkDelay
<1>1. wire[i] \in Message
  BY DEF LinkTypeOK
<1>2. wire[i].send \in Nat /\ wire[i].delay \in Nat \ {0} /\ wire[i].length \in Nat
  BY <1>1 DEF Message
<1> QED
  BY <1>1, <1>2, Zenon DEF LinkOrder, LinkDelivered

LEMMA PendingFacts ==
    ASSUME LinkTypeOK, LinkOrder, LinkDelivered, NEW i \in 1..Len(pending)
    PROVE  /\ pending[i] \in MessageDescriptor
           /\ pending[i].send \in Nat /\ pending[i].delay \in Nat \ {0}
           /\ pending[i].receive \in Nat
           /\ pending[i].receive = Receive(pending[i])
           /\ pending[i].receive >= receiveTick
           /\ Done(pending[i]) <= sendTick \/ Done(pending[i]) <= busyUntil
           /\ previousReceive <= pending[i].send + LinkDelay
<1>1. pending[i] \in MessageDescriptor
  BY DEF LinkTypeOK
<1>2. /\ pending[i].send \in Nat /\ pending[i].delay \in Nat \ {0}
      /\ pending[i].receive \in Nat
  BY <1>1 DEF MessageDescriptor
<1> QED
  BY <1>1, <1>2, Zenon DEF LinkOrder, LinkDelivered

\* Of two messages the later one is sent when the earlier one is done.
LEMMA OrderFacts ==
    ASSUME LinkOrder
    PROVE  /\ \A i, j \in 1..Len(wire) : i < j => Done(wire[i]) <= wire[j].send
           /\ \A i, j \in 1..Len(pending) : i < j => Done(pending[i]) <= pending[j].send
           /\ \A i \in 1..Len(pending), j \in 1..Len(wire) : Done(pending[i]) <= wire[j].send
BY Zenon DEF LinkOrder

\* A transmission: the sender was free, so everything before it is done at the tick it is sent.
LEMMA TransmitKeeps ==
    ASSUME LinkTypeOK, LinkTicks, LinkOrder, LinkDelivered,
           NEW w \in WireLengths, NEW v \in Variations, Transmit(w, v)
    PROVE  (LinkTypeOK /\ LinkTicks /\ LinkOrder /\ LinkDelivered)'
<1> DEFINE m == [send |-> sendTick, delay |-> SendDelay(w, v), length |-> w]
           n == Len(wire)
<1>1. /\ sendTick > syncTick /\ busyUntil <= sendTick
      /\ busyUntil' = Done(m) /\ wire' = Append(wire, m)
      /\ UNCHANGED <<sendTick, receiveTick, syncTick, pending, previousReceive, resumed>>
  BY DEF Transmit, LinkFree, TransmitDone, Done
<1>2. /\ sendTick \in Nat /\ receiveTick \in Nat /\ syncTick \in Nat /\ busyUntil \in Nat
      /\ previousReceive \in Nat /\ n \in Nat /\ wire \in Seq(Message)
      /\ Quantum \in Nat /\ LinkDelay \in Nat /\ w \in Nat
  BY LinkAssumption DEF LinkTypeOK
<1>3. SendDelay(w, v) \in Nat \ {0} /\ Quantum <= SendDelay(w, v) + LinkDelay
  BY SendDelayPositive, LinkAssumption
<1>4. m \in Message /\ m.send = sendTick /\ m.delay = SendDelay(w, v)
  BY <1>2, <1>3 DEF Message
<1> HIDE DEF m
<1>5. LinkTypeOK'
  <2>1. busyUntil' \in Nat
    BY <1>1, <1>2, <1>3, <1>4 DEF Done
  <2>2. wire' \in Seq(Message)
    BY <1>1, <1>2, <1>4
  <2> QED
    BY <1>1, <2>1, <2>2 DEF LinkTypeOK
<1>6. LinkTicks'
  BY <1>1 DEF LinkTicks
<1>7. /\ 1..Len(wire') = (1..n) \union {n + 1}
      /\ \A i \in 1..n : wire'[i] = wire[i] /\ i < n + 1
      /\ wire'[n + 1] = m
  BY <1>1, <1>2, <1>4
<1>8. \A i \in 1..n : Done(wire[i]) <= m.send /\ Done(wire[i]) <= sendTick'
  <2> TAKE i \in 1..n
  <2> QED
    BY WireFacts, <1>1, <1>2, <1>4, SMTT(30) DEF Done
<1>9. \A i \in 1..Len(pending) : Done(pending[i]) <= m.send /\ Done(pending[i]) <= sendTick'
  <2> TAKE i \in 1..Len(pending)
  <2> QED
    BY PendingFacts, <1>1, <1>2, <1>4, SMTT(30) DEF Done
<1>10. /\ syncTick < m.send /\ syncTick + Quantum < Receive(m)
       /\ Done(m) <= busyUntil' /\ previousReceive <= m.send + LinkDelay
  <2>1. previousReceive <= m.send + LinkDelay
    BY <1>1, <1>2, <1>4 DEF LinkDelivered
  <2> QED
    BY <1>1, <1>2, <1>3, <1>4, <2>1 DEF Receive, Done
<1>11. LinkOrder'
  <2>1. ASSUME NEW i \in 1..Len(wire')
        PROVE  /\ syncTick' < wire'[i].send
               /\ syncTick' + Quantum < Receive(wire'[i])
               /\ Done(wire'[i]) <= sendTick' \/ Done(wire'[i]) <= busyUntil'
               /\ \A j \in 1..Len(wire') : i < j => Done(wire'[i]) <= wire'[j].send
    <3>1. CASE i \in 1..n
      <4>1. wire'[i] = wire[i] /\ syncTick' = syncTick
        BY <1>1, <1>7, <3>1
      <4>2. ASSUME NEW j \in 1..Len(wire'), i < j
            PROVE  Done(wire[i]) <= wire'[j].send
        <5>1. CASE j \in 1..n
          BY <5>1, <3>1, <4>2, <1>7, OrderFacts, Zenon
        <5>2. CASE j = n + 1
          BY <5>2, <3>1, <1>7, <1>8, Zenon
        <5> QED
          BY <5>1, <5>2, <1>7, Zenon
      <4> QED
        BY <4>1, <4>2, <3>1, <1>8, WireFacts, Zenon
    <3>2. CASE i = n + 1
      <4>1. \A j \in 1..Len(wire') : ~(i < j)
        BY <3>2, <1>2, <1>7
      <4> QED
        BY <3>2, <4>1, <1>1, <1>7, <1>10, Zenon
    <3> QED
      BY <3>1, <3>2, <1>7, Zenon
  <2>2. ASSUME NEW i \in 1..Len(pending')
        PROVE  /\ pending'[i].receive = Receive(pending'[i])
               /\ pending'[i].receive >= receiveTick'
               /\ Done(pending'[i]) <= sendTick' \/ Done(pending'[i]) <= busyUntil'
               /\ \A j \in 1..Len(pending') : i < j => Done(pending'[i]) <= pending'[j].send
               /\ \A j \in 1..Len(wire') : Done(pending'[i]) <= wire'[j].send
    <3>1. pending' = pending /\ receiveTick' = receiveTick
      BY <1>1
    <3>2. ASSUME NEW j \in 1..Len(wire')
          PROVE  Done(pending[i]) <= wire'[j].send
      <4>1. CASE j \in 1..n
        BY <4>1, <3>1, <1>7, OrderFacts, Zenon
      <4>2. CASE j = n + 1
        BY <4>2, <3>1, <1>7, <1>9, Zenon
      <4> QED
        BY <4>1, <4>2, <1>7, Zenon
    <3> QED
      BY <3>1, <3>2, <1>9, PendingFacts, OrderFacts, Zenon
  <2> QED
    BY <2>1, <2>2, Zenon DEF LinkOrder, Receive, Done
<1>12. LinkDelivered'
  <2>1. \A i \in 1..Len(wire') : previousReceive <= wire'[i].send + LinkDelay
    BY <1>7, <1>10, Zenon DEF LinkDelivered
  <2>2. previousReceive' = previousReceive /\ pending' = pending
    BY <1>1
  <2>3. previousReceive <= sendTick' + LinkDelay
    BY <1>1, <1>4, <1>10
  <2> QED
    BY <2>1, <2>2, <2>3, Zenon DEF LinkDelivered
<1> QED
  BY <1>5, <1>6, <1>11, <1>12

\* An accepted message goes behind the descriptors it was sent after.
LEMMA AcceptKeeps ==
    ASSUME LinkTypeOK, LinkTicks, LinkOrder, LinkDelivered, AcceptRemoteMessage,
           ~Refused(wire[1])
    PROVE  (LinkTypeOK /\ LinkTicks /\ LinkOrder /\ LinkDelivered)'
<1> DEFINE m == wire[1]
           d == Descriptor(m)
           n == Len(pending)
           k == Len(wire)
<1>1. /\ wire # <<>> /\ wire' = Tail(wire) /\ pending' = Append(pending, d)
      /\ UNCHANGED <<sendTick, receiveTick, syncTick, busyUntil, previousReceive, resumed>>
  BY DEF AcceptRemoteMessage
<1>2. /\ receiveTick \in Nat /\ syncTick \in Nat /\ Quantum \in Nat /\ LinkDelay \in Nat
      /\ n \in Nat /\ k \in Nat /\ pending \in Seq(MessageDescriptor) /\ wire \in Seq(Message)
  BY LinkAssumption DEF LinkTypeOK
<1>3. 1 \in 1..k
  BY <1>1, <1>2
<1>4. /\ m \in Message /\ m.send \in Nat /\ m.delay \in Nat \ {0} /\ m.length \in Nat
      /\ syncTick + Quantum < Receive(m)
      /\ Done(m) <= sendTick \/ Done(m) <= busyUntil
      /\ previousReceive <= m.send + LinkDelay
  BY <1>3, WireFacts, Zenon
<1>5. Receive(m) \in Nat /\ Receive(m) >= receiveTick
  BY <1>2, <1>4, SMTT(30) DEF Receive, LinkTicks
<1>6. /\ d \in MessageDescriptor /\ d.send = m.send /\ d.delay = m.delay
      /\ d.receive = Receive(m)
  BY <1>4, <1>5 DEF Descriptor, MessageDescriptor
<1>7. Done(d) = Done(m) /\ Receive(d) = Receive(m)
  BY <1>6 DEF Done, Receive
<1> HIDE DEF d
<1>8. LinkTypeOK'
  <2>1. pending' \in Seq(MessageDescriptor) /\ wire' \in Seq(Message)
    BY <1>1, <1>2, <1>6
  <2> QED
    BY <1>1, <2>1 DEF LinkTypeOK
<1>9. LinkTicks'
  BY <1>1 DEF LinkTicks
<1>10. /\ 1..Len(pending') = (1..n) \union {n + 1}
       /\ \A i \in 1..n : pending'[i] = pending[i] /\ i < n + 1
       /\ pending'[n + 1] = d
  BY <1>1, <1>2, <1>6
<1>11. \A i \in 1..Len(wire') : wire'[i] = wire[i + 1] /\ i + 1 \in 1..k /\ 1 < i + 1
  BY <1>1, <1>2
<1>12. LinkOrder'
  <2>1. ASSUME NEW i \in 1..Len(wire')
        PROVE  /\ syncTick' < wire'[i].send
               /\ syncTick' + Quantum < Receive(wire'[i])
               /\ Done(wire'[i]) <= sendTick' \/ Done(wire'[i]) <= busyUntil'
               /\ \A j \in 1..Len(wire') : i < j => Done(wire'[i]) <= wire'[j].send
    <3>1. wire'[i] = wire[i + 1] /\ i + 1 \in 1..k
      BY <1>11
    <3>2. ASSUME NEW j \in 1..Len(wire'), i < j
          PROVE  Done(wire'[i]) <= wire'[j].send
      <4>1. i + 1 < j + 1 /\ j + 1 \in 1..k /\ wire'[j] = wire[j + 1]
        BY <1>11, <3>2
      <4> QED
        BY <3>1, <4>1, OrderFacts, Zenon
    <3>3. syncTick' = syncTick /\ sendTick' = sendTick /\ busyUntil' = busyUntil
      BY <1>1
    <3> QED
      BY <3>1, <3>2, <3>3, WireFacts, Zenon
  <2>2. ASSUME NEW i \in 1..Len(pending')
        PROVE  /\ pending'[i].receive = Receive(pending'[i])
               /\ pending'[i].receive >= receiveTick'
               /\ Done(pending'[i]) <= sendTick' \/ Done(pending'[i]) <= busyUntil'
               /\ \A j \in 1..Len(pending') : i < j => Done(pending'[i]) <= pending'[j].send
               /\ \A j \in 1..Len(wire') : Done(pending'[i]) <= wire'[j].send
    <3>1. receiveTick' = receiveTick /\ sendTick' = sendTick /\ busyUntil' = busyUntil
      BY <1>1
    <3>2. CASE i \in 1..n
      <4>1. pending'[i] = pending[i]
        BY <1>10, <3>2
      <4>2. ASSUME NEW j \in 1..Len(pending'), i < j
            PROVE  Done(pending[i]) <= pending'[j].send
        <5>1. CASE j \in 1..n
          BY <5>1, <3>2, <4>2, <1>10, OrderFacts, Zenon
        <5>2. CASE j = n + 1
          BY <5>2, <3>2, <1>3, <1>6, <1>10, OrderFacts, Zenon
        <5> QED
          BY <5>1, <5>2, <1>10, Zenon
      <4>3. ASSUME NEW j \in 1..Len(wire')
            PROVE  Done(pending[i]) <= wire'[j].send
        BY <3>2, <1>11, OrderFacts, Zenon
      <4> QED
        BY <3>1, <3>2, <4>1, <4>2, <4>3, PendingFacts, Zenon
    <3>3. CASE i = n + 1
      <4>1. \A j \in 1..Len(pending') : ~(i < j)
        BY <3>3, <1>2, <1>10
      <4>2. ASSUME NEW j \in 1..Len(wire')
            PROVE  Done(d) <= wire'[j].send
        BY <1>3, <1>7, <1>11, OrderFacts, Zenon
      <4> QED
        BY <3>1, <3>3, <4>1, <4>2, <1>4, <1>5, <1>6, <1>7, <1>10, Zenon
    <3> QED
      BY <3>2, <3>3, <1>10, Zenon
  <2> QED
    BY <2>1, <2>2, Zenon DEF LinkOrder, Receive, Done
<1>13. LinkDelivered'
  <2>1. \A i \in 1..Len(wire') : previousReceive <= wire'[i].send + LinkDelay
    BY <1>11, Zenon DEF LinkDelivered
  <2>2. \A i \in 1..Len(pending') : previousReceive <= pending'[i].send + LinkDelay
    BY <1>4, <1>6, <1>10, Zenon DEF LinkDelivered
  <2>3. previousReceive' = previousReceive /\ sendTick' = sendTick /\ busyUntil' = busyUntil
    BY <1>1
  <2> QED
    BY <2>1, <2>2, <2>3, Zenon DEF LinkDelivered
<1> QED
  BY <1>8, <1>9, <1>12, <1>13

\* A delivery happens at the descriptor's own tick, which is LinkDelay after it was done.
LEMMA PopKeeps ==
    ASSUME LinkTypeOK, LinkTicks, LinkOrder, LinkDelivered, PopReady
    PROVE  (LinkTypeOK /\ LinkTicks /\ LinkOrder /\ LinkDelivered)'
<1> DEFINE d == pending[1]
           n == Len(pending)
<1>1. /\ pending # <<>> /\ d.receive <= receiveTick
      /\ pending' = Tail(pending) /\ previousReceive' = receiveTick
      /\ UNCHANGED <<sendTick, receiveTick, syncTick, busyUntil, wire, resumed>>
  BY DEF PopReady, Ready
<1>2. /\ receiveTick \in Nat /\ sendTick \in Nat /\ busyUntil \in Nat /\ LinkDelay \in Nat
      /\ n \in Nat /\ pending \in Seq(MessageDescriptor)
  BY LinkAssumption DEF LinkTypeOK
<1>3. 1 \in 1..n
  BY <1>1, <1>2
<1>4. /\ d.send \in Nat /\ d.delay \in Nat \ {0} /\ d.receive = Receive(d)
      /\ d.receive >= receiveTick
      /\ Done(d) <= sendTick \/ Done(d) <= busyUntil
  BY <1>3, PendingFacts, Zenon
<1>5. Done(d) \in Nat /\ receiveTick = Done(d) + LinkDelay
  BY <1>1, <1>2, <1>4, SMTT(30) DEF Receive, Done
<1>6. \A i \in 1..Len(pending') : /\ pending'[i] = pending[i + 1]
                                  /\ i + 1 \in 1..n /\ 1 < i + 1
  BY <1>1, <1>2
<1>7. \A i \in 1..Len(pending') : Done(d) <= pending'[i].send /\ pending'[i].send \in Nat
  <2> TAKE i \in 1..Len(pending')
  <2> QED
    BY <1>3, <1>6, OrderFacts, PendingFacts, Zenon
<1>8. \A i \in 1..Len(wire) : Done(d) <= wire[i].send /\ wire[i].send \in Nat
  <2> TAKE i \in 1..Len(wire)
  <2> QED
    BY <1>3, OrderFacts, WireFacts, Zenon
<1> HIDE DEF d
<1>9. LinkTypeOK'
  BY <1>1, <1>2 DEF LinkTypeOK
<1>10. LinkTicks'
  BY <1>1 DEF LinkTicks
<1>11. LinkOrder'
  <2>1. /\ wire' = wire /\ syncTick' = syncTick /\ sendTick' = sendTick
        /\ busyUntil' = busyUntil /\ receiveTick' = receiveTick
    BY <1>1
  <2>2. ASSUME NEW i \in 1..Len(pending')
        PROVE  /\ pending'[i].receive = Receive(pending'[i])
               /\ pending'[i].receive >= receiveTick'
               /\ Done(pending'[i]) <= sendTick' \/ Done(pending'[i]) <= busyUntil'
               /\ \A j \in 1..Len(pending') : i < j => Done(pending'[i]) <= pending'[j].send
               /\ \A j \in 1..Len(wire') : Done(pending'[i]) <= wire'[j].send
    <3>1. pending'[i] = pending[i + 1] /\ i + 1 \in 1..n
      BY <1>6
    <3>2. ASSUME NEW j \in 1..Len(pending'), i < j
          PROVE  Done(pending'[i]) <= pending'[j].send
      <4>1. i + 1 < j + 1 /\ j + 1 \in 1..n /\ pending'[j] = pending[j + 1]
        BY <1>6, <3>2
      <4> QED
        BY <3>1, <4>1, OrderFacts, Zenon
    <3> QED
      BY <2>1, <3>1, <3>2, PendingFacts, OrderFacts, Zenon
  <2> QED
    BY <2>1, <2>2, Zenon DEF LinkOrder, Receive, Done
<1>12. LinkDelivered'
  <2>1. receiveTick <= sendTick + LinkDelay \/ receiveTick <= busyUntil + LinkDelay
    BY <1>2, <1>4, <1>5
  <2>2. \A i \in 1..Len(pending') : receiveTick <= pending'[i].send + LinkDelay
    BY <1>2, <1>5, <1>7
  <2>3. \A i \in 1..Len(wire) : receiveTick <= wire[i].send + LinkDelay
    BY <1>2, <1>5, <1>8
  <2> QED
    BY <1>1, <2>1, <2>2, <2>3 DEF LinkDelivered
<1> QED
  BY <1>9, <1>10, <1>11, <1>12

\* The processes' own steps: a receiver leaves a tick when nothing is due at it, and a barrier
\* finds the wire empty.
LEMMA ProcessKeeps ==
    ASSUME LinkTypeOK, LinkTicks, LinkOrder, LinkDelivered,
           DrainTransmitDone \/ SenderAdvances \/ ReceiverAdvances \/ Barrier
    PROVE  (LinkTypeOK /\ LinkTicks /\ LinkOrder /\ LinkDelivered)'
<1>1. /\ sendTick \in Nat /\ receiveTick \in Nat /\ syncTick \in Nat /\ busyUntil \in Nat
      /\ previousReceive \in Nat /\ Quantum \in Nat \ {0} /\ LinkDelay \in Nat
      /\ pending \in Seq(MessageDescriptor) /\ Len(pending) \in Nat
  BY LinkAssumption DEF LinkTypeOK
<1>2. wire' = wire /\ pending' = pending /\ previousReceive' = previousReceive
  BY DEF DrainTransmitDone, SenderAdvances, ReceiverAdvances, Barrier
<1>3. LinkTypeOK' /\ LinkTicks'
  BY <1>1, <1>2 DEF LinkTypeOK, LinkTicks, nextSync, DrainTransmitDone, SenderAdvances,
                    ReceiverAdvances, Barrier
<1>4. \A x \in Nat : x <= sendTick \/ x <= busyUntil => x <= sendTick' \/ x <= busyUntil'
  BY <1>1 DEF DrainTransmitDone, SenderAdvances, ReceiverAdvances, Barrier
<1>5. \A i \in 1..Len(wire) : syncTick' = syncTick
  <2>1. CASE Barrier
    BY <2>1 DEF Barrier
  <2> QED
    BY <2>1 DEF DrainTransmitDone, SenderAdvances, ReceiverAdvances
<1>6. \A i \in 1..Len(pending) : pending[i].receive >= receiveTick'
  <2> TAKE i \in 1..Len(pending)
  <2>1. pending[i].receive >= receiveTick /\ pending[i].receive \in Nat
    BY PendingFacts, Zenon
  <2>2. CASE ReceiverAdvances
    <3>1. pending # <<>> /\ 1 \in 1..Len(pending)
      BY <1>1
    <3>2. ~(pending[1].receive <= receiveTick) /\ receiveTick' = receiveTick + 1
      BY <2>2, <3>1 DEF ReceiverAdvances, Ready
    <3>3. CASE i = 1
      BY <3>2, <3>3, <2>1, <1>1
    <3>4. CASE i # 1
      <4>1. Done(pending[1]) <= pending[i].send
        <5>1. 1 < i
          BY <3>4, <1>1
        <5> QED
          BY <5>1, <3>1, OrderFacts, Zenon
      <4>2. /\ pending[1].send \in Nat /\ pending[1].delay \in Nat \ {0}
            /\ pending[1].receive = Receive(pending[1])
        BY <3>1, PendingFacts, Zenon
      <4>3. /\ pending[i].send \in Nat /\ pending[i].delay \in Nat \ {0}
            /\ pending[i].receive = Receive(pending[i])
        BY PendingFacts, Zenon
      <4> QED
        BY <4>1, <4>2, <4>3, <3>2, <1>1, SMTT(30) DEF Done, Receive
    <3> QED
      BY <3>3, <3>4
  <2>3. CASE ~ReceiverAdvances
    BY <2>1, <2>3 DEF DrainTransmitDone, SenderAdvances, Barrier
  <2> QED
    BY <2>2, <2>3
<1>7. /\ \A i \in 1..Len(wire) : Done(wire[i]) <= sendTick' \/ Done(wire[i]) <= busyUntil'
      /\ \A i \in 1..Len(pending) :
            Done(pending[i]) <= sendTick' \/ Done(pending[i]) <= busyUntil'
  <2>1. ASSUME NEW i \in 1..Len(wire)
        PROVE  Done(wire[i]) <= sendTick' \/ Done(wire[i]) <= busyUntil'
    <3>1. Done(wire[i]) \in Nat
      BY WireFacts DEF Done
    <3> QED
      BY <3>1, <1>4, WireFacts, Zenon
  <2>2. ASSUME NEW i \in 1..Len(pending)
        PROVE  Done(pending[i]) <= sendTick' \/ Done(pending[i]) <= busyUntil'
    <3>1. Done(pending[i]) \in Nat
      BY PendingFacts DEF Done
    <3> QED
      BY <3>1, <1>4, PendingFacts, Zenon
  <2> QED
    BY <2>1, <2>2
<1>8. LinkOrder'
  BY <1>2, <1>5, <1>6, <1>7, OrderFacts, WireFacts, PendingFacts, Zenon
     DEF LinkOrder, Receive, Done
<1>9. LinkDelivered'
  <2>1. previousReceive <= sendTick' + LinkDelay \/ previousReceive <= busyUntil' + LinkDelay
    BY <1>1 DEF LinkDelivered, DrainTransmitDone, SenderAdvances, ReceiverAdvances, Barrier
  <2> QED
    BY <2>1, <1>2, Zenon DEF LinkDelivered
<1> QED
  BY <1>3, <1>8, <1>9

\* Every step keeps the strengthened invariant.
LEMMA LinkStep == LinkIInv /\ [LinkNext]_linkVars => LinkIInv'
<1> SUFFICES ASSUME LinkIInv, [LinkNext]_linkVars
             PROVE  LinkIInv'
  OBVIOUS
<1>1. CASE UNCHANGED linkVars
  BY <1>1 DEF linkVars, LinkIInv, LinkTypeOK, LinkTicks, LinkOrder, LinkDelivered
<1>2. CASE ResumeAfterRestore
  BY <1>2 DEF ResumeAfterRestore, LinkIInv
<1>3. CASE /\ \/ \E w \in WireLengths, v \in Variations : Transmit(w, v)
              \/ AcceptRemoteMessage \/ PopReady
              \/ DrainTransmitDone \/ SenderAdvances \/ ReceiverAdvances \/ Barrier
  <2>1. resumed' = resumed /\ resumed \in BOOLEAN
    BY <1>3, Zenon DEF LinkIInv, Transmit, AcceptRemoteMessage, PopReady, DrainTransmitDone,
                SenderAdvances, ReceiverAdvances, Barrier
  <2>2. CASE resumed
    BY <2>1, <2>2 DEF LinkIInv
  <2>3. CASE ~resumed
    <3>1. LinkTypeOK /\ LinkTicks /\ LinkOrder /\ LinkDelivered
      BY <2>3 DEF LinkIInv
    <3>2. (LinkTypeOK /\ LinkTicks /\ LinkOrder /\ LinkDelivered)'
      <4>1. CASE \E w \in WireLengths, v \in Variations : Transmit(w, v)
        BY <3>1, <4>1, TransmitKeeps, Zenon
      <4>2. CASE AcceptRemoteMessage
        <5>1. ~Refused(wire[1])
          BY <2>3, <4>2, HeadAccepted DEF AcceptRemoteMessage
        <5> QED
          BY <3>1, <4>2, <5>1, AcceptKeeps, Zenon
      <4>3. CASE PopReady
        BY <3>1, <4>3, PopKeeps, Zenon
      <4>4. CASE DrainTransmitDone \/ SenderAdvances \/ ReceiverAdvances \/ Barrier
        BY <3>1, <4>4, ProcessKeeps, Zenon
      <4> QED
        BY <1>3, <4>1, <4>2, <4>3, <4>4, Zenon
    <3> QED
      BY <2>1, <3>2, Zenon DEF LinkIInv
  <2> QED
    BY <2>1, <2>2, <2>3
<1> QED
  BY <1>1, <1>2, <1>3, Zenon DEF LinkNext

\* With a quantum of at most the shortest flight, the receive scheduler's checks (push_data,
\* receive_tick, validate_receive_window) refuse no packet, for every link timing.
THEOREM LinkRefusesNothing == LinkSpec => []NoPacketRefused
<1>1. LinkIInv => NoPacketRefused
  BY HeadAccepted DEF NoPacketRefused
<1> QED
  BY <1>1, LinkInitial, LinkStep, PTL DEF LinkSpec

\* Under the same quantum pop_ready delivers every packet at exactly its own tick and in the
\* order they were sent: nothing due waits behind the front descriptor.
THEOREM LinkDeliversInTime == LinkSpec => []PendingInTime
<1>1. LinkIInv => PendingInTime
  <2> SUFFICES ASSUME LinkIInv, ~resumed,
                      NEW i \in DOMAIN pending, NEW j \in DOMAIN pending
               PROVE  /\ pending[i].receive >= receiveTick
                      /\ i < j => pending[i].receive < pending[j].receive
    BY DEF PendingInTime
  <2>1. LinkTypeOK /\ LinkOrder /\ LinkDelivered
    BY DEF LinkIInv
  <2>2. DOMAIN pending = 1..Len(pending) /\ LinkDelay \in Nat
    BY <2>1, LinkAssumption DEF LinkTypeOK
  <2>3. /\ pending[i].receive >= receiveTick
        /\ pending[i].send \in Nat /\ pending[i].delay \in Nat \ {0}
        /\ pending[i].receive = Receive(pending[i])
    BY <2>1, <2>2, PendingFacts, Zenon
  <2>4. /\ pending[j].send \in Nat /\ pending[j].delay \in Nat \ {0}
        /\ pending[j].receive = Receive(pending[j])
    BY <2>1, <2>2, PendingFacts, Zenon
  <2>5. i < j => Done(pending[i]) <= pending[j].send
    BY <2>1, <2>2, OrderFacts, Zenon
  <2>6. ASSUME i < j PROVE pending[i].receive < pending[j].receive
    <3>1. pending[i].send + pending[i].delay <= pending[j].send
      BY <2>5, <2>6, Zenon DEF Done
    <3>2. pending[i].send + pending[i].delay + LinkDelay
            < pending[j].send + pending[j].delay + LinkDelay
      BY <2>2, <2>3, <2>4, <3>1, LaterArrival, Zenon
    <3> QED
      BY <2>3, <2>4, <3>2, Zenon DEF Receive
  <2> QED
    BY <2>3, <2>6, Zenon
<1> QED
  BY <1>1, LinkInitial, LinkStep, PTL DEF LinkSpec
=============================================================================
