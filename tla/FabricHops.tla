----------------------------- MODULE FabricHops -----------------------------
(***************************************************************************)
(* The fabric under any traffic: one step per hop of a packet, with any    *)
(* packet, any hop and any tick at which the packet is there, and the      *)
(* restore that ends a failed transaction.  What holds here holds of the   *)
(* batches and paths of FabricTraffic, which are sequences of these steps. *)
(***************************************************************************)
EXTENDS FabricModel

VARIABLES
    fabric,       \* FabricModel: the resources
    hopActivity   \* FabricModel::activity_log, as the set of its entries

Stages == [input : InputVcs, output : OutputPorts, latency : Nat \ {0}]

PathHops ==
    [link : FabricLinks, latency : Nat \ {0}, bandwidth : Nat \ {0}, credits : Nat,
     vnet : VirtualNetworks \union {NoOverride}, stage : Stages \union {NoStage}]

FabricPackets == [id : Nat, bytes : Nat \ {0}, vnet : VirtualNetworks]

HopsInit ==
    /\ fabric = NewFabric
    /\ hopActivity = {}

\* one round of the loop of reserve_transfer
ReserveHop(packet, hop, ready) ==
    LET r == Reservation(fabric, packet, hop, ready)
    IN  /\ ~Overflows(r)
        /\ fabric' = Reserved(fabric, r)
        /\ hopActivity' = hopActivity \union {r}

\* a transaction that fails: try_transaction restores the snapshot it began with
FailTransaction ==
    /\ fabric' = RestoreSnapshot(fabric)
    /\ UNCHANGED hopActivity

HopsNext ==
    \/ \E packet \in FabricPackets, hop \in PathHops, ready \in Nat :
           ReserveHop(packet, hop, ready)
    \/ FailTransaction

hopsVars == <<fabric, hopActivity>>

HopsSpec == HopsInit /\ [][HopsNext]_hopsVars

-----------------------------------------------------------------------------
\* A link carries one packet at a time, whatever the virtual networks and paths of the packets
\* that share it, and a router's input channel and output port pass one packet at a time; also
\* after a batch was rolled back.
OneAtATime ==
    \A r, s \in hopActivity : r # s =>
        /\ r.link = s.link => r.depart <= s.start \/ s.depart <= r.start
        /\ /\ r.stage # NoStage /\ s.stage # NoStage
           /\ r.stage.input = s.stage.input \/ r.stage.output = s.stage.output
           => r.ready <= s.routerStart \/ s.ready <= r.routerStart

InFlight(r, tick) ==
    {s \in hopActivity : /\ s.link = r.link /\ s.vnet = r.vnet /\ s.credits # NoCredit
                         /\ s.start <= tick /\ tick < s.arrival}

\* A packet enters a lane only while the lane's credits allow it.
CreditsRespected ==
    \A r \in hopActivity : r.credits # NoCredit => Cardinality(InFlight(r, r.start)) <= r.credits

\* Restoring the fabric's own snapshot, which does not hold the links, gives back the same
\* fabric: what rolls back a failed batch and what a checkpoint restores.
RestoreFaithful == RestoreSnapshot(fabric) = fabric
=============================================================================
