--------------------------- MODULE DistributedLink --------------------------
(***************************************************************************)
(* One direction of a distributed Ethernet link: the transmitting endpoint *)
(* of one simulator process and the receive scheduler of its peer.  The    *)
(* two processes advance their own ticks inside a synchronisation quantum  *)
(* and meet at a barrier at its end; a data message carries the tick it    *)
(* was sent at, reaches the peer at any moment before that barrier, and    *)
(* is delivered at the tick the link's delays give it.                     *)
(***************************************************************************)
EXTENDS Naturals, Sequences

CONSTANTS
    TicksPerByte,  \* DistributedEthernetLinkTiming::ticks_per_byte
    LinkDelay,     \* DistributedEthernetLinkTiming::link_delay_ticks
    WireLengths,   \* wire lengths of the packets, in bytes
    Variations,    \* the delays EthernetLinkDelayVariation may add
    Quantum,       \* ticks between two barriers
    MaxSync        \* bound: the last barrier

\* transmit: the ticks the packet occupies the sender
SendDelay(length, variation) == TicksPerByte * length + 1 + variation

\* the quantum is at most the shortest time a packet can be under way
ASSUME LinkAssumption ==
    /\ TicksPerByte \in Nat
    /\ LinkDelay \in Nat
    /\ WireLengths \subseteq Nat
    /\ Variations \subseteq Nat
    /\ Quantum \in Nat \ {0}
    /\ MaxSync \in Nat
    /\ \A w \in WireLengths, v \in Variations : Quantum <= SendDelay(w, v) + LinkDelay

VARIABLES
    sendTick,         \* the transmitting process's tick
    receiveTick,      \* the receiving process's tick
    syncTick,         \* the last barrier
    busyUntil,        \* pending_transmit: its transmit_done_tick; 0 for none
    wire,             \* messages sent and not yet accepted, in order
    pending,          \* the receive scheduler's descriptors
    previousReceive,  \* previous_receive_tick
    resumed           \* the receiver was restored from a checkpoint and resumed

linkVars == <<sendTick, receiveTick, syncTick, busyUntil, wire, pending, previousReceive,
              resumed>>

nextSync == syncTick + Quantum

LinkInit ==
    /\ sendTick = 0
    /\ receiveTick = 0
    /\ syncTick = 0
    /\ busyUntil = 0
    /\ wire = <<>>
    /\ pending = <<>>
    /\ previousReceive = 0
    /\ resumed = FALSE

-----------------------------------------------------------------------------
\* mutant: the link is free again before the added delay has passed
MutantTransmitDone(length, variation) == sendTick + SendDelay(length, variation) - variation

TransmitDone(length, variation) == sendTick + SendDelay(length, variation)

\* mutant: a packet still being sent does not keep the link busy
MutantLinkFree == TRUE

\* drain_transmit_done, and the LinkBusy check behind it
LinkFree == busyUntil <= sendTick

Transmit(length, variation) ==
    /\ sendTick > syncTick
    /\ LinkFree
    /\ busyUntil' = TransmitDone(length, variation)
    /\ wire' = Append(wire, [send |-> sendTick, delay |-> SendDelay(length, variation),
                             length |-> length])
    /\ UNCHANGED <<sendTick, receiveTick, syncTick, pending, previousReceive, resumed>>

DrainTransmitDone ==
    /\ busyUntil # 0
    /\ busyUntil <= sendTick
    /\ busyUntil' = 0
    /\ UNCHANGED <<sendTick, receiveTick, syncTick, wire, pending, previousReceive, resumed>>

\* receive_tick, validate_receive_window and the check against the front descriptor
Receive(m) == m.send + m.delay + LinkDelay

Missed(m) == Receive(m) <= receiveTick

WindowTooSmall(m) == previousReceive + m.delay > Receive(m)

OutsideWindow(m) == m.send <= syncTick \/ Receive(m) <= nextSync

OutOfOrder(m) == pending # <<>> /\ pending[1].send + pending[1].delay > Receive(m)

Refused(m) == Missed(m) \/ WindowTooSmall(m) \/ OutsideWindow(m) \/ OutOfOrder(m)

Descriptor(m) ==
    [send |-> m.send, delay |-> m.delay, length |-> m.length, receive |-> Receive(m)]

\* accept_remote_message: a refused message is dropped with the error
AcceptRemoteMessage ==
    /\ wire # <<>>
    /\ wire' = Tail(wire)
    /\ pending' = IF Refused(wire[1]) THEN pending ELSE Append(pending, Descriptor(wire[1]))
    /\ UNCHANGED <<sendTick, receiveTick, syncTick, busyUntil, previousReceive, resumed>>

Ready == pending # <<>> /\ pending[1].receive <= receiveTick

\* drain_ready_receives, one pop_ready
PopReady ==
    /\ Ready
    /\ pending' = Tail(pending)
    /\ previousReceive' = receiveTick
    /\ UNCHANGED <<sendTick, receiveTick, syncTick, busyUntil, wire, resumed>>

\* resume_after_restore, when both processes restart from the checkpoint of a barrier
ResumedDescriptor(d, index) ==
    [d EXCEPT !.send = receiveTick,
              !.delay = d.length,
              !.receive = IF index = 1 THEN receiveTick ELSE receiveTick + d.length + LinkDelay]

ResumeAfterRestore ==
    /\ sendTick = syncTick
    /\ receiveTick = syncTick
    /\ pending' = [i \in DOMAIN pending |-> ResumedDescriptor(pending[i], i)]
    /\ resumed' = TRUE
    /\ UNCHANGED <<sendTick, receiveTick, syncTick, busyUntil, wire, previousReceive>>

(***************************************************************************)
(* The processes (external): each runs to the end of the quantum; the      *)
(* receiver drains what is ready at a tick before it leaves the tick, and  *)
(* the barrier is passed when every message of the quantum has arrived.    *)
(***************************************************************************)
SenderAdvances ==
    /\ sendTick < nextSync
    /\ sendTick' = sendTick + 1
    /\ UNCHANGED <<receiveTick, syncTick, busyUntil, wire, pending, previousReceive, resumed>>

ReceiverAdvances ==
    /\ receiveTick < nextSync
    /\ ~Ready
    /\ receiveTick' = receiveTick + 1
    /\ UNCHANGED <<sendTick, syncTick, busyUntil, wire, pending, previousReceive, resumed>>

Barrier ==
    /\ sendTick = nextSync
    /\ receiveTick = nextSync
    /\ wire = <<>>
    /\ ~Ready
    /\ syncTick < MaxSync
    /\ syncTick' = nextSync
    /\ UNCHANGED <<sendTick, receiveTick, busyUntil, wire, pending, previousReceive, resumed>>

LinkNext ==
    \/ \E w \in WireLengths, v \in Variations : Transmit(w, v)
    \/ DrainTransmitDone
    \/ AcceptRemoteMessage
    \/ PopReady
    \/ ResumeAfterRestore
    \/ SenderAdvances
    \/ ReceiverAdvances
    \/ Barrier

LinkSpec == LinkInit /\ [][LinkNext]_linkVars

-----------------------------------------------------------------------------
\* However the two processes and the network interleave, a quantum no longer than the shortest
\* flight makes every check of push_data pass: no packet that was sent is refused as missed,
\* outside the window or out of order.
NoPacketRefused == ~resumed /\ wire # <<>> => ~Refused(wire[1])

\* The descriptors are delivered front first, and the front one never hides a later descriptor
\* that is due: each packet is delivered at exactly the tick its delays give, in sending order.
PendingInTime ==
    ~resumed =>
        \A i \in DOMAIN pending :
            /\ pending[i].receive >= receiveTick
            /\ \A j \in DOMAIN pending : i < j => pending[i].receive < pending[j].receive
=============================================================================
