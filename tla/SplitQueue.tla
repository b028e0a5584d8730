----------------------------- MODULE SplitQueue -----------------------------
(***************************************************************************)
(* A VirtIO split queue: the device takes descriptor chains off the        *)
(* available ring, completes them in any order onto the used ring, and     *)
(* raises the ISR when the driver asked for it, by the event index or by   *)
(* the flag.  The ring indices are 16 bits wide and wrap around.  The      *)
(* driver is the guest's; it is modelled from how the device reads and     *)
(* writes the rings.                                                       *)
(***************************************************************************)
EXTENDS Naturals, FiniteSets

CONSTANTS
    QueueSize,    \* entries of the rings, a power of two
    IndexSpan     \* values of a ring index: 65536 in the program

ASSUME QueueAssumption ==
    /\ QueueSize \in Nat \ {0} /\ IndexSpan \in Nat
    /\ IndexSpan % QueueSize = 0 /\ IndexSpan > QueueSize

VARIABLES
    eventIndex,   \* VirtioSplitQueue::event_index, negotiated
    available,    \* guest memory: ring, index, noInterrupt (the flag), usedEvent
    used,         \* guest memory: ring, index
    lastAvailable,\* VirtioSplitQueue::last_available_index
    decoded,      \* heads of the chains consumed and not completed
    isr,          \* the ISR status is not empty
    driver        \* state, seen (the used index it has read to), slack, inFlight

splitVars == <<eventIndex, available, used, lastAvailable, decoded, isr, driver>>

Heads == 0..QueueSize - 1

\* wrapping_add(1) and the distance from a to b
Successor(index) == (index + 1) % IndexSpan

Distance(a, b) == (b + IndexSpan - a) % IndexSpan

SplitInit ==
    /\ eventIndex \in BOOLEAN
    /\ available = [ring |-> [h \in Heads |-> 0], index |-> 0, noInterrupt |-> FALSE,
                    usedEvent |-> 0]
    /\ used = [ring |-> [h \in Heads |-> 0], index |-> 0]
    /\ lastAvailable = 0
    /\ decoded = {}
    /\ isr = FALSE
    /\ driver = [state |-> "Busy", seen |-> 0, slack |-> 0, inFlight |-> {}]

-----------------------------------------------------------------------------

AdvanceAvailableIndex(index) == Successor(index)

\* consume_available_block, with consume_available_chain; a chain that does not decode stays
\* where it is
ConsumeAvailable ==
    /\ available.index # lastAvailable
    /\ decoded' = decoded \union {available.ring[lastAvailable % QueueSize]}
    /\ lastAvailable' = AdvanceAvailableIndex(lastAvailable)
    /\ UNCHANGED <<eventIndex, available, used, isr, driver>>

\* mutant: the event is compared with the index after the completion
MutantCompletionInterruptEnabled(usedIndex) ==
    IF eventIndex THEN usedIndex = available.usedEvent ELSE ~available.noInterrupt

CompletionInterruptEnabled(usedIndex) ==
    IF eventIndex
      THEN Successor(available.usedEvent) = usedIndex
      ELSE ~available.noInterrupt

\* mutant: the element is written to the slot after the next one
MutantUsedSlot(index) == Successor(index) % QueueSize

UsedSlot(index) == index % QueueSize

\* complete_block_request and what follows it: the used element, the used index, the interrupt
CompleteRequest(head) ==
    LET index == Successor(used.index)
    IN  /\ decoded' = decoded \ {head}
        /\ used' = [ring |-> [used.ring EXCEPT ![UsedSlot(used.index)] = head],
                    index |-> index]
        /\ isr' = (isr \/ CompletionInterruptEnabled(index))
        /\ UNCHANGED <<eventIndex, available, lastAvailable, driver>>

\* read of the ISR, which clears it
ReadIsr ==
    /\ isr
    /\ isr' = FALSE
    /\ driver' = [driver EXCEPT !.state = "Busy"]
    /\ UNCHANGED <<eventIndex, available, used, lastAvailable, decoded>>

-----------------------------------------------------------------------------
\* the driver posts a chain whose descriptors are free (external)
Post(head) ==
    /\ head \notin driver.inFlight
    /\ available' = [available EXCEPT !.ring[available.index % QueueSize] = head,
                                      !.index = Successor(@)]
    /\ driver' = [driver EXCEPT !.inFlight = @ \union {head}]
    /\ UNCHANGED <<eventIndex, used, lastAvailable, decoded, isr>>

\* the driver takes the next used element (external)
Reap ==
    /\ driver.state = "Busy"
    /\ driver.seen # used.index
    /\ driver' = [driver EXCEPT !.seen = Successor(@),
                                !.inFlight = @ \ {used.ring[driver.seen % QueueSize]}]
    /\ UNCHANGED <<eventIndex, available, used, lastAvailable, decoded, isr>>

\* the driver wants no interrupts while it is busy (external)
Suppress ==
    /\ driver.state = "Busy"
    /\ available' = [available EXCEPT !.noInterrupt = TRUE]
    /\ UNCHANGED <<eventIndex, used, lastAvailable, decoded, isr, driver>>

\* the driver asks to be woken when more than "slack" elements wait, one without event index
\* (external)
Arm(slack) ==
    /\ driver.state = "Busy"
    /\ ~eventIndex => slack = 0
    /\ slack <= Cardinality(driver.inFlight)
    /\ driver' = [driver EXCEPT !.state = "Checking", !.slack = slack]
    /\ available' = [available EXCEPT !.noInterrupt = FALSE,
                                      !.usedEvent = (driver.seen + slack) % IndexSpan]
    /\ UNCHANGED <<eventIndex, used, lastAvailable, decoded, isr>>

Waiting == Distance(driver.seen, used.index)

\* having asked, it looks again, and goes on or sleeps (external)
Recheck ==
    /\ driver.state = "Checking"
    /\ driver' = [driver EXCEPT !.state = IF Waiting > driver.slack THEN "Busy" ELSE "Asleep"]
    /\ UNCHANGED <<eventIndex, available, used, lastAvailable, decoded, isr>>

SplitNext ==
    \/ ConsumeAvailable
    \/ \E head \in decoded : CompleteRequest(head)
    \/ ReadIsr
    \/ \E head \in Heads : Post(head)
    \/ Reap
    \/ Suppress
    \/ \E slack \in 0..QueueSize : Arm(slack)
    \/ Recheck

SplitSpec == SplitInit /\ [][SplitNext]_splitVars

-----------------------------------------------------------------------------
\* No wake-up is lost: a driver that sleeps while more elements wait than it said it would let
\* wait has the ISR set, although the completion that crossed its mark may have come between
\* its asking and its looking again, and although the indices wrap.
NoLostWakeUp == driver.state = "Asleep" /\ Waiting > driver.slack => isr

\* Every chain the driver posted and has not got back is in one place: on the available ring
\* where the device will look, with the device, or on the used ring where the driver will look.
\* No element is overwritten before it is read and none is read twice, wherever the indices are.
ChainsKept ==
    LET offered == {available.ring[((lastAvailable + i) % IndexSpan) % QueueSize] :
                       i \in {j \in Heads : j < Distance(lastAvailable, available.index)}}
        returned == {used.ring[((driver.seen + i) % IndexSpan) % QueueSize] :
                       i \in {j \in Heads : j < Waiting}}
    IN  /\ driver.inFlight = offered \union decoded \union returned
        /\ Cardinality(driver.inFlight)
               = Distance(lastAvailable, available.index) + Cardinality(decoded) + Waiting
=============================================================================
