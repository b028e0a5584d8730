---------------------------- MODULE MessageBuffer ---------------------------
(***************************************************************************)
(* The transport's message buffer: messages ordered by arrival tick and    *)
(* sequence, a FIFO guard that a message may bypass, and snapshots.        *)
(***************************************************************************)
EXTENDS Naturals, FiniteSets

CONSTANTS
    MaxMessages,      \* bound: messages enqueued
    MaxMessageTick,   \* bound: ticks
    MaxDelta          \* the largest delay of a message

ASSUME BufferAssumption ==
    MaxMessages \in Nat /\ MaxMessageTick \in Nat /\ MaxDelta \in Nat

VARIABLES
    bufferConfig,  \* strict_fifo, allow_zero_latency
    bufferTick,    \* the caller's current tick, which never decreases
    buffer,        \* next_sequence, last_arrival_tick (the message it is of), queue
    received,      \* ghost: the messages popped, with the order they were popped in
    bufferSaved    \* the last snapshot, with the messages popped by then

messageVars == <<bufferConfig, bufferTick, buffer, received, bufferSaved>>

NewBuffer == [next |-> 0, last |-> [arrival |-> 0, bypass |-> FALSE], queue |-> {}]

BufferInit ==
    /\ bufferConfig \in [strict : BOOLEAN, zero : BOOLEAN]
    /\ bufferTick = 0
    /\ buffer = NewBuffer
    /\ received = {}
    /\ bufferSaved = [buffer |-> NewBuffer, received |-> {}]

\* compare_message_order
ArrivesBefore(m, n) ==
    m.arrival < n.arrival \/ (m.arrival = n.arrival /\ m.sequence < n.sequence)

\* mutant: a message is compared with the front of the queue, not with the last one enqueued
MutantValidArrival(arrival, bypass) ==
    bufferConfig.strict /\ ~bypass /\ ~buffer.last.bypass =>
        buffer.queue = {} \/ \E m \in buffer.queue : arrival >= m.arrival

\* validate_arrival
ValidArrival(arrival, bypass) ==
    bufferConfig.strict /\ ~bypass /\ ~buffer.last.bypass => arrival >= buffer.last.arrival

\* enqueue_inner
BufferEnqueue(delta, bypass) ==
    LET message == [arrival |-> bufferTick + delta, sequence |-> buffer.next, bypass |-> bypass]
    IN  /\ buffer.next < MaxMessages
        /\ delta = 0 => bufferConfig.zero
        /\ ValidArrival(message.arrival, bypass)
        /\ buffer' = [next |-> buffer.next + 1,
                      last |-> [arrival |-> message.arrival, bypass |-> bypass],
                      queue |-> buffer.queue \union {message}]
        /\ UNCHANGED <<bufferConfig, bufferTick, received, bufferSaved>>

FirstMessage(m) == \A n \in buffer.queue \ {m} : ArrivesBefore(m, n)

\* pop_ready
BufferPop ==
    \E m \in buffer.queue :
        /\ FirstMessage(m)
        /\ m.arrival <= bufferTick
        /\ buffer' = [buffer EXCEPT !.queue = @ \ {m}]
        /\ received' = received \union {[message |-> m, place |-> Cardinality(received)]}
        /\ UNCHANGED <<bufferConfig, bufferTick, bufferSaved>>

BufferSnapshot ==
    /\ bufferSaved' = [buffer |-> buffer, received |-> received]
    /\ UNCHANGED <<bufferConfig, bufferTick, buffer, received>>

\* restore
BufferRestore ==
    /\ buffer' = bufferSaved.buffer
    /\ received' = bufferSaved.received
    /\ UNCHANGED <<bufferConfig, bufferTick, bufferSaved>>

BufferTickAdvances ==
    /\ bufferTick < MaxMessageTick
    /\ bufferTick' = bufferTick + 1
    /\ UNCHANGED <<bufferConfig, buffer, received, bufferSaved>>

BufferNext ==
    \/ \E delta \in 0..MaxDelta, bypass \in BOOLEAN : BufferEnqueue(delta, bypass)
    \/ BufferPop
    \/ BufferSnapshot
    \/ BufferRestore
    \/ BufferTickAdvances

BufferSpec == BufferInit /\ [][BufferNext]_messageVars

-----------------------------------------------------------------------------
Sent == buffer.queue \union {r.message : r \in received}

\* A strict buffer hands on messages in the order they were sent: of two messages that keep to
\* the order, with none between them that bypassed it, the first is never behind the second,
\* popped or still queued, and across a restore.  Any buffer hands them on in the order of
\* their arrival, those of one tick in the order they were sent, although any of them may have
\* been sent after others were popped or restored.
MessagesInOrder ==
    /\ bufferConfig.strict =>
          \A m, n \in Sent :
              (m.sequence < n.sequence /\ \A b \in Sent :
                      b.sequence \in m.sequence..n.sequence => ~b.bypass)
              => m.arrival <= n.arrival
    /\ \A r, s \in received : r.place < s.place => ArrivesBefore(r.message, s.message)

=============================================================================
