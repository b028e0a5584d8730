---------------------------- MODULE SystemProofs ----------------------------
(***************************************************************************)
(* The transport's batches and message buffer and the checkpoints of the   *)
(* whole system, for any number of items, messages, labels, ticks and      *)
(* calls.                                                                  *)
(***************************************************************************)
EXTENDS SystemCheckpoint, MessageBuffer, TargetBatches, NaturalsInduction,
        FiniteSetTheorems, TLAPS

-----------------------------------------------------------------------------
(* The batches of responses and direct transactions                        *)

BatchKeys == [kind : Kinds, tick : Nat]

Filings == [key : BatchKeys, batch : 1..accepted]

InBatch(event) == entries[event.batch]

(***************************************************************************)
(* A pending event is filed, alone for its key and its batch; an item is   *)
(* in one batch, and waits for a pending event unless it was handed on or  *)
(* lost.                                                                   *)
(***************************************************************************)
BatchInv ==
    /\ batchTick \in Nat /\ accepted \in 0..MaxItems
    /\ filed \subseteq Filings /\ batchEvents \subseteq filed
    /\ entries \in [1..MaxItems -> SUBSET (1..accepted)]
    /\ ran \subseteq 1..accepted /\ lost \subseteq 1..accepted
    /\ \A event, other \in batchEvents :
          event.key = other.key \/ event.batch = other.batch => event = other
    /\ \A b, c \in 1..MaxItems : entries[b] \intersect entries[c] # {} => b = c
    /\ \A item \in 1..accepted :
          item \in ran \union lost <=> ~\E event \in batchEvents : item \in InBatch(event)

LEMMA BatchInitially == BatchInit => BatchInv
BY BatchAssumption DEF BatchInit, BatchInv, Filings

\* The items of an event that leaves the scheduler wait for no other event.
LEMMA Handing ==
    ASSUME BatchInv, NEW event \in batchEvents, NEW item \in 1..accepted
    PROVE  item \in ran \union lost \union InBatch(event) <=>
               ~\E other \in batchEvents \ {event} : item \in InBatch(other)
<1>1. \A other \in batchEvents : other.batch \in 1..MaxItems
  BY BatchAssumption DEF BatchInv, Filings
<1>2. ASSUME NEW other \in batchEvents \ {event}, item \in InBatch(event)
      PROVE  item \notin InBatch(other)
  <2>1. event.batch # other.batch
    BY DEF BatchInv
  <2> QED BY <1>1, <1>2, <2>1 DEF BatchInv, InBatch
<1> QED BY <1>2 DEF BatchInv

LEMMA BatchStep == BatchInv /\ [BatchNext]_batchVars => BatchInv'
<1> SUFFICES ASSUME BatchInv, [BatchNext]_batchVars PROVE BatchInv'
  OBVIOUS
<1> USE BatchAssumption
<1>1. ASSUME NEW kind \in Kinds, NEW tick \in 0..MaxBatchTick, Enqueue(kind, tick)
      PROVE  BatchInv'
  <2> DEFINE key == [kind |-> kind, tick |-> tick]
             item == accepted + 1
             new == [key |-> key, batch |-> item]
  <2>1. /\ accepted < MaxItems /\ accepted' = item /\ item \in 1..MaxItems
        /\ key \in BatchKeys /\ item \notin 1..accepted
        /\ 1..accepted' = (1..accepted) \union {item}
        /\ UNCHANGED <<batchTick, ran, lost>>
    BY <1>1 DEF Enqueue, BatchInv, BatchKeys
  <2>2. \A f \in filed : f \in Filings' /\ f.batch \in 1..MaxItems /\ f.batch # item
    BY <2>1 DEF BatchInv, Filings
  <2>3. CASE Joinable(key) # {}
    <3>1. PICK f \in filed : f.key = key /\ f \in batchEvents
      BY <2>3 DEF Joinable
    <3>2. Joinable(key) = {f}
      BY <3>1 DEF Joinable, BatchInv
    <3>3. /\ entries' = [entries EXCEPT ![f.batch] = @ \union {item}]
          /\ UNCHANGED <<filed, batchEvents>>
      BY <1>1, <2>3, <3>2 DEF Enqueue, BatchInv
    <3>4. /\ f.batch \in 1..MaxItems
          /\ \A b \in 1..MaxItems : entries'[b] = IF b = f.batch THEN entries[b] \union {item}
                                                               ELSE entries[b]
          /\ entries' \in [1..MaxItems -> SUBSET (1..accepted')]
      BY <2>1, <2>2, <3>1, <3>3, Zenon DEF BatchInv
    <3>5. \A b, c \in 1..MaxItems : entries'[b] \intersect entries'[c] # {} => b = c
      BY <2>1, <3>4 DEF BatchInv
    <3>6. \A event \in batchEvents : event.batch \in 1..MaxItems
      BY <2>2 DEF BatchInv
    <3>7. \A i \in 1..accepted' :
             i \in ran \union lost <=> ~\E event \in batchEvents : i \in entries'[event.batch]
      <4>1. \A i \in 1..accepted, event \in batchEvents :
                i \in entries'[event.batch] <=> i \in InBatch(event)
        BY <2>1, <3>4, <3>6 DEF InBatch
      <4>2. item \in entries'[f.batch] /\ item \notin ran \union lost
        BY <2>1, <3>4 DEF BatchInv
      <4> QED BY <2>1, <3>1, <4>1, <4>2 DEF BatchInv
    <3> QED BY <2>1, <2>2, <3>3, <3>4, <3>5, <3>7 DEF BatchInv, InBatch
  <2>4. CASE Joinable(key) = {}
    <3>1. /\ entries' = [entries EXCEPT ![item] = {item}]
          /\ filed' = Unfiled(key) \union {new}
          /\ batchEvents' = batchEvents \union {new}
      BY <1>1, <2>4 DEF Enqueue
    <3>2. \A event \in batchEvents : event.key # key /\ event.batch \in 1..accepted
      BY <2>4 DEF BatchInv, Joinable, Filings
    <3>3. /\ \A b \in 1..MaxItems : entries'[b] = IF b = item THEN {item} ELSE entries[b]
          /\ entries' \in [1..MaxItems -> SUBSET (1..accepted')]
      BY <2>1, <3>1 DEF BatchInv
    <3>4. \A b, c \in 1..MaxItems : entries'[b] \intersect entries'[c] # {} => b = c
      BY <2>1, <3>3 DEF BatchInv
    <3>5. new \in Filings' /\ new.key = key /\ new.batch = item
      BY <2>1 DEF Filings
    <3>6. filed' \subseteq Filings' /\ batchEvents' \subseteq filed'
      BY <2>2, <3>1, <3>2, <3>5 DEF BatchInv, Unfiled
    <3>7. \A event, other \in batchEvents' :
              event.key = other.key \/ event.batch = other.batch => event = other
      BY <2>1, <3>1, <3>2, <3>5 DEF BatchInv
    <3>8. \A i \in 1..accepted' :
             i \in ran \union lost <=> ~\E event \in batchEvents' : i \in entries'[event.batch]
      <4>1. \A i \in 1..accepted, event \in batchEvents :
                i \in entries'[event.batch] <=> i \in InBatch(event)
        BY <2>1, <3>2, <3>3 DEF InBatch, BatchInv
      <4>2. item \in entries'[new.batch] /\ item \notin ran \union lost
            /\ \A i \in 1..accepted : i \notin entries'[new.batch]
        BY <2>1, <3>3, <3>5 DEF BatchInv
      <4> QED BY <2>1, <3>1, <4>1, <4>2, Zenon DEF BatchInv
    <3> QED BY <2>1, <3>3, <3>4, <3>6, <3>7, <3>8 DEF BatchInv, InBatch
  <2> QED BY <2>3, <2>4
<1>2. ASSUME NEW event \in batchEvents, RunBatchEvent(event) PROVE BatchInv'
  <2>1. /\ batchEvents' = batchEvents \ {event} /\ filed' = Unfiled(event.key)
        /\ ran' = ran \union entries[event.batch]
        /\ entries' = [entries EXCEPT ![event.batch] = {}]
        /\ UNCHANGED <<batchTick, lost, accepted>>
    BY <1>2 DEF RunBatchEvent
  <2>2. \A e \in batchEvents : e.batch \in 1..MaxItems
    BY DEF BatchInv, Filings
  <2>3. \A b \in 1..MaxItems : entries'[b] = IF b = event.batch THEN {} ELSE entries[b]
    BY <2>1, <2>2 DEF BatchInv
  <2>4. /\ \A b, c \in 1..MaxItems : entries'[b] \intersect entries'[c] # {} => b = c
        /\ entries' \in [1..MaxItems -> SUBSET (1..accepted')]
    BY <2>1, <2>2, <2>3 DEF BatchInv
  <2>5. filed' \subseteq Filings' /\ batchEvents' \subseteq filed'
    BY <2>1 DEF BatchInv, Unfiled, Filings
  <2>6. \A item \in 1..accepted :
            item \in ran' \union lost <=> ~\E e \in batchEvents' : item \in entries'[e.batch]
    <3>1. \A item \in 1..accepted :
              item \in ran \union lost \union InBatch(event) <=>
                  ~\E other \in batchEvents \ {event} : item \in InBatch(other)
      BY Handing, Zenon
    <3>2. \A e \in batchEvents' : entries'[e.batch] = InBatch(e)
      BY <2>1, <2>2, <2>3 DEF BatchInv, InBatch
    <3>3. InBatch(event) = entries[event.batch]
      BY DEF InBatch
    <3> QED BY <2>1, <3>1, <3>2, <3>3
  <2> QED BY <2>1, <2>2, <2>4, <2>5, <2>6, Zenon DEF BatchInv, InBatch
<1>3. ASSUME NEW event \in batchEvents, DropBatchEvent(event) PROVE BatchInv'
  <2>1. /\ batchEvents' = batchEvents \ {event} /\ lost' = lost \union entries[event.batch]
        /\ UNCHANGED <<batchTick, filed, entries, ran, accepted>>
    BY <1>3 DEF DropBatchEvent
  <2>2. \A e \in batchEvents : e.batch \in 1..MaxItems
    BY DEF BatchInv, Filings
  <2>3. \A item \in 1..accepted :
            item \in ran \union lost' <=> ~\E e \in batchEvents' : item \in entries[e.batch]
    <3>1. \A item \in 1..accepted :
              item \in ran \union lost \union InBatch(event) <=>
                  ~\E other \in batchEvents \ {event} : item \in InBatch(other)
      BY Handing, Zenon
    <3> QED BY <2>1, <3>1 DEF InBatch
  <2> QED BY <2>1, <2>2, <2>3, Zenon DEF BatchInv, InBatch, Filings
<1>4. CASE BatchTickAdvances
  BY <1>4 DEF BatchTickAdvances, BatchInv, InBatch, Filings
<1>5. CASE UNCHANGED batchVars
  BY <1>5 DEF batchVars, BatchInv, InBatch, Filings
<1> QED BY <1>1, <1>2, <1>3, <1>4, <1>5 DEF BatchNext

\* Nothing the transport accepts is lost in a batch nobody runs or handed on twice, for any
\* number of items and ticks (enqueue_parallel_response_qos_hop,
\* schedule_or_append_direct_parallel_target_batch).
THEOREM BatchesKeepItems == BatchSpec => []NoItemOrphaned
<1>1. BatchInv => NoItemOrphaned
  <2> SUFFICES ASSUME BatchInv PROVE NoItemOrphaned
    OBVIOUS
  <2>1. ASSUME NEW item \in 1..accepted
        PROVE  Cardinality({event \in batchEvents : item \in entries[event.batch]})
                   = IF item \in ran \union lost THEN 0 ELSE 1
    <3> DEFINE takers == {event \in batchEvents : item \in entries[event.batch]}
    <3>1. CASE item \in ran \union lost
      <4>1. takers = {}
        BY <3>1 DEF BatchInv, InBatch
      <4> QED BY <3>1, <4>1, FS_EmptySet
    <3>2. CASE item \notin ran \union lost
      <4>1. PICK event \in takers : TRUE
        BY <3>2 DEF BatchInv, InBatch
      <4>2. \A other \in takers : other = event
        <5>1. \A other \in takers : other.batch \in 1..MaxItems /\ item \in entries[other.batch]
          BY BatchAssumption DEF BatchInv, Filings
        <5> QED BY <4>1, <5>1 DEF BatchInv
      <4>3. takers = {event}
        BY <4>1, <4>2
      <4> QED BY <3>2, <4>3, FS_Singleton
    <3> QED BY <3>1, <3>2
  <2> QED BY <2>1 DEF NoItemOrphaned, BatchInv
<1> QED BY <1>1, BatchInitially, BatchStep, PTL DEF BatchSpec

-----------------------------------------------------------------------------
(* The message buffer                                                      *)

BufferMessages == [arrival : Nat, sequence : Nat, bypass : BOOLEAN]

Buffers ==
    [next : Nat, last : [arrival : Nat, bypass : BOOLEAN], queue : SUBSET BufferMessages]

Popped == [message : BufferMessages, place : Nat]

\* what was sent through a buffer, popped or not
SentBy(b, popped) == b.queue \union {r.message : r \in popped}

SentInOrder(sent) ==
    \A m, n \in sent :
        (m.sequence < n.sequence /\ \A b \in sent :
                b.sequence \in m.sequence..n.sequence => ~b.bypass)
        => m.arrival <= n.arrival

(***************************************************************************)
(* Of a buffer and what was popped from it: the messages are numbered, the *)
(* last one is the one the guard remembers, whatever was popped arrived by *)
(* now and before everything that is still queued.                         *)
(***************************************************************************)
BufferOk(b, popped) ==
    /\ b \in Buffers
    /\ popped \subseteq Popped /\ IsFiniteSet(popped)
    /\ \A m \in SentBy(b, popped) : m.sequence < b.next
    /\ b.next > 0 =>
          \E m \in SentBy(b, popped) : /\ m.sequence = b.next - 1
                                       /\ m.arrival = b.last.arrival
                                       /\ m.bypass = b.last.bypass
    /\ bufferConfig.strict => SentInOrder(SentBy(b, popped))
    /\ \A r \in popped :
          /\ r.place < Cardinality(popped)
          /\ r.message.arrival <= bufferTick
          /\ \A m \in b.queue : ArrivesBefore(r.message, m)
          /\ \A s \in popped : r.place < s.place => ArrivesBefore(r.message, s.message)
    /\ \A m, n \in SentBy(b, popped) : m.sequence = n.sequence => m = n

BufferInv ==
    /\ bufferConfig \in [strict : BOOLEAN, zero : BOOLEAN]
    /\ bufferTick \in Nat
    /\ BufferOk(buffer, received)
    /\ bufferSaved = [buffer |-> bufferSaved.buffer, received |-> bufferSaved.received]
    /\ BufferOk(bufferSaved.buffer, bufferSaved.received)

LEMMA BufferInitially == BufferInit => BufferInv
<1> SUFFICES ASSUME BufferInit PROVE BufferInv
  OBVIOUS
<1>1. NewBuffer \in Buffers /\ SentBy(NewBuffer, {}) = {} /\ NewBuffer.next = 0
  BY DEF NewBuffer, Buffers, SentBy
<1>2. IsFiniteSet({})
  BY FS_EmptySet
<1>3. BufferOk(NewBuffer, {})
  BY <1>1, <1>2 DEF BufferOk, SentInOrder
<1> QED BY <1>3 DEF BufferInit, BufferInv

\* Enqueueing keeps a buffer in order: the guard compares the new message with the last one,
\* and no message that was popped arrives after now.
LEMMA EnqueueKeeps ==
    ASSUME BufferInv, NEW delta \in 0..MaxDelta, NEW bypass \in BOOLEAN,
           BufferEnqueue(delta, bypass)
    PROVE  BufferOk(buffer', received)
<1> USE BufferAssumption
<1> DEFINE message == [arrival |-> bufferTick + delta, sequence |-> buffer.next,
                       bypass |-> bypass]
           last == [arrival |-> message.arrival, bypass |-> bypass]
           sent == SentBy(buffer, received)
           sentNow == SentBy(buffer', received)
<1>1. /\ bufferTick \in Nat /\ buffer \in Buffers /\ buffer.next \in Nat
      /\ bufferTick + delta \in Nat /\ buffer.next + 1 \in Nat
      /\ buffer.last \in [arrival : Nat, bypass : BOOLEAN]
      /\ buffer.queue \subseteq BufferMessages
      /\ received \subseteq Popped
  BY DEF BufferInv, BufferOk, Buffers
<1>2. /\ message \in BufferMessages /\ message.arrival = bufferTick + delta
      /\ message.sequence = buffer.next /\ message.bypass = bypass
      /\ last \in [arrival : Nat, bypass : BOOLEAN]
      /\ last.arrival = message.arrival /\ last.bypass = bypass
  BY <1>1, Zenon DEF BufferMessages
<1> HIDE DEF message, last
<1>3. /\ buffer' = [next |-> buffer.next + 1, last |-> last,
                    queue |-> buffer.queue \union {message}]
      /\ ValidArrival(message.arrival, bypass)
  BY DEF BufferEnqueue, message, last
<1>4. buffer' \in Buffers /\ buffer'.next = buffer.next + 1 /\ buffer'.last = last
      /\ buffer'.queue = buffer.queue \union {message}
  BY <1>1, <1>2, <1>3 DEF Buffers
<1>5. sentNow = sent \union {message} /\ sent \subseteq BufferMessages
  BY <1>1, <1>4 DEF SentBy, Popped
<1>6. /\ \A m \in sent : m.sequence < buffer.next
      /\ \A m, n \in sent : m.sequence = n.sequence => m = n
      /\ buffer.next > 0 =>
            \E m \in sent : /\ m.sequence = buffer.next - 1
                            /\ m.arrival = buffer.last.arrival
                            /\ m.bypass = buffer.last.bypass
      /\ bufferConfig.strict => SentInOrder(sent)
  BY DEF BufferInv, BufferOk
<1> HIDE DEF sent, sentNow
<1>7. \A m \in BufferMessages : m.sequence \in Nat /\ m.arrival \in Nat /\ m.bypass \in BOOLEAN
  BY DEF BufferMessages
<1>8. \A m \in sentNow : m.sequence < buffer'.next
  BY <1>1, <1>2, <1>4, <1>5, <1>6, <1>7
<1>9. \A m, n \in sentNow : m.sequence = n.sequence => m = n
  BY <1>1, <1>2, <1>5, <1>6, <1>7
<1>10. \E m \in sentNow : /\ m.sequence = buffer'.next - 1
                          /\ m.arrival = buffer'.last.arrival
                          /\ m.bypass = buffer'.last.bypass
  BY <1>1, <1>2, <1>4, <1>5
<1>11. ASSUME bufferConfig.strict PROVE SentInOrder(sentNow)
  <2> SUFFICES ASSUME NEW m \in sentNow, NEW n \in sentNow, m.sequence < n.sequence,
                      \A b \in sentNow : b.sequence \in m.sequence..n.sequence => ~b.bypass
               PROVE  m.arrival <= n.arrival
    BY DEF SentInOrder
  <2>1. m \in sent /\ m \in BufferMessages /\ n \in BufferMessages
    BY <1>1, <1>2, <1>5, <1>6, <1>7
  <2>2. CASE n \in sent
    BY <1>5, <1>6, <1>11, <2>1, <2>2 DEF SentInOrder
  <2>3. CASE n = message
    <3>1. buffer.next > 0
      BY <1>1, <1>2, <1>7, <2>1, <2>3
    <3>2. PICK l \in sent : /\ l.sequence = buffer.next - 1
                            /\ l.arrival = buffer.last.arrival
                            /\ l.bypass = buffer.last.bypass
      BY <1>6, <3>1
    <3>3. /\ l \in BufferMessages /\ l \in sentNow /\ m.sequence <= l.sequence
          /\ l.sequence \in m.sequence..n.sequence /\ n.sequence \in m.sequence..n.sequence
      BY <1>1, <1>2, <1>5, <1>6, <1>7, <2>1, <2>3, <3>2
    <3>4. ~l.bypass /\ ~bypass
      BY <1>2, <2>3, <3>3
    <3>5. n.arrival >= l.arrival
      BY <1>2, <1>3, <1>11, <2>3, <3>2, <3>4 DEF ValidArrival
    <3>6. CASE m.sequence = l.sequence
      BY <1>6, <1>7, <2>1, <3>2, <3>3, <3>5, <3>6
    <3>7. CASE m.sequence < l.sequence
      <4>1. \A b \in sent : b.sequence \in m.sequence..l.sequence => ~b.bypass
        BY <1>5, <1>7, <2>1, <3>3
      <4>2. m.arrival <= l.arrival
        BY <1>6, <1>11, <2>1, <3>2, <3>7, <4>1 DEF SentInOrder
      <4> QED BY <1>7, <2>1, <3>3, <3>5, <4>2
    <3> QED BY <1>7, <2>1, <3>3, <3>6, <3>7
  <2> QED BY <1>5, <2>2, <2>3
<1>12. ASSUME NEW r \in received
       PROVE  \A m \in buffer'.queue : ArrivesBefore(r.message, m)
  <2>1. r.message.arrival <= bufferTick /\ r.message \in sent
    BY DEF BufferInv, BufferOk, SentBy, sent
  <2>2. ArrivesBefore(r.message, message)
    BY <1>1, <1>2, <1>5, <1>6, <1>7, <2>1 DEF ArrivesBefore
  <2> QED BY <1>4, <2>2 DEF BufferInv, BufferOk
<1> QED BY <1>4, <1>8, <1>9, <1>10, <1>11, <1>12 DEF BufferInv, BufferOk, sentNow


\* Popping the first message that has arrived keeps a buffer in order.
LEMMA PopKeeps ==
    ASSUME BufferInv, BufferPop
    PROVE  BufferOk(buffer', received')
<1>1. PICK m \in buffer.queue :
          /\ FirstMessage(m)
          /\ m.arrival <= bufferTick
          /\ buffer' = [buffer EXCEPT !.queue = @ \ {m}]
          /\ received' = received \union {[message |-> m, place |-> Cardinality(received)]}
  BY Zenon DEF BufferPop
<1> DEFINE count == Cardinality(received)
           new == [message |-> m, place |-> count]
<1>2. /\ buffer \in Buffers /\ received \subseteq Popped /\ IsFiniteSet(received)
      /\ buffer.queue \subseteq BufferMessages /\ m \in BufferMessages /\ bufferTick \in Nat
  BY DEF BufferInv, BufferOk, Buffers
<1>3. count \in Nat
  BY <1>2, FS_CardinalityType
<1>4. new \in Popped /\ new.message = m /\ new.place = count
  BY <1>2, <1>3 DEF Popped
<1>5. \A r \in received : r.place < count /\ r.place \in Nat /\ r.message \in BufferMessages
  BY <1>2 DEF BufferInv, BufferOk, Popped
<1>6. new \notin received
  BY <1>3, <1>4, <1>5
<1> HIDE DEF new
<1>7. received' = received \union {new}
  BY <1>1 DEF new
<1>8. IsFiniteSet(received') /\ Cardinality(received') = count + 1
  BY <1>2, <1>6, <1>7, FS_AddElement
<1> HIDE DEF count
<1>9. /\ buffer' \in Buffers /\ buffer'.queue = buffer.queue \ {m}
      /\ buffer'.next = buffer.next /\ buffer'.last = buffer.last
  BY <1>1, <1>2 DEF Buffers
<1>10. SentBy(buffer', received') = SentBy(buffer, received)
  BY <1>4, <1>7, <1>9 DEF SentBy
<1>11. ASSUME NEW r \in received'
       PROVE  /\ r.place < Cardinality(received')
              /\ r.message.arrival <= bufferTick
              /\ \A n \in buffer'.queue : ArrivesBefore(r.message, n)
              /\ \A s \in received' : r.place < s.place => ArrivesBefore(r.message, s.message)
  <2>1. CASE r = new
    <3>1. r.place < Cardinality(received') /\ r.message.arrival <= bufferTick
      BY <1>1, <1>3, <1>4, <1>8, <2>1
    <3>2. \A n \in buffer'.queue : ArrivesBefore(r.message, n)
      BY <1>1, <1>4, <1>9, <2>1 DEF FirstMessage
    <3>3. \A s \in received' : ~(r.place < s.place)
      BY <1>3, <1>4, <1>5, <1>7, <2>1
    <3> QED BY <3>1, <3>2, <3>3
  <2>2. CASE r \in received
    <3>1. /\ r.message.arrival <= bufferTick
          /\ \A n \in buffer.queue : ArrivesBefore(r.message, n)
          /\ \A s \in received : r.place < s.place => ArrivesBefore(r.message, s.message)
      BY <2>2 DEF BufferInv, BufferOk
    <3>2. r.place < Cardinality(received')
      BY <1>3, <1>5, <1>8, <2>2
    <3> QED BY <1>4, <1>7, <1>9, <3>1, <3>2
  <2> QED BY <1>7, <2>1, <2>2
<1>12. received' \subseteq Popped
  BY <1>2, <1>4, <1>7
<1> QED BY <1>8, <1>9, <1>10, <1>11, <1>12, Zenon DEF BufferInv, BufferOk

\* A tick that passes keeps a buffer, queued or saved, in order.
LEMMA TickKeeps ==
    ASSUME bufferTick \in Nat, bufferTick' = bufferTick + 1, UNCHANGED bufferConfig,
           NEW b, NEW popped, BufferOk(b, popped)
    PROVE  BufferOk(b, popped)'
<1>1. \A r \in popped : r.message.arrival <= bufferTick + 1
  BY DEF BufferOk, Popped, BufferMessages
<1> QED BY <1>1 DEF BufferOk

LEMMA BufferStep == BufferInv /\ [BufferNext]_messageVars => BufferInv'
<1> SUFFICES ASSUME BufferInv, [BufferNext]_messageVars PROVE BufferInv'
  OBVIOUS
<1>1. ASSUME NEW delta \in 0..MaxDelta, NEW bypass \in BOOLEAN, BufferEnqueue(delta, bypass)
      PROVE  BufferInv'
  <2>1. BufferOk(buffer', received)
    BY <1>1, EnqueueKeeps
  <2>2. UNCHANGED <<bufferConfig, bufferTick, received, bufferSaved>>
    BY <1>1 DEF BufferEnqueue
  <2> QED BY <2>1, <2>2 DEF BufferInv, BufferOk
<1>2. CASE BufferPop
  <2>1. BufferOk(buffer', received')
    BY <1>2, PopKeeps
  <2>2. UNCHANGED <<bufferConfig, bufferTick, bufferSaved>>
    BY <1>2 DEF BufferPop
  <2> QED BY <2>1, <2>2 DEF BufferInv, BufferOk
<1>3. CASE BufferSnapshot
  BY <1>3 DEF BufferSnapshot, BufferInv, BufferOk
<1>4. CASE BufferRestore
  BY <1>4 DEF BufferRestore, BufferInv, BufferOk
<1>5. CASE BufferTickAdvances
  BY <1>5, TickKeeps DEF BufferTickAdvances, BufferInv
<1>6. CASE UNCHANGED messageVars
  BY <1>6 DEF messageVars, BufferInv, BufferOk
<1> QED BY <1>1, <1>2, <1>3, <1>4, <1>5, <1>6 DEF BufferNext

\* BufferMessages come out in order, for any number of messages, delays, pops and restores
\* (enqueue_inner, validate_arrival, pop_ready, restore).
THEOREM BufferKeepsOrder == BufferSpec => []MessagesInOrder
<1>1. BufferInv => MessagesInOrder
  BY DEF BufferInv, BufferOk, MessagesInOrder, SentInOrder, Sent, SentBy
<1> QED BY <1>1, BufferInitially, BufferStep, PTL DEF BufferSpec


-----------------------------------------------------------------------------
(* Checkpoints of the whole system                                         *)

SchedulerEvents == [id : Nat, tick : Nat, token : Nat, owner : {"Control", "Wake", "Work"}]

Schedulers == [now : Nat, nextId : Nat, pending : SUBSET SchedulerEvents]

Systems == [core : {0, 1}, memory : {0, 1}, uart : {0, NoChunk}, scheduler : Schedulers]

SchedulerChunks == [now : Nat, nextId : Nat]

HostModes == {NoChunk, "Detailed", "Timing"}

Registries ==
    [core : {0, 1, NoChunk}, scheduler : {NoChunk} \union SchedulerChunks,
     memory : {0, 1, NoChunk}, uart : {0, NoChunk}, mode : HostModes]

ExecutorStores == [registry : Registries, mode : HostModes, manifests : [Manifests -> Registries]]

Calls ==
    [kind : {"Capture", "Captured", "Refused", "Validate", "Restore", "Restored"},
     bank : 1..5, label : Manifests, mode : HostModes, staged : Registries,
     owned : SUBSET SchedulerEvents, back : {"Free", "Runner"}, count : Nat,
     entry : [system : Systems, stored : ExecutorStores]]

IdleCalls == [kind : {"Idle"}, count : Nat]

OwnedBy(owner) == {event \in SchedulerEvents : event.owner = owner}

CheckpointTypes ==
    /\ system \in Systems /\ stored \in ExecutorStores
    /\ claims \in [control : SUBSET OwnedBy("Control"), wakes : SUBSET OwnedBy("Wake")]
    /\ nextToken \in Nat
    /\ {"core", "scheduler", "memory"} \subseteq attached
    /\ attached \subseteq {"core", "scheduler", "memory", "uart"}
    /\ call \in IdleCalls \union Calls

\* the executor has the scheduler for as long as a call lasts, and nobody is halfway then
LockInv ==
    \/ /\ call.kind = "Idle"
       /\ \/ schedulerLock = "Free" /\ runner = "Idle"
          \/ schedulerLock = "Runner" /\ runner \in {"Half", "Callback"}
    \/ /\ call.kind # "Idle" /\ schedulerLock = "Executor"
       /\ \/ call.back = "Free" /\ runner = "Idle"
          \/ call.back = "Runner" /\ runner = "Callback"

IsCheckpoint(r) ==
    /\ r["core"] \in {0, 1} /\ r["memory"] \in {0, 1} /\ r["core"] + r["memory"] = 1
    /\ r["scheduler"] \in SchedulerChunks

\* the core and the memory agree, except halfway through an event or through a restore
CutInv ==
    /\ runner = "Half" => system.core = system.memory
    /\ runner # "Half" /\ ~(call.kind = "Restore" /\ call.bank \in {2, 3}) =>
          system.core + system.memory = 1
    /\ \A event \in Sched.pending : event.id < Sched.nextId
    /\ \A label \in Manifests :
          stored.manifests[label] = EmptyRegistry \/ IsCheckpoint(stored.manifests[label])

NoWork(events) == \A event \in events : event.owner # "Work"

EntryEvents == call.entry.system.scheduler.pending

Kept == {event \in EntryEvents : event.owner = "Control"}

\* how far a capture has come
CaptureInv ==
    /\ call.kind \in {"Capture", "Captured"} => NoWork(EntryEvents)
    /\ call.kind = "Capture" =>
          /\ call.bank > 1 => call.staged["core"] = system.core
          /\ call.bank > 2 => call.staged["scheduler"] = Chunk("scheduler")
          /\ call.bank > 3 => call.staged["memory"] = system.memory

\* how far a restore has come; nothing is changed before every bank has agreed
RestoreInv ==
    /\ call.kind \in {"Capture", "Captured", "Refused", "Validate"} =>
          system = call.entry.system
    /\ call.kind \in {"Capture", "Refused", "Validate"} => stored = call.entry.stored
    /\ call.kind \in {"Validate", "Restore", "Restored"} =>
          /\ call.staged = stored.manifests[call.label] /\ IsCheckpoint(call.staged)
          /\ call.mode = call.staged["mode"]
    /\ call.kind = "Validate" /\ call.bank > 2 => SchedulerValid
    /\ call.kind \in {"Restore", "Restored"} =>
          /\ stored.registry = call.staged /\ stored.mode = call.staged["mode"]
          /\ NoWork(EntryEvents)
          /\ \A event \in Kept : event.tick >= call.staged["scheduler"].now
    /\ call.kind = "Restore" /\ call.bank <= 2 =>
          Sched = call.entry.system.scheduler /\ Preserved = Kept

Restored(bank) == call.kind = "Restored" \/ (call.kind = "Restore" /\ call.bank > bank)

RestoredInv ==
    /\ Restored(1) => system.core = call.staged["core"]
    /\ Restored(2) => Sched.now = call.staged["scheduler"].now /\ Sched.pending = Kept
    /\ Restored(3) => system.memory = call.staged["memory"]
    /\ Restored(4) /\ "uart" \in attached => system.uart = call.staged["uart"]

CheckpointInv ==
    CheckpointTypes /\ LockInv /\ CutInv /\ CaptureInv /\ RestoreInv /\ RestoredInv


LEMMA CheckpointInitially == CheckpointInit => CheckpointInv
<1> SUFFICES ASSUME CheckpointInit PROVE CheckpointInv
  OBVIOUS
<1>1. EmptyRegistry \in Registries
  BY DEF EmptyRegistry, Registries, HostModes
<1>2. call \in IdleCalls /\ call.kind = "Idle"
  <2>1. 0 \in Nat
    OBVIOUS
  <2> QED BY <2>1, Zenon DEF CheckpointInit, NoCall, IdleCalls
<1>3. system \in Systems /\ Sched.pending = {} /\ system.core + system.memory = 1
  <2>1. [now |-> 0, nextId |-> 0, pending |-> {}] \in Schedulers
    BY DEF Schedulers
  <2>2. system \in Systems /\ system.core = 0 /\ system.memory = 1 /\ Sched.pending = {}
    BY <2>1, Zenon DEF CheckpointInit, Systems, Sched
  <2> QED BY <2>2
<1>4. stored \in ExecutorStores
      /\ \A label \in Manifests : stored.manifests[label] = EmptyRegistry
  BY <1>1 DEF CheckpointInit, ExecutorStores, HostModes
<1>5. CheckpointTypes
  BY <1>2, <1>3, <1>4 DEF CheckpointInit, CheckpointTypes
<1>6. LockInv /\ CutInv
  BY <1>2, <1>3, <1>4 DEF CheckpointInit, LockInv, CutInv
<1> QED BY <1>2, <1>5, <1>6
        DEF CheckpointInv, CaptureInv, RestoreInv, RestoredInv, Restored

\* Outside a call only the types, the lock and the cut are at stake.
LEMMA IdleKeeps ==
    ASSUME call.kind = "Idle", UNCHANGED call, CheckpointTypes', LockInv', CutInv'
    PROVE  CheckpointInv'
BY DEF CheckpointInv, CaptureInv, RestoreInv, RestoredInv, Restored

\* A set of naturals with an upper bound has a greatest member.
LEMMA NaturalMaximum ==
    ASSUME NEW S \in SUBSET Nat, NEW x \in S, NEW bound \in Nat, \A y \in S : y <= bound
    PROVE  \E m \in S : \A y \in S : m >= y
<1> DEFINE bounds == {n \in Nat : \A y \in S : y <= n}
<1>1. /\ bounds \subseteq Nat /\ bounds # {}
      /\ \A n : n \in bounds <=> n \in Nat /\ \A y \in S : y <= n
  OBVIOUS
<1> HIDE DEF bounds
<1>2. PICK m \in bounds : \A n \in bounds : ~(<<n, m>> \in OpToRel(<, Nat))
  <2>1. bounds \subseteq Nat /\ bounds # {}
    BY <1>1
  <2> QED BY <2>1, NatLessThanWellFounded, WFMin, Zenon
<1>3. \A n \in bounds : ~(n < m)
  BY <1>1, <1>2, Zenon DEF OpToRel
<1>4. m \in S
  <2> SUFFICES ASSUME m \notin S PROVE FALSE
    OBVIOUS
  <2>1. m > x /\ m - 1 \in Nat
    BY <1>1
  <2>2. m - 1 \in bounds
    BY <1>1, <2>1
  <2> QED BY <1>1, <1>3, <2>2
<1> QED BY <1>1, <1>4

\* The clients, the thread that runs the scheduler and attach_uart_checkpoint_bank.
LEMMA OutsideStep ==
    ASSUME CheckpointInv,
           \/ \E owner \in {"Control", "Wake", "Work"}, tick \in 0..MaxEventTick :
                  ScheduleEvent(owner, tick)
           \/ ClientRestores
           \/ \E event \in Sched.pending : RunnerTakes(event)
           \/ RunnerFinishes \/ RunnerReturns \/ AttachUart
    PROVE  CheckpointInv'
<1>0. /\ system \in Systems /\ stored \in ExecutorStores
      /\ Sched \in Schedulers /\ Sched = system.scheduler
      /\ claims \in [control : SUBSET OwnedBy("Control"), wakes : SUBSET OwnedBy("Wake")]
      /\ nextToken \in Nat
      /\ CheckpointTypes /\ LockInv /\ CutInv
  BY DEF CheckpointInv, CheckpointTypes, Systems, Sched
<1>1. ASSUME NEW owner \in {"Control", "Wake", "Work"}, NEW tick \in 0..MaxEventTick,
             ScheduleEvent(owner, tick)
      PROVE  CheckpointInv'
  <2> DEFINE event == [id |-> Sched.nextId, tick |-> tick, token |-> nextToken,
                       owner |-> owner]
  <2>1. event \in SchedulerEvents /\ event.id = Sched.nextId /\ event.owner = owner
    <3>1. tick \in Nat /\ Sched.nextId \in Nat /\ nextToken \in Nat
      BY <1>0, CheckpointAssumption DEF Schedulers
    <3> QED BY <3>1, Zenon DEF SchedulerEvents
  <2> HIDE DEF event
  <2>2. /\ schedulerLock = "Free"
        /\ system' = [system EXCEPT !.scheduler.nextId = @ + 1,
                                    !.scheduler.pending = @ \union {event}]
        /\ claims' = CASE owner = "Control" -> [claims EXCEPT !.control = @ \union {event}]
                       [] owner = "Wake" -> [claims EXCEPT !.wakes = @ \union {event}]
                       [] owner = "Work" -> claims
        /\ nextToken' = nextToken + 1
        /\ UNCHANGED <<schedulerLock, runner, attached, stored, call>>
    BY <1>1 DEF ScheduleEvent, event
  <2>3. call.kind = "Idle"
    BY <1>0, <2>2 DEF LockInv
  <2>4. /\ system' \in Systems /\ system'.core = system.core /\ system'.memory = system.memory
        /\ Sched'.nextId = Sched.nextId + 1 /\ Sched'.pending = Sched.pending \union {event}
    <3>1. system.scheduler.nextId + 1 \in Nat
          /\ system.scheduler.pending \union {event} \in SUBSET SchedulerEvents
      BY <1>0, <2>1 DEF Schedulers
    <3> QED BY <1>0, <2>2, <3>1, Zenon DEF Systems, Schedulers, Sched
  <2>5. claims' \in [control : SUBSET OwnedBy("Control"), wakes : SUBSET OwnedBy("Wake")]
    <3>1. owner = "Control" => event \in OwnedBy("Control")
      BY <2>1 DEF OwnedBy
    <3>2. owner = "Wake" => event \in OwnedBy("Wake")
      BY <2>1 DEF OwnedBy
    <3> QED BY <1>0, <2>2, <3>1, <3>2
  <2>6. CheckpointTypes'
    BY <1>0, <2>2, <2>4, <2>5 DEF CheckpointTypes
  <2>7. CutInv'
    <3>1. \A e \in Sched'.pending : e.id < Sched'.nextId
      BY <1>0, <2>1, <2>4 DEF CutInv, Schedulers, SchedulerEvents
    <3> QED BY <1>0, <2>2, <2>4, <3>1 DEF CutInv
  <2>8. LockInv'
    BY <1>0, <2>2 DEF LockInv
  <2> QED BY <2>2, <2>3, <2>6, <2>7, <2>8, IdleKeeps
<1>2. CASE ClientRestores
  <2>1. /\ schedulerLock = "Free"
        /\ system' = [system EXCEPT !.scheduler = [now |-> 0, nextId |-> 0, pending |-> {}]]
        /\ UNCHANGED <<schedulerLock, runner, claims, nextToken, attached, stored, call>>
    BY <1>2 DEF ClientRestores
  <2>2. call.kind = "Idle"
    BY <1>0, <2>1 DEF LockInv
  <2>3. /\ system' \in Systems /\ system'.core = system.core /\ system'.memory = system.memory
        /\ Sched'.pending = {}
    BY <1>0, <2>1 DEF Systems, Schedulers, Sched
  <2>4. CheckpointTypes' /\ LockInv' /\ CutInv'
    BY <1>0, <2>1, <2>3 DEF CheckpointTypes, LockInv, CutInv
  <2> QED BY <2>1, <2>2, <2>4, IdleKeeps
<1>3. ASSUME NEW event \in Sched.pending, RunnerTakes(event) PROVE CheckpointInv'
  <2> DEFINE dispatched == [system EXCEPT !.scheduler.now = event.tick,
                                          !.scheduler.pending = @ \ {event}]
  <2>1. /\ schedulerLock = "Free" /\ schedulerLock' = "Runner"
        /\ claims' = [claims EXCEPT !.wakes = @ \ {event}]
        /\ IF event.owner = "Work"
             THEN system' = [dispatched EXCEPT !.core = 1 - @] /\ runner' = "Half"
             ELSE system' = dispatched /\ runner' = "Callback"
        /\ UNCHANGED <<nextToken, attached, stored, call>>
    BY <1>3, Zenon DEF RunnerTakes
  <2>2. call.kind = "Idle" /\ runner = "Idle"
    BY <1>0, <2>1 DEF LockInv
  <2>3. event.tick \in Nat
    BY <1>0 DEF Schedulers, SchedulerEvents
  <2>4. /\ dispatched \in Systems /\ dispatched.core = system.core
        /\ dispatched.memory = system.memory
        /\ dispatched.scheduler.pending = Sched.pending \ {event}
        /\ dispatched.scheduler.nextId = Sched.nextId
    BY <1>0, <2>3, Zenon DEF Systems, Schedulers
  <2> HIDE DEF dispatched
  <2>5. claims' \in [control : SUBSET OwnedBy("Control"), wakes : SUBSET OwnedBy("Wake")]
    BY <1>0, <2>1
  <2>6. /\ system' \in Systems /\ system'.memory = system.memory
        /\ system'.scheduler = dispatched.scheduler
        /\ IF runner' = "Half" THEN system'.core = 1 - system.core
                               ELSE system'.core = system.core
        /\ runner' \in {"Half", "Callback"}
    BY <2>1, <2>4 DEF Systems
  <2>7. system.core + system.memory = 1 /\ system.core \in {0, 1} /\ system.memory \in {0, 1}
    BY <1>0, <2>2 DEF CutInv, Systems
  <2>8. CheckpointTypes' /\ LockInv'
    BY <1>0, <2>1, <2>2, <2>5, <2>6 DEF CheckpointTypes, LockInv
  <2>9. CutInv'
    BY <1>0, <2>1, <2>2, <2>4, <2>6, <2>7 DEF CutInv, Sched
  <2> QED BY <2>1, <2>2, <2>8, <2>9, IdleKeeps
<1>4. CASE RunnerFinishes
  <2>1. /\ runner = "Half" /\ runner' = "Callback"
        /\ system' = [system EXCEPT !.memory = 1 - @]
        /\ UNCHANGED <<schedulerLock, claims, nextToken, attached, stored, call>>
    BY <1>4 DEF RunnerFinishes
  <2>2. call.kind = "Idle"
    BY <1>0, <2>1 DEF LockInv
  <2>3. /\ system' \in Systems /\ system'.core = system.core
        /\ system'.memory = 1 - system.memory /\ system'.scheduler = system.scheduler
        /\ system.core = system.memory /\ system.memory \in {0, 1}
    BY <1>0, <2>1 DEF Systems, CutInv
  <2>4. CheckpointTypes' /\ LockInv' /\ CutInv'
    BY <1>0, <2>1, <2>2, <2>3 DEF CheckpointTypes, LockInv, CutInv, Sched
  <2> QED BY <2>1, <2>2, <2>4, IdleKeeps
<1>5. CASE RunnerReturns
  <2>1. /\ schedulerLock = "Runner" /\ runner = "Callback"
        /\ schedulerLock' = "Free" /\ runner' = "Idle"
        /\ UNCHANGED <<system, claims, nextToken, attached, stored, call>>
    BY <1>5 DEF RunnerReturns
  <2>2. call.kind = "Idle"
    BY <1>0, <2>1 DEF LockInv
  <2>3. CheckpointTypes' /\ LockInv' /\ CutInv'
    BY <1>0, <2>1, <2>2 DEF CheckpointTypes, LockInv, CutInv, Sched
  <2> QED BY <2>1, <2>2, <2>3, IdleKeeps
<1>6. CASE AttachUart
  BY <1>0, <1>6, IdleKeeps DEF AttachUart, CheckpointTypes, LockInv, CutInv, Sched
<1> QED BY <1>1, <1>2, <1>3, <1>4, <1>5, <1>6


\* The beginning of a host action, and a mode switch that hands the core over alive.
LEMMA BeginKeeps ==
    ASSUME CheckpointInv, NEW kind \in {"Capture", "Refused", "Validate"},
           NEW label \in Manifests, NEW mode \in HostModes, NEW staged \in Registries,
           Begin(kind, label, mode, staged), UNCHANGED stored,
           kind = "Capture" => NoWork(Sched.pending),
           kind = "Validate" => /\ staged = stored.manifests[label] /\ IsCheckpoint(staged)
                                /\ mode = staged["mode"]
    PROVE  CheckpointInv'
<1>0. /\ system \in Systems /\ stored \in ExecutorStores
      /\ claims \in [control : SUBSET OwnedBy("Control"), wakes : SUBSET OwnedBy("Wake")]
      /\ CheckpointTypes /\ LockInv /\ CutInv
  BY DEF CheckpointInv, CheckpointTypes
<1>1. /\ call.kind = "Idle"
      /\ schedulerLock = "Free" \/ (schedulerLock = "Runner" /\ runner = "Callback")
      /\ schedulerLock' = "Executor"
      /\ claims' = [claims EXCEPT !.control = Claimed(@)]
      /\ call' = [kind |-> kind, bank |-> 1, label |-> label, mode |-> mode, staged |-> staged,
                  owned |-> {}, back |-> schedulerLock, count |-> call.count + 1,
                  entry |-> [system |-> system, stored |-> stored]]
      /\ UNCHANGED <<runner, system, nextToken, attached, stored>>
  BY DEF Begin, TryLock
<1>2. call.count + 1 \in Nat
  BY <1>0, <1>1 DEF CheckpointTypes, IdleCalls, Calls
<1>3. call' \in Calls
  <2>1. 1 \in 1..5 /\ {} \in SUBSET SchedulerEvents /\ schedulerLock \in {"Free", "Runner"}
    BY <1>1
  <2>2. [system |-> system, stored |-> stored] \in [system : Systems, stored : ExecutorStores]
    BY <1>0, Zenon
  <2> QED BY <1>1, <1>2, <2>1, <2>2, Zenon DEF Calls
<1>4. /\ call'.kind = kind /\ call'.bank = 1 /\ call'.label = label /\ call'.mode = mode
      /\ call'.staged = staged /\ call'.back = schedulerLock
      /\ call'.entry.system = system /\ call'.entry.stored = stored
  BY <1>1, Zenon
<1>5. claims' \in [control : SUBSET OwnedBy("Control"), wakes : SUBSET OwnedBy("Wake")]
  BY <1>0, <1>1 DEF Claimed
<1>6. CheckpointTypes'
  BY <1>0, <1>1, <1>3, <1>5 DEF CheckpointTypes
<1>7. LockInv'
  BY <1>0, <1>1, <1>4 DEF LockInv
<1>8. CutInv'
  BY <1>0, <1>1, <1>4 DEF CutInv, Sched
<1>9. CaptureInv'
  BY <1>4 DEF CaptureInv, EntryEvents, NoWork, Sched
<1>10. RestoreInv'
  BY <1>1, <1>4 DEF RestoreInv
<1>11. RestoredInv'
  BY <1>4 DEF RestoredInv, Restored
<1> QED BY <1>6, <1>7, <1>8, <1>9, <1>10, <1>11 DEF CheckpointInv

LEMMA BeginStep ==
    ASSUME CheckpointInv,
           \/ \E label \in CheckpointLabels : BeginCheckpoint(label)
           \/ \E mode \in {"Timing", "Detailed"} : BeginSwitch(mode)
           \/ \E label \in Manifests : BeginRestore(label)
           \/ LiveDataHandoff
    PROVE  CheckpointInv'
<1>0. /\ stored \in ExecutorStores /\ stored.mode \in HostModes
      /\ stored.registry \in Registries /\ stored.manifests \in [Manifests -> Registries]
      /\ claims \in [control : SUBSET OwnedBy("Control"), wakes : SUBSET OwnedBy("Wake")]
      /\ CheckpointTypes /\ LockInv /\ CutInv
  BY DEF CheckpointInv, CheckpointTypes, ExecutorStores
<1>1. /\ CaptureOrRefuse \in {"Capture", "Refused", "Validate"}
      /\ CaptureOrRefuse # "Validate"
      /\ CaptureOrRefuse = "Capture" => NoWork(Sched.pending)
  BY <1>0 DEF CaptureOrRefuse, OwnedEvents, Claimed, NoWork, OwnedBy
<1>2. ASSUME NEW label \in CheckpointLabels, BeginCheckpoint(label) PROVE CheckpointInv'
  <2>1. label \in Manifests /\ UNCHANGED stored
        /\ Begin(CaptureOrRefuse, label, stored.mode, stored.registry)
    BY <1>2 DEF BeginCheckpoint, Manifests
  <2> HIDE DEF CaptureOrRefuse
  <2> QED BY <1>0, <1>1, <2>1, BeginKeeps, Zenon
<1>3. ASSUME NEW mode \in {"Timing", "Detailed"}, BeginSwitch(mode) PROVE CheckpointInv'
  <2>1. SwitchLabel \in Manifests /\ UNCHANGED stored /\ mode \in HostModes
        /\ Begin(CaptureOrRefuse, SwitchLabel, mode, stored.registry)
    BY <1>3 DEF BeginSwitch, Manifests, HostModes
  <2> QED BY <1>0, <1>1, <2>1, BeginKeeps, Zenon
<1>4. ASSUME NEW label \in Manifests, BeginRestore(label) PROVE CheckpointInv'
  <2> DEFINE manifest == stored.manifests[label]
  <2>1. manifest # EmptyRegistry /\ UNCHANGED stored
        /\ Begin("Validate", label, manifest["mode"], manifest)
    BY <1>4 DEF BeginRestore
  <2>2. manifest \in Registries /\ manifest["mode"] \in HostModes /\ IsCheckpoint(manifest)
    BY <1>0, <2>1 DEF CutInv, Registries
  <2> HIDE DEF manifest
  <2> QED BY <2>1, <2>2, BeginKeeps, Zenon DEF manifest
<1>5. CASE LiveDataHandoff
  <2>1. /\ call.kind = "Idle"
        /\ stored' = [stored EXCEPT !.mode = "Timing"]
        /\ claims' = [claims EXCEPT !.control = Claimed(@)]
        /\ UNCHANGED <<schedulerLock, runner, system, nextToken, attached, call>>
    BY <1>5 DEF LiveDataHandoff, TryLock
  <2>2. stored' \in ExecutorStores /\ stored'.manifests = stored.manifests
    BY <1>0, <2>1 DEF ExecutorStores, HostModes
  <2>3. claims' \in [control : SUBSET OwnedBy("Control"), wakes : SUBSET OwnedBy("Wake")]
    BY <1>0, <2>1 DEF Claimed
  <2>4. CheckpointTypes' /\ LockInv' /\ CutInv'
    BY <1>0, <2>1, <2>2, <2>3 DEF CheckpointTypes, LockInv, CutInv, Sched
  <2> QED BY <2>1, <2>4, IdleKeeps
<1> QED BY <1>2, <1>3, <1>4, <1>5

\* what no step of a call changes but its first
SameCall(c, d) ==
    c.label = d.label /\ c.mode = d.mode /\ c.back = d.back /\ c.entry = d.entry

LEMMA BankNames ==
    /\ Len(BankOrder) = 4
    /\ BankOrder[1] = "core" /\ BankOrder[2] = "scheduler"
    /\ BankOrder[3] = "memory" /\ BankOrder[4] = "uart"
BY DEF BankOrder

\* While a call lasts the executor has the scheduler.
LEMMA CallFacts ==
    ASSUME CheckpointInv, call.kind # "Idle"
    PROVE  /\ call \in Calls
           /\ call.bank \in 1..5 /\ call.staged \in Registries /\ call.label \in Manifests
           /\ runner # "Half"
BY DEF CheckpointInv, CheckpointTypes, IdleCalls, Calls, LockInv

LEMMA BankMoves ==
    ASSUME call \in Calls, call.bank <= 4
    PROVE  /\ NextBank \in Calls /\ SameCall(NextBank, call)
           /\ NextBank.kind = call.kind /\ NextBank.bank = call.bank + 1
           /\ NextBank.staged = call.staged /\ NextBank.owned = call.owned
<1>1. call.bank + 1 \in 1..5
  BY DEF Calls
<1> QED BY <1>1, Zenon DEF NextBank, SameCall, Calls

LEMMA KindMoves ==
    ASSUME call \in Calls, NEW kind \in {"Captured", "Refused", "Restored"}
    PROVE  LET moved == [call EXCEPT !.kind = kind]
           IN  /\ moved \in Calls /\ SameCall(moved, call)
               /\ moved.kind = kind /\ moved.bank = call.bank
               /\ moved.staged = call.staged /\ moved.owned = call.owned
BY Zenon DEF SameCall, Calls

\* A step of a call that leaves the scheduler held keeps the lock.
LEMMA LockKept ==
    ASSUME CheckpointInv, call.kind # "Idle", call'.kind # "Idle", SameCall(call', call),
           UNCHANGED <<schedulerLock, runner>>
    PROVE  LockInv'
BY DEF CheckpointInv, LockInv, SameCall


\* The banks captured one after the other, the manifest, and the refusals.
LEMMA CaptureStep ==
    ASSUME CheckpointInv, CaptureBank \/ FinishCapture \/ BankRefuses
    PROVE  CheckpointInv'
<1>0. /\ system \in Systems /\ stored \in ExecutorStores /\ call \in Calls
      /\ Sched \in Schedulers /\ Sched = system.scheduler
      /\ call.bank \in 1..5 /\ call.staged \in Registries /\ call.label \in Manifests
      /\ call.kind \in {"Capture", "Validate"} /\ runner # "Half"
      /\ CheckpointTypes /\ LockInv /\ CutInv /\ CaptureInv /\ RestoreInv
  <2>1. call.kind \in {"Capture", "Validate"}
    BY DEF CaptureBank, FinishCapture, BankRefuses, AtBank
  <2> QED BY <2>1, CallFacts DEF CheckpointInv, CheckpointTypes, Systems, Sched
<1>1. CASE CaptureBank
  <2> DEFINE captured == [NextBank EXCEPT !.staged[Bank] = Chunk(Bank)]
  <2>1. /\ call.kind = "Capture" /\ call.bank <= 4
        /\ call' = IF Bank \in attached THEN captured ELSE NextBank
        /\ UNCHANGED <<schedulerLock, runner, system, claims, nextToken, attached, stored>>
    BY <1>1, BankNames DEF CaptureBank, AtBank
  <2>2. /\ NextBank \in Calls /\ SameCall(NextBank, call)
        /\ NextBank.kind = "Capture" /\ NextBank.bank = call.bank + 1
        /\ NextBank.staged = call.staged
    BY <1>0, <2>1, BankMoves, Zenon
  <2>3. /\ call.bank = 1 => Bank = "core" /\ Chunk(Bank) = system.core
        /\ call.bank = 2 => Bank = "scheduler"
        /\ call.bank = 3 => Bank = "memory" /\ Chunk(Bank) = system.memory
        /\ call.bank = 4 => Bank = "uart" /\ Chunk(Bank) = system.uart
    BY BankNames DEF Bank, Chunk
  <2>4. /\ Bank \in {"core", "scheduler", "memory", "uart"}
        /\ call.bank # 4 => Bank \in attached
    BY <1>0, <2>1, <2>3 DEF CheckpointTypes
  <2>5. Chunk("scheduler") \in SchedulerChunks
    BY <1>0 DEF Chunk, Schedulers, SchedulerChunks
  <2>6. [call.staged EXCEPT ![Bank] = Chunk(Bank)] \in Registries
    <3>1. CASE call.bank = 1
      BY <1>0, <2>3, <3>1 DEF Registries, Systems
    <3>2. CASE call.bank = 2
      BY <1>0, <2>3, <2>5, <3>2 DEF Registries, Systems
    <3>3. CASE call.bank = 3
      BY <1>0, <2>3, <3>3 DEF Registries, Systems
    <3>4. CASE call.bank = 4
      BY <1>0, <2>3, <3>4 DEF Registries, Systems
    <3> QED BY <1>0, <2>1, <3>1, <3>2, <3>3, <3>4
  <2> HIDE DEF Bank, NextBank
  <2>7. /\ captured \in Calls /\ SameCall(captured, call)
        /\ captured.kind = "Capture" /\ captured.bank = call.bank + 1
        /\ captured.staged = [call.staged EXCEPT ![Bank] = Chunk(Bank)]
    BY <2>2, <2>6, Zenon DEF Calls, SameCall
  <2> HIDE DEF captured
  <2>8. /\ call' \in Calls /\ SameCall(call', call)
        /\ call'.kind = "Capture" /\ call'.bank = call.bank + 1
        /\ Bank \in attached => call'.staged = [call.staged EXCEPT ![Bank] = Chunk(Bank)]
    BY <2>1, <2>2, <2>7, Zenon
  <2>9. CheckpointTypes'
    BY <1>0, <2>1, <2>8 DEF CheckpointTypes
  <2>10. LockInv'
    BY <2>1, <2>8, LockKept
  <2>11. CutInv'
    BY <1>0, <2>1, <2>8 DEF CutInv, Sched
  <2>12. EntryEvents' = EntryEvents /\ Chunk("scheduler")' = Chunk("scheduler")
    BY <2>1, <2>8 DEF EntryEvents, SameCall, Chunk, Sched
  <2>13. /\ call'.bank > 1 => call'.staged["core"] = system.core
         /\ call'.bank > 2 => call'.staged["scheduler"] = Chunk("scheduler")
         /\ call'.bank > 3 => call'.staged["memory"] = system.memory
    <3>1. CASE call.bank = 1
      BY <1>0, <2>3, <2>4, <2>8, <3>1 DEF Registries
    <3>2. CASE call.bank = 2
      BY <1>0, <2>1, <2>3, <2>4, <2>8, <3>2 DEF Registries, CaptureInv
    <3>3. CASE call.bank = 3
      BY <1>0, <2>1, <2>3, <2>4, <2>8, <3>3 DEF Registries, CaptureInv
    <3>4. CASE call.bank = 4
      <4>1. \A c \in {"core", "scheduler", "memory"} : call'.staged[c] = call.staged[c]
        BY <1>0, <2>1, <2>2, <2>3, <2>8, <3>4, SMTT(30) DEF Registries
      <4> QED BY <1>0, <2>1, <2>8, <3>4, <4>1 DEF CaptureInv
    <3> QED BY <1>0, <2>1, <3>1, <3>2, <3>3, <3>4
  <2>14. CaptureInv'
    BY <1>0, <2>1, <2>8, <2>12, <2>13, SMTT(30) DEF CaptureInv, NoWork
  <2>15. RestoreInv'
    BY <1>0, <2>1, <2>8, SMTT(30) DEF RestoreInv, SameCall
  <2>16. RestoredInv'
    BY <2>8 DEF RestoredInv, Restored
  <2> QED BY <2>9, <2>10, <2>11, <2>14, <2>15, <2>16 DEF CheckpointInv
<1>2. CASE FinishCapture
  <2> DEFINE manifest == [call.staged EXCEPT !["mode"] = stored.mode]
  <2>1. /\ call.kind = "Capture" /\ call.bank > 4
        /\ stored' = [registry |-> manifest, mode |-> call.mode,
                      manifests |-> [stored.manifests EXCEPT ![call.label] = manifest]]
        /\ call' = [call EXCEPT !.kind = "Captured"]
        /\ UNCHANGED <<schedulerLock, runner, system, claims, nextToken, attached>>
    BY <1>2, BankNames DEF FinishCapture
  <2>2. /\ call' \in Calls /\ SameCall(call', call) /\ call'.kind = "Captured"
    BY <1>0, <2>1, KindMoves
  <2>3. stored.mode \in HostModes /\ call.mode \in HostModes
        /\ stored.manifests \in [Manifests -> Registries]
    BY <1>0 DEF ExecutorStores, Calls
  <2>4. /\ manifest \in Registries /\ manifest["core"] = system.core
        /\ manifest["memory"] = system.memory /\ manifest["scheduler"] = Chunk("scheduler")
    BY <1>0, <2>1, <2>3 DEF Registries, CaptureInv
  <2>5. IsCheckpoint(manifest)
    <3>1. system.core + system.memory = 1 /\ system.core \in {0, 1} /\ system.memory \in {0, 1}
      BY <1>0, <2>1 DEF CutInv, Systems
    <3>2. Chunk("scheduler") \in SchedulerChunks
      BY <1>0 DEF Chunk, Schedulers, SchedulerChunks
    <3> QED BY <2>4, <3>1, <3>2 DEF IsCheckpoint
  <2> HIDE DEF manifest
  <2>6. /\ stored' \in ExecutorStores
        /\ stored'.manifests = [stored.manifests EXCEPT ![call.label] = manifest]
    BY <1>0, <2>1, <2>3, <2>4 DEF ExecutorStores
  <2>7. CheckpointTypes'
    BY <1>0, <2>1, <2>2, <2>6 DEF CheckpointTypes
  <2>8. LockInv'
    BY <1>0, <2>1, <2>2, LockKept
  <2>9. CutInv'
    <3>1. \A label \in Manifests : stored'.manifests[label] = EmptyRegistry
                                   \/ IsCheckpoint(stored'.manifests[label])
      BY <1>0, <2>3, <2>5, <2>6, Zenon DEF CutInv
    <3> QED BY <1>0, <2>1, <2>2, <3>1 DEF CutInv, Sched
  <2>10. CaptureInv' /\ RestoreInv' /\ RestoredInv'
    BY <1>0, <2>1, <2>2
       DEF CaptureInv, RestoreInv, RestoredInv, Restored, SameCall, NoWork, EntryEvents
  <2> QED BY <2>7, <2>8, <2>9, <2>10 DEF CheckpointInv
<1>3. CASE BankRefuses
  <2>1. /\ call' = [call EXCEPT !.kind = "Refused"]
        /\ UNCHANGED <<schedulerLock, runner, system, claims, nextToken, attached, stored>>
    BY <1>3 DEF BankRefuses
  <2>2. call' \in Calls /\ SameCall(call', call) /\ call'.kind = "Refused"
    BY <1>0, <2>1, KindMoves
  <2>3. CheckpointTypes'
    BY <1>0, <2>1, <2>2 DEF CheckpointTypes
  <2>4. LockInv'
    BY <1>0, <2>1, <2>2, LockKept
  <2>5. CutInv'
    BY <1>0, <2>1, <2>2 DEF CutInv, Sched
  <2>6. CaptureInv' /\ RestoreInv' /\ RestoredInv'
    BY <1>0, <2>1, <2>2 DEF CaptureInv, RestoreInv, RestoredInv, Restored, SameCall
  <2> QED BY <2>3, <2>4, <2>5, <2>6 DEF CheckpointInv
<1> QED BY <1>1, <1>2, <1>3


\* Every bank agrees before the first assignment.
LEMMA ValidateStep ==
    ASSUME CheckpointInv, ValidateBank \/ CommitRestore
    PROVE  CheckpointInv'
<1>0. /\ system \in Systems /\ stored \in ExecutorStores /\ call \in Calls
      /\ call.bank \in 1..5 /\ call.staged \in Registries /\ call.label \in Manifests
      /\ claims \in [control : SUBSET OwnedBy("Control"), wakes : SUBSET OwnedBy("Wake")]
      /\ call.kind = "Validate" /\ runner # "Half"
      /\ CheckpointTypes /\ LockInv /\ CutInv /\ RestoreInv
  <2>1. call.kind = "Validate"
    BY DEF ValidateBank, CommitRestore, AtBank
  <2> QED BY <2>1, CallFacts DEF CheckpointInv, CheckpointTypes
<1>1. CASE ValidateBank
  <2>1. /\ call.bank <= 4 /\ call' = NextBank
        /\ Bank \in attached => (Bank = "scheduler" => SchedulerValid)
        /\ UNCHANGED <<schedulerLock, runner, system, claims, nextToken, attached, stored>>
    BY <1>1, BankNames DEF ValidateBank, AtBank
  <2>2. /\ call' \in Calls /\ SameCall(call', call) /\ call'.kind = "Validate"
        /\ call'.bank = call.bank + 1 /\ call'.staged = call.staged
    BY <1>0, <2>1, BankMoves
  <2>3. CheckpointTypes'
    BY <1>0, <2>1, <2>2 DEF CheckpointTypes
  <2>4. LockInv'
    BY <1>0, <2>1, <2>2, LockKept
  <2>5. CutInv'
    BY <1>0, <2>1, <2>2 DEF CutInv, Sched
  <2>6. call'.bank > 2 => SchedulerValid
    <3>1. CASE call.bank = 2
      <4>1. Bank = "scheduler"
        BY <3>1, BankNames DEF Bank
      <4>2. Bank \in attached
        BY <1>0, <4>1 DEF CheckpointTypes
      <4> QED BY <2>1, <4>1, <4>2
    <3>2. CASE call.bank # 2
      BY <1>0, <2>2, <3>2, SMTT(30) DEF RestoreInv
    <3> QED BY <3>1, <3>2
  <2>7. SchedulerValid' = SchedulerValid
    BY <2>1, <2>2 DEF SchedulerValid, OwnedEvents, Claimed, Sched
  <2>8. RestoreInv'
    BY <1>0, <2>1, <2>2, <2>6, <2>7 DEF RestoreInv, SameCall
  <2>9. CaptureInv' /\ RestoredInv'
    BY <2>2 DEF CaptureInv, RestoredInv, Restored
  <2> QED BY <2>3, <2>4, <2>5, <2>8, <2>9 DEF CheckpointInv
<1>2. CASE CommitRestore
  <2>1. /\ call.bank > 4
        /\ stored' = [stored EXCEPT !.registry = call.staged, !.mode = call.mode]
        /\ call' = [call EXCEPT !.kind = "Restore", !.bank = 1, !.owned = OwnedEvents]
        /\ UNCHANGED <<schedulerLock, runner, system, claims, nextToken, attached>>
    BY <1>2, BankNames DEF CommitRestore
  <2>2. OwnedEvents \in SUBSET SchedulerEvents
    BY <1>0 DEF OwnedEvents, Claimed, OwnedBy
  <2>3. /\ call' \in Calls /\ SameCall(call', call) /\ call'.kind = "Restore"
        /\ call'.bank = 1 /\ call'.staged = call.staged /\ call'.owned = OwnedEvents
    <3>1. 1 \in 1..5
      OBVIOUS
    <3> QED BY <1>0, <2>1, <2>2, <3>1, Zenon DEF Calls, SameCall
  <2>4. call.mode \in HostModes
    BY <1>0 DEF Calls
  <2>5. /\ stored' \in ExecutorStores /\ stored'.manifests = stored.manifests
        /\ stored'.registry = call.staged /\ stored'.mode = call.mode
    BY <1>0, <2>1, <2>4, Zenon DEF ExecutorStores
  <2>6. /\ SchedulerValid /\ system = call.entry.system
        /\ call.staged = stored.manifests[call.label] /\ IsCheckpoint(call.staged)
        /\ call.mode = call.staged["mode"]
    BY <1>0, <2>1 DEF RestoreInv
  <2>7. EntryEvents' = Sched.pending /\ Sched' = Sched
        /\ Sched' = call'.entry.system.scheduler
    BY <2>1, <2>3, <2>6 DEF EntryEvents, Sched, SameCall
  <2>8. NoWork(Sched.pending)
    BY <1>0, <2>6 DEF SchedulerValid, NoWork, OwnedEvents, Claimed, OwnedBy
  <2>9. Kept' = Claimed(claims.control)
    <3>1. Kept' = {event \in Sched.pending : event.owner = "Control"}
      BY <2>7 DEF Kept
    <3>2. \A event \in claims.control : event.owner = "Control"
      BY <1>0 DEF OwnedBy
    <3>3. \A event \in claims.wakes : event.owner # "Control"
      BY <1>0 DEF OwnedBy
    <3>4. Sched.pending = Claimed(claims.control) \union Claimed(claims.wakes)
      BY <2>6 DEF SchedulerValid, OwnedEvents
    <3> QED BY <3>1, <3>2, <3>3, <3>4 DEF Claimed
  <2>10. Preserved' = Kept'
    BY <2>1, <2>3, <2>9 DEF Preserved, OwnedEvents, Claimed
  <2>11. \A event \in Kept' : event.tick >= call'.staged["scheduler"].now
    BY <2>3, <2>6, <2>9 DEF SchedulerValid
  <2>12. CheckpointTypes'
    BY <1>0, <2>1, <2>3, <2>5 DEF CheckpointTypes
  <2>13. LockInv'
    BY <1>0, <2>1, <2>3, LockKept
  <2>14. CutInv'
    BY <1>0, <2>1, <2>3, <2>5 DEF CutInv, Sched
  <2>15. RestoreInv'
    <3>1. NoWork(EntryEvents)'
      BY <2>7, <2>8 DEF NoWork
    <3>2. call'.label = call.label /\ call'.mode = call.mode
      BY <2>3 DEF SameCall
    <3> QED BY <2>3, <2>5, <2>6, <2>7, <2>10, <2>11, <3>1, <3>2, Zenon DEF RestoreInv
  <2>16. CaptureInv' /\ RestoredInv'
    BY <2>3 DEF CaptureInv, RestoredInv, Restored
  <2> QED BY <2>12, <2>13, <2>14, <2>15, <2>16 DEF CheckpointInv
<1> QED BY <1>1, <1>2

\* The restored scheduler keeps the deliveries of host actions, with ids below its next one
\* (restore_checkpoint_projection).
LEMMA SchedulerRestored ==
    ASSUME CheckpointInv, call.kind = "Restore", call.bank = 2
    PROVE  LET chunk == call.staged["scheduler"]
               restored == RestoredScheduler(chunk)
           IN  /\ restored \in Schedulers
               /\ restored.now = chunk.now /\ restored.pending = Kept
               /\ \A event \in Kept : event.id < restored.nextId
<1> DEFINE chunk == call.staged["scheduler"]
           restored == RestoredScheduler(chunk)
           ids == {event.id + 1 : event \in Preserved} \union {chunk.nextId}
<1>1. /\ chunk \in SchedulerChunks /\ Preserved = Kept
      /\ Sched = call.entry.system.scheduler /\ Sched \in Schedulers
      /\ \A event \in Sched.pending : event.id < Sched.nextId
  BY DEF CheckpointInv, CheckpointTypes, RestoreInv, CutInv, IsCheckpoint, Systems, Sched
<1>2. Kept \subseteq Sched.pending /\ Kept \subseteq SchedulerEvents
  BY <1>1 DEF Kept, EntryEvents, Schedulers
<1>3. chunk.nextId \in Nat /\ chunk.now \in Nat /\ Sched.nextId \in Nat
  BY <1>1 DEF SchedulerChunks, Schedulers
<1>4. \A event \in Kept : event.id \in Nat /\ event.id + 1 <= Sched.nextId
  BY <1>1, <1>2, <1>3 DEF SchedulerEvents
<1> HIDE DEF chunk
<1>5. ids \in SUBSET Nat /\ chunk.nextId \in ids
      /\ \A id \in ids : id <= Sched.nextId + chunk.nextId
      /\ \A event \in Kept : event.id + 1 \in ids
  BY <1>1, <1>3, <1>4
<1>6. restored = [now |-> chunk.now, pending |-> Kept,
                  nextId |-> CHOOSE id \in ids : \A other \in ids : id >= other]
  BY <1>1 DEF RestoredScheduler
<1> HIDE DEF ids, restored
<1>7. \E id \in ids : \A other \in ids : id >= other
  <2>1. Sched.nextId + chunk.nextId \in Nat
    BY <1>3
  <2> QED BY <1>5, <2>1, NaturalMaximum, Zenon
<1>8. restored.nextId \in ids /\ \A other \in ids : restored.nextId >= other
  BY <1>6, <1>7
<1>9. restored \in Schedulers /\ restored.now = chunk.now /\ restored.pending = Kept
  <2>1. restored.nextId \in Nat /\ Kept \in SUBSET SchedulerEvents
    BY <1>2, <1>5, <1>8, Zenon
  <2> QED BY <1>3, <1>6, <2>1, Zenon DEF Schedulers
<1>10. \A event \in Kept : event.id < restored.nextId
  <2>1. restored.nextId \in Nat /\ \A event \in Kept : restored.nextId >= event.id + 1
    BY <1>5, <1>8, Zenon
  <2> QED BY <1>4, <2>1
<1> QED BY <1>9, <1>10 DEF restored, chunk


\* The banks are restored one after the other.
LEMMA RestoreStep ==
    ASSUME CheckpointInv, RestoreBank
    PROVE  CheckpointInv'
<1>0. /\ system \in Systems /\ stored \in ExecutorStores /\ call \in Calls
      /\ call.bank \in 1..4 /\ call.staged \in Registries
      /\ claims \in [control : SUBSET OwnedBy("Control"), wakes : SUBSET OwnedBy("Wake")]
      /\ call.kind = "Restore" /\ runner # "Half"
      /\ CheckpointTypes /\ CutInv /\ RestoreInv /\ RestoredInv
  <2>1. call.kind = "Restore" /\ call.bank <= 4
    BY BankNames DEF RestoreBank, AtBank
  <2> QED BY <2>1, CallFacts DEF CheckpointInv, CheckpointTypes
<1> DEFINE value == IF Bank = "scheduler" THEN RestoredScheduler(call.staged[Bank])
                                          ELSE call.staged[Bank]
<1>1. /\ call' = IF call.bank = 4 THEN [call EXCEPT !.kind = "Restored"] ELSE NextBank
      /\ Bank \in attached => system' = [system EXCEPT ![Bank] = value]
      /\ Bank \notin attached => UNCHANGED system
      /\ claims' = IF Bank = "scheduler" THEN [claims EXCEPT !.wakes = {}] ELSE claims
      /\ UNCHANGED <<schedulerLock, runner, nextToken, attached, stored>>
  BY BankNames DEF RestoreBank
<1>2. /\ call.bank = 1 => Bank = "core" /\ value = call.staged["core"]
      /\ call.bank = 2 => Bank = "scheduler"
                          /\ value = RestoredScheduler(call.staged["scheduler"])
      /\ call.bank = 3 => Bank = "memory" /\ value = call.staged["memory"]
      /\ call.bank = 4 => Bank = "uart" /\ value = call.staged["uart"]
  BY BankNames DEF Bank
<1>3. call.bank # 4 => Bank \in attached
  BY <1>0, <1>2 DEF CheckpointTypes
<1>4. IsCheckpoint(call.staged)
  BY <1>0 DEF RestoreInv
<1> HIDE DEF value
<1>5. /\ call' \in Calls /\ SameCall(call', call)
      /\ call'.staged = call.staged /\ call'.owned = call.owned
      /\ call.bank = 4 => call'.kind = "Restored"
      /\ call.bank # 4 => call'.kind = "Restore" /\ call'.bank = call.bank + 1
  <2>1. CASE call.bank = 4
    BY <1>0, <1>1, <2>1, KindMoves
  <2>2. CASE call.bank # 4
    BY <1>0, <1>1, <2>2, BankMoves
  <2> QED BY <2>1, <2>2
<1>6. claims' \in [control : SUBSET OwnedBy("Control"), wakes : SUBSET OwnedBy("Wake")]
      /\ claims'.control = claims.control
  BY <1>0, <1>1
<1>7. LockInv'
  BY <1>0, <1>1, <1>5, LockKept
<1>8. Kept' = Kept /\ EntryEvents' = EntryEvents /\ Preserved' = Preserved
      /\ call'.entry = call.entry /\ call'.label = call.label /\ call'.mode = call.mode
  BY <1>5, <1>6, SMTT(30) DEF Kept, EntryEvents, Preserved, SameCall
<1>9. /\ system' \in Systems
      /\ call.bank = 1 => system'.core = call.staged["core"]
      /\ call.bank # 1 => system'.core = system.core
      /\ call.bank = 2 => /\ system'.scheduler.now = call.staged["scheduler"].now
                          /\ system'.scheduler.pending = Kept
                          /\ \A event \in Kept : event.id < system'.scheduler.nextId
      /\ call.bank # 2 => system'.scheduler = system.scheduler
      /\ call.bank = 3 => system'.memory = call.staged["memory"]
      /\ call.bank # 3 => system'.memory = system.memory
      /\ call.bank = 4 /\ "uart" \in attached => system'.uart = call.staged["uart"]
  <2>1. CASE call.bank = 1
    BY <1>0, <1>1, <1>2, <1>3, <1>4, <2>1 DEF Systems, IsCheckpoint
  <2>2. CASE call.bank = 2
    <3>1. /\ value \in Schedulers /\ value.now = call.staged["scheduler"].now
          /\ value.pending = Kept /\ \A event \in Kept : event.id < value.nextId
      BY <1>0, <1>2, <2>2, SchedulerRestored
    <3> QED BY <1>0, <1>1, <1>2, <1>3, <2>2, <3>1, SMTT(30) DEF Systems
  <2>3. CASE call.bank = 3
    BY <1>0, <1>1, <1>2, <1>3, <1>4, <2>3 DEF Systems, IsCheckpoint
  <2>4. CASE call.bank = 4
    <3>1. value \in {0, NoChunk}
      BY <1>0, <1>2, <2>4 DEF Registries
    <3> QED BY <1>0, <1>1, <1>2, <2>4, <3>1 DEF Systems
  <2> QED BY <1>0, <2>1, <2>2, <2>3, <2>4
<1>10. CheckpointTypes'
  BY <1>0, <1>1, <1>5, <1>6, <1>9 DEF CheckpointTypes
<1>11. RestoredInv'
  <2>1. CASE call.bank = 1
    BY <1>5, <1>9, <2>1, SMTT(30) DEF RestoredInv, Restored
  <2>2. CASE call.bank = 2
    BY <1>0, <1>5, <1>8, <1>9, <2>2 DEF RestoredInv, Restored, Sched
  <2>3. CASE call.bank = 3
    BY <1>0, <1>5, <1>8, <1>9, <2>3 DEF RestoredInv, Restored, Sched
  <2>4. CASE call.bank = 4
    BY <1>0, <1>1, <1>5, <1>8, <1>9, <2>4 DEF RestoredInv, Restored, Sched
  <2> QED BY <1>0, <2>1, <2>2, <2>3, <2>4
<1>12. CutInv'
  <2>1. \A event \in Sched'.pending : event.id < Sched'.nextId
    BY <1>0, <1>9 DEF CutInv, Sched
  <2>2. ~(call'.kind = "Restore" /\ call'.bank \in {2, 3}) => system'.core + system'.memory = 1
    <3>1. CASE call.bank = 3
      <4>1. system'.core = call.staged["core"] /\ system'.memory = call.staged["memory"]
        BY <1>0, <1>9, <3>1 DEF RestoredInv, Restored
      <4> QED BY <1>4, <4>1 DEF IsCheckpoint
    <3>2. CASE call.bank = 4
      <4>1. system.core + system.memory = 1
        BY <1>0, <3>2 DEF CutInv
      <4>2. system'.core = system.core /\ system'.memory = system.memory
        BY <1>9, <3>2
      <4> QED BY <4>1, <4>2
    <3> QED BY <1>0, <1>5, <3>1, <3>2
  <2> QED BY <1>0, <1>1, <2>1, <2>2, SMTT(30) DEF CutInv
<1>13. RestoreInv'
  <2>1. call.bank = 1 => Sched' = call'.entry.system.scheduler /\ Preserved' = Kept'
    BY <1>0, <1>8, <1>9 DEF RestoreInv, Sched
  <2>2. call'.kind = "Restore" /\ call'.bank <= 2 => call.bank = 1
    BY <1>0, <1>5
  <2>3. /\ call'.kind \in {"Restore", "Restored"} /\ stored' = stored
        /\ call.staged = stored.manifests[call.label] /\ call.mode = call.staged["mode"]
        /\ stored.registry = call.staged /\ stored.mode = call.staged["mode"]
        /\ NoWork(EntryEvents) /\ NoWork(EntryEvents)' = NoWork(EntryEvents)
        /\ \A event \in Kept : event.tick >= call.staged["scheduler"].now
    BY <1>0, <1>1, <1>5, <1>8, SMTT(30) DEF RestoreInv, NoWork
  <2> QED BY <1>4, <1>5, <1>8, <2>1, <2>2, <2>3, Zenon DEF RestoreInv
<1>14. CaptureInv'
  BY <1>0, <1>5, SMTT(30) DEF CaptureInv
<1> QED BY <1>7, <1>10, <1>11, <1>12, <1>13, <1>14 DEF CheckpointInv

LEMMA ReturnStep ==
    ASSUME CheckpointInv, Return
    PROVE  CheckpointInv'
<1>0. /\ call.kind \in {"Captured", "Refused", "Restored"} /\ call \in Calls
      /\ CheckpointTypes /\ LockInv /\ CutInv
  BY CallFacts DEF Return, CheckpointInv
<1>1. /\ schedulerLock' = call.back /\ call' = [NoCall EXCEPT !.count = call.count]
      /\ UNCHANGED <<runner, system, claims, nextToken, attached, stored>>
  BY DEF Return
<1>2. call' \in IdleCalls /\ call'.kind = "Idle"
  BY <1>0, <1>1 DEF NoCall, IdleCalls, Calls
<1>3. CheckpointTypes' /\ LockInv' /\ CutInv'
  BY <1>0, <1>1, <1>2 DEF CheckpointTypes, LockInv, CutInv, Sched
<1> QED BY <1>2, <1>3 DEF CheckpointInv, CaptureInv, RestoreInv, RestoredInv, Restored

LEMMA CheckpointStep == CheckpointInv /\ [CheckpointNext]_checkpointVars => CheckpointInv'
<1> SUFFICES ASSUME CheckpointInv, [CheckpointNext]_checkpointVars PROVE CheckpointInv'
  OBVIOUS
<1>1. CASE CheckpointNext
  BY <1>1, OutsideStep, BeginStep, CaptureStep, ValidateStep, RestoreStep, ReturnStep,
     ZenonT(60) DEF CheckpointNext
<1>2. CASE UNCHANGED checkpointVars
  <2>1. UNCHANGED <<schedulerLock, runner, system, claims, nextToken, attached, stored, call>>
    BY <1>2, Zenon DEF checkpointVars
  <2>2. CheckpointTypes' /\ LockInv' /\ CutInv'
    BY <2>1 DEF CheckpointInv, CheckpointTypes, LockInv, CutInv, Sched
  <2>3. CaptureInv' /\ RestoredInv'
    BY <2>1 DEF CheckpointInv, CaptureInv, RestoredInv, Restored, NoWork, EntryEvents, Kept,
                Chunk, Sched
  <2>4. SchedulerValid' = SchedulerValid
    BY <2>1 DEF SchedulerValid, OwnedEvents, Claimed, Sched
  <2>5. RestoreInv'
    BY <2>1, <2>4 DEF CheckpointInv, RestoreInv, NoWork, EntryEvents, Kept, Preserved, Sched
  <2> QED BY <2>2, <2>3, <2>5, Zenon DEF CheckpointInv
<1> QED BY <1>1, <1>2

\* A checkpoint is a cut of the running system, for any labels, events and calls, and whatever
\* thread runs the scheduler meanwhile (apply, capture_attached_checkpoint_banks_into).
THEOREM CheckpointIsACut == CheckpointSpec => []ManifestIsACut
<1>1. CheckpointInv => ManifestIsACut
  BY DEF CheckpointInv, CutInv, ManifestIsACut, IsCheckpoint
<1> QED BY <1>1, CheckpointInitially, CheckpointStep, PTL DEF CheckpointSpec

\* A host action does all of its work or none, wherever a bank refuses and whatever is pending
\* (validate_checkpoint_banks, restore_checkpoint_banks, restore_checkpoint_projection).
THEOREM CheckpointAllOrNothing == CheckpointSpec => []RestoreAllOrNothing
<1>1. CheckpointInv => RestoreAllOrNothing
  <2> SUFFICES ASSUME CheckpointInv PROVE RestoreAllOrNothing
    OBVIOUS
  <2>1. call.kind = "Refused" =>
            Sched = call.entry.system.scheduler /\ stored = call.entry.stored
    BY SMTT(30) DEF CheckpointInv, RestoreInv, Sched
  <2>2. ASSUME call.kind = "Restored"
        PROVE  LET manifest == stored.manifests[call.label]
               IN  /\ stored.registry = manifest /\ stored.mode = manifest["mode"]
                   /\ \A component \in attached \ {"scheduler"} :
                         system[component] = manifest[component]
                   /\ Sched.now = manifest["scheduler"].now
                   /\ Sched.pending = {event \in call.entry.system.scheduler.pending :
                                           event.owner = "Control"}
                   /\ \A event \in Sched.pending :
                         event.tick >= Sched.now /\ event.id < Sched.nextId
    <3>1. /\ call.staged = stored.manifests[call.label]
          /\ stored.registry = call.staged /\ stored.mode = call.staged["mode"]
          /\ \A event \in Kept : event.tick >= call.staged["scheduler"].now
      BY <2>2 DEF CheckpointInv, RestoreInv
    <3>2. /\ Sched.now = call.staged["scheduler"].now /\ Sched.pending = Kept
          /\ system.core = call.staged["core"] /\ system.memory = call.staged["memory"]
          /\ "uart" \in attached => system.uart = call.staged["uart"]
      BY <2>2 DEF CheckpointInv, RestoredInv, Restored
    <3>3. \A event \in Sched.pending : event.id < Sched.nextId
      BY DEF CheckpointInv, CutInv
    <3>4. attached \subseteq {"core", "scheduler", "memory", "uart"}
      BY DEF CheckpointInv, CheckpointTypes
    <3>5. \A component \in attached \ {"scheduler"} : system[component] = call.staged[component]
      BY <3>2, <3>4, Zenon
    <3> QED BY <3>1, <3>2, <3>3, <3>5 DEF Kept, EntryEvents
  <2> QED BY <2>1, <2>2, Zenon DEF RestoreAllOrNothing
<1> QED BY <1>1, CheckpointInitially, CheckpointStep, PTL DEF CheckpointSpec

\* No checkpoint is taken and none restored while work of the components is pending, however
\* ids and ticks are given again (resolve_owned_events, validate_quiescent_capture).
THEOREM CheckpointWithoutWork == CheckpointSpec => []NoWorkInCheckpoint
<1>1. CheckpointInv => NoWorkInCheckpoint
  BY DEF CheckpointInv, CaptureInv, RestoreInv, NoWorkInCheckpoint, NoWork, EntryEvents
<1> QED BY <1>1, CheckpointInitially, CheckpointStep, PTL DEF CheckpointSpec


=============================================================================
