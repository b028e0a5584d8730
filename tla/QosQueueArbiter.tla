--------------------------- MODULE QosQueueArbiter --------------------------
(***************************************************************************)
(* The arbiter of a queue of requests as a value [policy, lrg].  A queued  *)
(* request is a record with fields requestor, priority and order; queues   *)
(* are sequences, and priority 0 is served first.                          *)
(***************************************************************************)
EXTENDS Naturals, SequencesExt

NewArbiter(policy) == [policy |-> policy, lrg |-> <<>>]

\* the indexes of the requests of the highest priority
HighestPriority(queue) ==
    {i \in DOMAIN queue : \A j \in DOMAIN queue : queue[i].priority <= queue[j].priority}

FifoGrant(queue) ==
    CHOOSE i \in HighestPriority(queue) : \A j \in HighestPriority(queue) :
        \/ queue[i].order < queue[j].order
        \/ queue[i].order = queue[j].order /\ i <= j

LifoGrant(queue) ==
    CHOOSE i \in HighestPriority(queue) : \A j \in HighestPriority(queue) :
        \/ queue[i].order > queue[j].order
        \/ queue[i].order = queue[j].order /\ i >= j

RegisterRequestors(lrg, queue) ==
    FoldLeft(LAMBDA known, request : IF Contains(known, request.requestor)
                                       THEN known
                                       ELSE Append(known, request.requestor),
             lrg, queue)

\* the least recently granted requestor with a request of the highest priority: its first one
LrgGrant(lrg, queue) ==
    LET Position(i) == CHOOSE n \in DOMAIN lrg : lrg[n] = queue[i].requestor
    IN  CHOOSE i \in HighestPriority(queue) : \A j \in HighestPriority(queue) :
            \/ Position(i) < Position(j)
            \/ Position(i) = Position(j) /\ i <= j

RotateAfterGrant(lrg, requestor) == Append(SelectSeq(lrg, LAMBDA r : r # requestor), requestor)

\* grant of a queue that is not empty: the index granted, and the arbiter after it
GrantIndex(arbiter, queue) ==
    CASE arbiter.policy = "Fifo" -> FifoGrant(queue)
      [] arbiter.policy = "Lifo" -> LifoGrant(queue)
      [] arbiter.policy = "LeastRecentlyGranted" ->
            LrgGrant(RegisterRequestors(arbiter.lrg, queue), queue)

ArbiterAfter(arbiter, queue) ==
    IF arbiter.policy = "LeastRecentlyGranted"
      THEN [arbiter EXCEPT !.lrg =
               RotateAfterGrant(RegisterRequestors(@, queue),
                                queue[GrantIndex(arbiter, queue)].requestor)]
      ELSE arbiter
=============================================================================
