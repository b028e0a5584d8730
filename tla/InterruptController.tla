------------------------- MODULE InterruptController ------------------------
(***************************************************************************)
(* The interrupt controller as a value: its methods are operators from a   *)
(* controller to a controller.  Lines are numbers; every line has one      *)
(* route, fixed when the platform is built.  The history of events is a    *)
(* log and is left out.                                                    *)
(***************************************************************************)
EXTENDS Naturals, FiniteSets

CONSTANTS
    InterruptLines,    \* the registered lines
    InterruptTargets,  \* the (target, target_partition) pairs lines are routed to
    RouteOf,           \* line -> target
    NoInterrupt        \* no source, or no claimed line

ASSUME RouteAssumption ==
    /\ InterruptLines \subseteq Nat \ {0} /\ IsFiniteSet(InterruptLines)
    /\ RouteOf \in [InterruptLines -> InterruptTargets]
    /\ NoInterrupt \notin InterruptLines

DefaultPriority == 1

\* register_route of every line
NewController ==
    [priority |-> [l \in InterruptLines |-> DefaultPriority],
     pending |-> [l \in InterruptLines |-> NoInterrupt],
     claimed |-> [t \in InterruptTargets |-> NoInterrupt]]

SetPriority(c, line, priority) == [c EXCEPT !.priority[line] = priority]

\* assert and deassert; where the guard fails the method returns an error and changes nothing
Pending(c, line) == c.pending[line] # NoInterrupt

AssertLine(c, line, source) ==
    IF Pending(c, line) THEN c ELSE [c EXCEPT !.pending[line] = source]

DeassertLine(c, line, source) ==
    IF c.pending[line] = source THEN [c EXCEPT !.pending[line] = NoInterrupt] ELSE c

\* apply_delivery; the port was built for the line's registered route
ApplyDelivery(c, line, source, kind) ==
    IF kind = "Assert" THEN AssertLine(c, line, source) ELSE DeassertLine(c, line, source)

\* the order of min_by_key (Reverse(priority), line)
Precedes(c, line, other) ==
    \/ c.priority[line] > c.priority[other]
    \/ c.priority[line] = c.priority[other] /\ line <= other

\* "accepted" are the lines that pass the caller's filter
Claimable(c, target, accepted) ==
    {l \in accepted : /\ Pending(c, l)
                      /\ RouteOf[l] = target
                      /\ c.priority[l] > 0}

First(c, candidates) ==
    IF candidates = {}
      THEN NoInterrupt
      ELSE CHOOSE l \in candidates : \A other \in candidates : Precedes(c, l, other)

\* peek_claimable
PeekClaimable(c, target) == First(c, Claimable(c, target, InterruptLines))

\* claim_filtered: the line returned, and the controller after it
ClaimedLine(c, target, accepted) ==
    IF c.claimed[target] # NoInterrupt
      THEN c.claimed[target]
      ELSE First(c, Claimable(c, target, accepted))

ClaimFiltered(c, target, accepted) ==
    LET line == ClaimedLine(c, target, accepted)
    IN  IF c.claimed[target] # NoInterrupt \/ line = NoInterrupt
          THEN c
          ELSE [c EXCEPT !.pending[line] = NoInterrupt, !.claimed[target] = line]

Complete(c, target, line) ==
    IF c.claimed[target] = line THEN [c EXCEPT !.claimed[target] = NoInterrupt] ELSE c

\* validate_snapshot of the snapshot the controller takes of itself: the routes, the priorities
\* and the keys of the maps are right by construction, which leaves the last check on claims
ValidSnapshot(c) ==
    \A t \in InterruptTargets :
        c.claimed[t] # NoInterrupt => ~Pending(c, c.claimed[t])
=============================================================================
