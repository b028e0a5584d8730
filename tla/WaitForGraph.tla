---------------------------- MODULE WaitForGraph ----------------------------
(***************************************************************************)
(* The wait-for graph and its deadlock diagnostic: a depth-first search    *)
(* that stops at the first cycle.  Nodes are numbers, in the order of      *)
(* their labels; the ticks of the edges are left out.                      *)
(***************************************************************************)
EXTENDS Naturals, SequencesExt

CONSTANTS
    WaitNodes,   \* a set of naturals
    WaitKinds    \* WaitForEdgeKind, numbered in its order

VARIABLE waitEdges   \* the keys of WaitForGraph::edges: [source, target, kind]

WaitInit == waitEdges = {}

\* record_wait; a wait of a node on itself is refused
RecordWait(source, target, kind) ==
    /\ source # target
    /\ waitEdges' = waitEdges \union {[source |-> source, target |-> target, kind |-> kind]}

RemoveWait(edge) == waitEdges' = waitEdges \ {edge}

ClearWaitsFrom(node) == waitEdges' = {e \in waitEdges : e.source # node}

ClearWaitsTo(node) == waitEdges' = {e \in waitEdges : e.target # node}

WaitNext ==
    \/ \E source, target \in WaitNodes, kind \in WaitKinds : RecordWait(source, target, kind)
    \/ \E edge \in waitEdges : RemoveWait(edge)
    \/ \E node \in WaitNodes : ClearWaitsFrom(node) \/ ClearWaitsTo(node)

-----------------------------------------------------------------------------
\* dependencies, in the order of the edge keys
Dependencies(node) ==
    SetToSortSeq({e \in waitEdges : e.source = node},
                 LAMBDA e, f : \/ e.target < f.target
                               \/ e.target = f.target /\ e.kind < f.kind)

\* mutant: the cycle starts where the search did
MutantCycleFrom(path, index) == path

\* path_edges[index..]
CycleFrom(path, index) == SubSeq(path, index, Len(path))

\* find_cycle_from: the cycle, empty if there is none, and the nodes finished.  The path is the
\* sequence of edges from the node the search started at; "edges" are those still to follow.
RECURSIVE FindCycle(_, _, _), FollowEdges(_, _, _, _)
FindCycle(node, path, finished) ==
    IF node \in finished
      THEN [cycle |-> <<>>, finished |-> finished]
      ELSE FollowEdges(node, Dependencies(node), path, finished)

FollowEdges(node, edges, path, finished) ==
    LET edge == Head(edges)
        nodes == [i \in DOMAIN path |-> path[i].source] \o <<node>>
        deeper == FindCycle(edge.target, Append(path, edge), finished)
    IN  CASE edges = <<>> -> [cycle |-> <<>>, finished |-> finished \union {node}]
          [] edges # <<>> /\ Contains(nodes, edge.target) ->
                [cycle |-> Append(CycleFrom(path, CHOOSE i \in DOMAIN nodes :
                                                      nodes[i] = edge.target), edge),
                 finished |-> finished]
          [] edges # <<>> /\ ~Contains(nodes, edge.target) ->
                IF deeper.cycle # <<>>
                  THEN deeper
                  ELSE FollowEdges(node, Tail(edges), path, deeper.finished)

\* deadlock_diagnostic
DeadlockDiagnostic ==
    LET nodes == {e.source : e \in waitEdges} \union {e.target : e \in waitEdges}
        Visit(found, node) ==
            IF found.cycle # <<>> THEN found ELSE FindCycle(node, <<>>, found.finished)
    IN  FoldLeft(Visit, [cycle |-> <<>>, finished |-> {}], SetToSortSeq(nodes, <)).cycle

-----------------------------------------------------------------------------
\* some nodes all wait on each other: every one of them waits on one of them
Deadlocked ==
    \E nodes \in SUBSET WaitNodes \ {{}} :
        \A node \in nodes : \E e \in waitEdges : e.source = node /\ e.target \in nodes

\* The diagnostic reports a deadlock exactly when some nodes all wait on each other, and what
\* it reports is a cycle of recorded waits through distinct nodes, whatever waits were recorded
\* and removed before, and wherever the search met the cycle.
DiagnosticExact ==
    LET cycle == DeadlockDiagnostic
    IN  /\ cycle # <<>> <=> Deadlocked
        /\ \A i \in DOMAIN cycle :
               /\ cycle[i] \in waitEdges
               /\ cycle[i].target = cycle[(i % Len(cycle)) + 1].source
               /\ \A j \in DOMAIN cycle : i # j => cycle[i].source # cycle[j].source
=============================================================================
