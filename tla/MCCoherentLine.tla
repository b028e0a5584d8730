--------------------------- MODULE MCCoherentLine ---------------------------
(* The harnesses TLC builds. *)
EXTENDS CoherentLine

OfSize(n) == CHOOSE s \in SUBSET Agents : Cardinality(s) = n

Harness(p, n) == [protocol |-> p, agents |-> OfSize(n)]

\* every protocol with two agents, and with three where a third reader is served fresh data
Coherent ==
    {Harness(p, 2) : p \in {"MSI", "MESI", "MOESI", "CHI"}}
        \union {Harness(p, 3) : p \in {"MESI", "MOESI", "CHI"}}

ThreeMsiAgents == {Harness("MSI", 3)}

TwoMoesiAgents == {Harness("MOESI", 2)}
=============================================================================
