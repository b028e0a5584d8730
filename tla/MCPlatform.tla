------------------------------ MODULE MCPlatform -----------------------------
(***************************************************************************)
(* Small instances of the platform's components for TLC.                   *)
(***************************************************************************)
EXTENDS Platform

CONSTANTS l1, l2

-----------------------------------------------------------------------------
\* the cache bank: with and without miss queue and replacement directory
TwoLines == {l1, l2}

Modes == {[mshr |-> TRUE, ways |-> 0], [mshr |-> TRUE, ways |-> 1], [mshr |-> FALSE, ways |-> 0]}

EveryOperation == [op : {"ReadShared", "Write", "Atomic"}, uncacheable : BOOLEAN]

NoCacheableAtomic == EveryOperation \ {[op |-> "Atomic", uncacheable |-> FALSE]}

-----------------------------------------------------------------------------
\* the miss queue: plain misses of two lines, and a strict and an uncacheable one
Miss(line, uncacheable, strict) ==
    [line |-> line, uncacheable |-> uncacheable, strict |-> strict,
     before |-> FALSE, after |-> FALSE]

Misses ==
    {Miss(1, FALSE, FALSE), Miss(2, FALSE, FALSE), Miss(1, FALSE, TRUE), Miss(1, TRUE, FALSE)}

-----------------------------------------------------------------------------
OneTarget == [l \in InterruptLines |-> "t"]

-----------------------------------------------------------------------------
\* the fabric: two links, the second behind a router with two inputs and one output
Stage(input, latency) == [input |-> input, output |-> "o1", latency |-> latency]

Hop(link, latency, bandwidth, credits, vnet, stage) ==
    [link |-> link, latency |-> latency, bandwidth |-> bandwidth, credits |-> credits,
     vnet |-> vnet, stage |-> stage]

TwoCredits == Hop("a", 3, 1, 2, NoOverride, NoStage)
OneCredit  == Hop("b", 1, 1, 1, 0, Stage("i1", 1))
Unlimited  == Hop("b", 1, 2, NoCredit, NoOverride, Stage("i2", 5))

Packet(bytes, vnet, path, requestor, priority, strict) ==
    [bytes |-> bytes, vnet |-> vnet, path |-> path, requestor |-> requestor,
     priority |-> priority, strict |-> strict, before |-> FALSE, after |-> FALSE]

Packets ==
    {Packet(1, 0, <<TwoCredits>>, 1, 0, FALSE),
     Packet(1, 0, <<TwoCredits, OneCredit>>, 2, 0, FALSE),
     Packet(2, 1, <<Unlimited>>, 2, 1, TRUE),
     Packet(2, 1, <<TwoCredits>>, 1, 0, FALSE)}

-----------------------------------------------------------------------------
\* the GPU: a kernel that fits the slots and one that has to queue
Kernels == {[workgroups |-> 1, latency |-> 1], [workgroups |-> 3, latency |-> 2]}

-----------------------------------------------------------------------------
\* the clocks: with three domains one below the other the slow level may not fit MaxPeriod
TwoLevels == {<<1, 2>>}

-----------------------------------------------------------------------------
LineSymmetry == Permutations(TwoLines)
=============================================================================
