---------------------------- MODULE CoherentLine ----------------------------
(***************************************************************************)
(* One cache line behind any of the four protocols.  The data-cache        *)
(* runtime builds one line harness per line and lets the configured        *)
(* protocol choose which; the choice, and the agents the harness serves,   *)
(* never change afterwards.                                                *)
(*                                                                         *)
(* The properties here are what the harnesses have in common: the          *)
(* directory knows the copies, copies agree, LR/SC reservations follow the *)
(* copy they were taken on, and the line behaves as one line of the        *)
(* uncached LineMemoryStore.                                               *)
(***************************************************************************)
EXTENDS CacheLine, FiniteSets

CONSTANTS
    Harnesses,      \* [protocol, agents]: the harnesses to build
    SnapshotAgents  \* bound: a harness with more agents is not snapshotted

\* the data-cache protocols a harness can be built for
ASSUME HarnessAssumption ==
    Harnesses \subseteq [protocol : {"MSI", "MESI", "MOESI", "CHI"}, agents : SUBSET Agents]

VARIABLES protocol, agents, caches, directory, backing, response, saved

vars == <<protocol, agents, caches, directory, backing, response, saved>>

Msi == INSTANCE MsiLine
Mesi == INSTANCE MesiLine
Moesi == INSTANCE MoesiLine
Chi == INSTANCE ChiLine

Init ==
    /\ \E h \in Harnesses : protocol = h.protocol /\ agents = h.agents
    /\ CASE protocol = "MSI" -> Msi!Init
         [] protocol = "MESI" -> Mesi!Init
         [] protocol = "MOESI" -> Moesi!Init
         [] protocol = "CHI" -> Chi!Init

Next ==
    /\ \/ protocol = "MSI" /\ Msi!Next
       \/ protocol = "MESI" /\ Mesi!Next
       \/ protocol = "MOESI" /\ Moesi!Next
       \/ protocol = "CHI" /\ Chi!Next
    /\ UNCHANGED protocol

Spec == Init /\ [][Next]_vars

-----------------------------------------------------------------------------
\* Between two calls of submit_cpu_request every controller is in a stable state, so no request
\* met LineBusy, no event was refused by the protocol, and no directory decision failed.  A
\* controller has data exactly with a copy, and a reservation never outlives the copy it was
\* taken on, so a store-conditional cannot succeed on a line another agent has written since.
TypeOK ==
    /\ CASE protocol = "MSI" -> Msi!TypeOK
         [] protocol = "MESI" -> Mesi!TypeOK
         [] protocol = "MOESI" -> Moesi!TypeOK
         [] protocol = "CHI" -> Chi!TypeOK
    /\ \A a \in Agents :
          /\ caches[a].data = NoData <=> caches[a].state = "Invalid"
          /\ caches[a].reservation # NoGranule => caches[a].state # "Invalid"

\* DirectoryLineSnapshot::validate of each protocol: at most one cache may write the line, and
\* (MSI, MESI, CHI) no other cache holds a copy then, however hits, misses, snoops and
\* restores follow each other.
SingleWriter ==
    CASE protocol = "MSI" -> Msi!SingleWriter
      [] protocol = "MESI" -> Mesi!SingleWriter
      [] protocol = "MOESI" -> Moesi!AtMostOneOwner
      [] protocol = "CHI" -> Chi!SingleUniqueOwner

\* The directory's entry names exactly the copies that exist, so no copy is out of an
\* invalidation's reach, and what it says of their states is what a silent write can explain.
DirectoryMatchesCaches ==
    CASE protocol = "MSI" -> Msi!DirectoryMatchesCaches
      [] protocol = "MESI" -> Mesi!DirectoryMatchesCaches
      [] protocol = "MOESI" -> Moesi!DirectoryKnowsHolders
      [] protocol = "CHI" -> Chi!DirectoryMatchesCaches

\* No two copies of the line differ: whoever reads the line, hit or miss, reads the same data.
CopiesAgree ==
    \A a, b \in Agents :
        caches[a].data # NoData /\ caches[b].data # NoData => caches[a].data = caches[b].data

\* MoesiDirectoryLineSnapshot::validate: a Modified or Exclusive copy is the only copy of the
\* line, also after an Owned owner upgraded to write again.
NoWriterBesideSharers == protocol = "MOESI" => Moesi!NoWriterBesideSharers

\* An agent loses its reservation only to a request with write intent or to a restore: the
\* reads, load-locked reads and prefetches of other agents leave an LR/SC sequence alone.
ReservationSurvivesReads ==
    [][ \A a \in Agents :
          caches[a].reservation # NoGranule /\ caches'[a].reservation = NoGranule
              => response'.op \in WriteOperations \/ caches' = saved.caches ]_vars

-----------------------------------------------------------------------------
Memory == INSTANCE LineMemory WITH
    MayLose <- TRUE,
    memory <- Mesi!LineOf(caches, backing),
    reservations <- [a \in Agents |-> caches[a].reservation],
    saved <- [memory |-> Mesi!LineOf(saved.caches, saved.backing), response |-> saved.response]

\* Every step of an MSI (two agents), MESI or CHI line is a step of the uncached store or leaves
\* it alone: reads return the last write, atomics are atomic, a successful store-conditional
\* had its reservation, and a restored snapshot brings back the data of the time it was taken.
ImplementsLineMemory ==
    [][protocol # "MOESI" => Memory!MemoryNext \/ UNCHANGED Memory!memoryVars]_vars
=============================================================================
