------------------------------- MODULE Platform ------------------------------
(***************************************************************************)
(* The devices and interconnects around the scheduler, side by side.  In   *)
(* the program they share no state: each is its own object behind its own  *)
(* lock, and meets the others through scheduled events.  A behaviour       *)
(* follows one of them, the focus, through all of its steps while the      *)
(* others stay as they were built.                                         *)
(***************************************************************************)
EXTENDS CacheBank, MshrIssue, DistributedLink, UartInterrupts, ClintTimer, FabricTraffic,
        TargetBatches, MessageBuffer, WaitForGraph, Sp805Watchdog, GpuSlots, SplitQueue,
        SystemCheckpoint, ClockDomains

CONSTANT Focus   \* the components to follow

VARIABLE focus

Components ==
    {"bank", "misses", "link", "uart", "clint", "fabric", "batches", "buffer", "waits",
     "watchdog", "gpu", "virtio", "checkpoint", "clocks"}

ASSUME FocusAssumption == Focus \subseteq Components

\* a component that is not followed is built in one of its configurations
BuiltOneWay ==
    /\ focus # "bank" => mode = CHOOSE m \in BankModes : TRUE
    /\ focus # "uart" => claimDevice = "Plic" /\ sourceCount = CHOOSE n \in SourceCounts : TRUE
    /\ focus # "clint" => timebase = "RtcDriven" /\ resetPolicy = NoReset
    /\ focus # "fabric" => arbiters["Request"].policy = CHOOSE p \in FabricPolicies : TRUE
    /\ focus # "buffer" => bufferConfig = [strict |-> TRUE, zero |-> FALSE]
    /\ focus # "virtio" => eventIndex

Init ==
    /\ focus \in Focus
    /\ BankInit /\ MshrInit /\ LinkInit /\ UartInit /\ ClintInit /\ FabricInit /\ BatchInit
    /\ BufferInit /\ WaitInit /\ WatchInit /\ GpuInit /\ SplitInit /\ CheckpointInit
    /\ ClockDomainsInit
    /\ BuiltOneWay

\* what the steps of the component leave alone
Others(component) ==
    /\ UNCHANGED focus
    /\ component # "bank" => UNCHANGED bankVars
    /\ component # "misses" => UNCHANGED mshrVars
    /\ component # "link" => UNCHANGED linkVars
    /\ component # "uart" => UNCHANGED uartVars
    /\ component # "clint" => UNCHANGED clintVars
    /\ component # "fabric" => UNCHANGED fabricVars
    /\ component # "batches" => UNCHANGED batchVars
    /\ component # "buffer" => UNCHANGED messageVars
    /\ component # "waits" => UNCHANGED waitEdges
    /\ component # "watchdog" => UNCHANGED watchVars
    /\ component # "gpu" => UNCHANGED gpuVars
    /\ component # "virtio" => UNCHANGED splitVars
    /\ component # "checkpoint" => UNCHANGED checkpointVars
    /\ component # "clocks" => UNCHANGED clockVars

Next ==
    \/ focus = "bank" /\ BankNext /\ Others("bank")
    \/ focus = "misses" /\ MshrNext /\ Others("misses")
    \/ focus = "link" /\ LinkNext /\ Others("link")
    \/ focus = "uart" /\ UartNext /\ Others("uart")
    \/ focus = "clint" /\ ClintNext /\ Others("clint")
    \/ focus = "fabric" /\ FabricNext /\ Others("fabric")
    \/ focus = "batches" /\ BatchNext /\ Others("batches")
    \/ focus = "buffer" /\ BufferNext /\ Others("buffer")
    \/ focus = "waits" /\ WaitNext /\ Others("waits")
    \/ focus = "watchdog" /\ WatchNext /\ Others("watchdog")
    \/ focus = "gpu" /\ GpuNext /\ Others("gpu")
    \/ focus = "virtio" /\ SplitNext /\ Others("virtio")
    \/ focus = "checkpoint" /\ CheckpointNext /\ Others("checkpoint")
    \/ focus = "clocks" /\ ClockNext /\ Others("clocks")

platformVars ==
    <<focus, bankVars, mshrVars, linkVars, uartVars, clintVars, fabricVars, batchVars,
      messageVars, waitEdges, watchVars, gpuVars, splitVars, checkpointVars,
      clockVars>>

Spec == Init /\ [][Next]_platformVars
=============================================================================
