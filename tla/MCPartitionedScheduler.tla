------------------------ MODULE MCPartitionedScheduler ------------------------
(* Instances of PartitionedScheduler for TLC: the calls each run lets the  *)
(* client and the callbacks make.                                          *)
EXTENDS PartitionedSchedulerProofs

\* Parallel epochs, with and without limit, and panicking workers
EpochCalls == {"Parallel", "parallel", "parallel_until_idle", "panic"}

\* Single events under a plan the client holds, stale plans included; serial epochs that may
\* meet a parallel event
MixedCalls == {"Serial", "Parallel", "cancel", "plan", "mixed", "panic",
               "parallel", "epoch"}

\* Serial execution, rescheduling, checkpoints taken and restored, also from a callback
TimelineCalls == {"Serial", "after", "snapshot", "restore", "projection", "discard",
                  "until_idle", "epoch", "conservative",
                  "reschedule", "restore_in_callback", "discard_in_callback"}
===============================================================================
