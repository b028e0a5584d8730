SPECIFICATION Spec
CONSTANTS
    N = 2
    min_remote_delay = 2
    max_parallel_workers = 2
    TickMax = 9
    MaxEvents = 2
    Delays = {2}
    ClientTicks = {0, 1, 3}
    Calls <- EpochCalls
INVARIANTS
    UntilIdleMeansIdle
