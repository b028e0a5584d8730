SPECIFICATION Spec
CONSTANTS
    N = 2
    min_remote_delay = 2
    max_parallel_workers = 1
    TickMax = 7
    MaxEvents = 2
    Delays = {2}
    ClientTicks = {0, 1}
    Calls <- MixedCalls
INVARIANTS
    IInv
PROPERTIES
    NoRemoteLost
    TokenNamesOneEvent
