SPECIFICATION Spec

CONSTANTS
    l1 = l1
    l2 = l2
    Focus = {"bank"}
    BankLines <- TwoLines
    MaxRequests = 4
    FirstSequence = 100
    WriteEntries = 2
    BankOperations <- EveryOperation
    BankModes <- Modes
    None = None
    MshrEntries = 3
    TargetsPerMshr = 2
    DemandReserve = 1
    MshrRequests <- Misses
    QosClasses = {0, 255}
    MaxOrder = 3
    MaxMshrTick = 1
    TicksPerByte = 1
    LinkDelay = 2
    WireLengths = {1, 3}
    Variations = {0, 2}
    Quantum = 4
    MaxSync = 8
    InterruptLines = {1, 2}
    InterruptTargets = {"t"}
    RouteOf <- OneTarget
    NoInterrupt = 0
    Priorities = {0, 1, 2}
    SourceCounts = {1, 2}
    MaxRx = 2
    MaxSignals = 2
    TimerLine = 1
    SoftwareLine = 2
    ResetValues = {9, 99}
    NoReset = 99
    NoDeadline = 9
    MaxClintTick = 2
    MaxPrograms = 3
    MaxEdges = 2
    FabricLinks = {"a", "b"}
    VirtualNetworks = {0, 1}
    InputVcs = {"i1", "i2"}
    OutputPorts = {"o1"}
    NoStage = NoStage
    NoOverride = 99
    MaxFabricTick = 13
    FabricRequests <- Packets
    FabricPolicies = {"Fifo", "Lifo", "LeastRecentlyGranted"}
    MaxBatch = 3
    MaxTransfers = 3
    MaxInjection = 1
    MaxItems = 4
    MaxBatchTick = 1
    MaxMessages = 3
    MaxMessageTick = 2
    MaxDelta = 2
    WaitNodes = {1, 2, 3, 4}
    WaitKinds = {1}
    WatchdogLine = 1
    WatchClock = 2
    DefaultInterval = 9
    WatchLoads = {0, 1, 2}
    MaxWatchTick = 7
    MaxGeneration = 4
    MaxWatchEdges = 2
    SlotCount = 2
    Launches <- Kernels
    MaxWorkgroups = 4
    MaxRuns = 2
    MaxLaunchTick = 2
    QueueSize = 2
    IndexSpan = 8
    CheckpointLabels = {"checkpoint"}
    SwitchLabel = "execution-mode-switch"
    NoChunk = NoChunk
    MaxTokens = 2
    MaxEventTick = 1
    MaxCalls = 2
    ClockDomainIds = {1, 2, 3}
    PerformancePoints <- TwoLevels
    ClockDividers = {1, 3}
    MaxPeriod = 9

SYMMETRY LineSymmetry

INVARIANTS
    AnswersInProgramOrder

CHECK_DEADLOCK FALSE
