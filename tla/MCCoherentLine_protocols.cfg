SPECIFICATION Spec
CONSTANTS
    Agents = {a1, a2, a3}
    NumWords = 1
    NumValues = 2
    Operations = {"ReadShared", "LoadLocked", "ReadUnique", "Write", "StoreConditional", "Atomic"}
    NoAgent = NoAgent
    NoData = NoData
    NoGranule = NoGranule
    Harnesses <- Coherent
    SnapshotAgents = 2
INVARIANTS
    TypeOK
    SingleWriter
    DirectoryMatchesCaches
PROPERTIES
    ReservationSurvivesReads
    ImplementsLineMemory
