SPECIFICATION RuntimeSpec
CONSTANTS
    Buffers = {{1}, {1, 2}}
    Size <- Cardinality
    MaxOps = 3
    Host = Host
CHECK_DEADLOCK FALSE
INVARIANTS
    StagesNotShared
    OperandsHeld
    DownloadsInOrder
PROPERTIES
    SynchronizeTellsAll
