SPECIFICATION Spec
CONSTANTS
    Blocks = 4
    BlockSize = 2
    Vocabulary = 2
    Above <- MCAbove
    Ids = 3
    Prompts <- MCPrompts
    Outputs = {2, 6}
    MaxBatchSize = 3
    TokenBudgets = {2, 4}
    ChunkSize = 3
INVARIANTS
    BlocksAccounted
    PrefixesIntact
    DeliveredAsAlone
PROPERTY
    ScheduleEnds
CHECK_DEADLOCK FALSE
