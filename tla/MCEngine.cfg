SPECIFICATION FairSpec
CONSTANTS
    Id = {"long", "chat", "huge"}
    Prompt <- MCPrompt
    MaxNew <- MCMaxNew
    TotalPages = 4
    BlockTokens = 2
    MaxBatchSize = 2
    TokenBudget = 2
    PrefillChunk = 2
    Held = {0, 3}
INVARIANTS
    KVMatchesHistory
    ReservationsCoverRequests
PROPERTIES
    ImplementsGenerationService
    EveryRequestEnds
