SPECIFICATION RunnerSpec
CONSTANTS
    Page = {p1, p2, p3}
    Id = {a, b}
    Token = {0, 1}
    BlockTokens = 2
    Context = 4
    CacheBlocks = 1
    Texts <- MCTexts
    MaxInput = 2
    ReserveTokens = {4}
SYMMETRY Symmetry
INVARIANT
    DeviceTablesCurrent
PROPERTY
    ImplementsPrivateHistories
