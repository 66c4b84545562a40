SPECIFICATION Spec
CONSTANTS
    Page = {p1, p2, p3}
    Id = {a, b}
    Token = {0, 1}
    BlockTokens = 2
    Context = 4
    CacheBlocks = 2
    Texts <- MCTexts
    MaxInput = 2
    ReserveTokens = {1, 4}
SYMMETRY Symmetry
INVARIANTS
    TypeOK
    RefsCountLeases
    IndexHoldsItsHistory
    ReservationsHonoured
PROPERTY
    ImplementsPrivateHistories
