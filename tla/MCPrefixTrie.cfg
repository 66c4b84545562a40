SPECIFICATION TrieSpec
CONSTANTS
    NodeId = {n1, n2, n3, n4, n5}
    Root = root
    None = none
    Page = {p1, p2}
    BlockTokens = 2
    CacheBlocks = 2
    Texts <- MCTexts
SYMMETRY Symmetry
INVARIANT
    PointersStayLive
PROPERTY
    ImplementsPrefixIndex
