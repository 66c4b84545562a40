CONSTANTS
    MaxSize = 1000
    SimdWidth = 2
    Slots = {1, 2}
    Capacity = 14
    ArenaAlignment = 4
    Shapes <- MCShapes
    ViewShapes <- MCViewShapes
    Narrows <- MCNarrows
    Slices <- MCSlices
    MaxDepth = 2
    Axes <- MCAxes
    Blocks <- MCBlocks
    Factors <- MCFactors
SPECIFICATION TensorsSpec
INVARIANTS
    BuffersApart
    TensorsReadTheirCells
    ElementsAgree
    ProductsAgree
