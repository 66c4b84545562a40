SPECIFICATION CudaSpec
CONSTANTS
    Nodes = 4
    Sizes = {1, 3}
    Alignment = 2
INVARIANTS
    ReuseIsSafe
    DeviceOutputsIntact
