CONSTANTS
    MaxSize = 1000
    CpuOps = {"Add", "Multiply", "Subtract", "MatMul", "Gemm", "FusedGemmActivation", "ReLU", "Tanh", "GELU", "Softmax", "LayerNorm"}
    Files <- MCFiles
    Passes = {"noop", "fold", "eliminate", "canonicalize", "fuse"}
    MaxPasses = 3
SPECIFICATION Spec
CHECK_DEADLOCK FALSE
INVARIANTS
    ImportsTheModel
    PassesKeepTheModel
    OnePassIsEnough
    PreparedRunAgrees
