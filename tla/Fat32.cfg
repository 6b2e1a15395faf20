SPECIFICATION Spec
CONSTANTS
    Names = {"a", "d"}
    Inputs <- MCInputs
    MaxCluster = 5
    BytesPerCluster = 2
    EntriesPerCluster = 3
    MAX_HANDLES = 2
    MaxLen = 3
    ChunkLen = 3
    MaxDepth = 2
INVARIANTS ChainsSeparate SizeIsBacked
PROPERTIES LeaksOnlyWhenFull ImplementsFileTree
