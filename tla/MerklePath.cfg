SPECIFICATION Spec
CONSTANTS
    BaseDepth = 3
    ChainLength = 30
    FirstAnchor = 1
    LastAnchor = 30
    FirstFrom = 0
INVARIANTS
    PathVerifies
    PathExact
    ReadsInChain
    TreesVerify
