CONSTANTS
    Forks = {f1, f2}
    Deferred = {f2}
    MaxBlock = 4
    UintMod = 8
    Requests <- MCRequests
SPECIFICATION FairSpec
INVARIANTS
    LogPartComplete
    AloneReadsAsked
    ArrayIsJson
PROPERTIES
    ReadsTheChain
    ReadingEnds
