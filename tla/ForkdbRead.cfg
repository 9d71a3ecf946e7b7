SPECIFICATION FairSpec
CONSTANTS
    MaxSize = 4
    FirstNum = 2
    UintMod = 16
    Databases <- MCDatabases
    Requests <- MCRequests
INVARIANT RangeRead
PROPERTIES
    ReadsTheChain
    ReadingEnds
