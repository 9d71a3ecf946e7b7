SPECIFICATION Spec
CONSTANTS
    Networks <- MCNetworks
    CommandLines <- MCCommandLines
    NumMod = 3
    NoArgs = none
INVARIANTS
    ActsInOrder
    OwnArguments
CHECK_DEADLOCK FALSE
