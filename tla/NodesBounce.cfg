SPECIFICATION Spec
CONSTANTS
    Networks <- MCNetworks
    CommandLines <- MCCommandLines
    NumMod = 3
    NoArgs = none
INVARIANT BounceGoesThrough
CHECK_DEADLOCK FALSE
