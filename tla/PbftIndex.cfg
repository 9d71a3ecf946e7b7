SPECIFICATION Spec
CONSTANTS
    States <- MCStates
    Dumps <- MCDumps
INVARIANTS
    TypeOK
    OneVersionOrNothing
    AloneReads
