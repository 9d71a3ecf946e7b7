SPECIFICATION Spec
CONSTANTS
    None = None
    Nodes = {l1, r1}
    RemoteNodes = {r1}
    MaxRuns = 3
INVARIANTS
    TypeOK
    LastRunCoversItsRun
    
    KeysMatch
PROPERTIES
    KillStaysInMode
    ForceGuardsSeen
CHECK_DEADLOCK FALSE
