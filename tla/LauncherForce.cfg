SPECIFICATION Spec
CONSTANTS
    None = None
    Nodes = {r1}
    RemoteNodes = {r1}
    MaxRuns = 2
PROPERTIES ForceGuardsConfig
CHECK_DEADLOCK FALSE
