SPECIFICATION FilesSpec
CONSTANTS
    Tools = {t1, t2}
    None = None
    MaxStops = 3
INVARIANTS
    AloneSucceeds
    AlonePrintsCurrent
PROPERTIES
    OriginalKept
