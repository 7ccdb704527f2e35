\* As Session.cfg.
CONSTANTS
    Paths <- MCPaths
    Offers <- MCOffers
    Befores <- MCBefores
    MaxSize = 2
    ChunkSize = 1
    PipeCap = 2
    MaxLines = 2
    None = None
    Absent = Absent
SPECIFICATION Spec
INVARIANTS OptionTwoAcceptsNewOnly
CHECK_DEADLOCK FALSE
