\* A chunk is full with one byte, which the next one pushes out, and two bytes
\* are under way at most: the sender has to wait for the receiver. Two lines each way.
CONSTANTS
    Paths <- MCPaths
    Offers <- MCOffers
    Befores <- MCBefores
    MaxSize = 2
    ChunkSize = 1
    PipeCap = 2
    MaxLines = 2
    None = None
    Absent = Absent
SPECIFICATION FairSpec
INVARIANTS TypeOK SavedIsPrefix FilesIntact ChatFaithful
PROPERTIES SendEnds ReceiveEnds LinesArrive
CHECK_DEADLOCK FALSE
