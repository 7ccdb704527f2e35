\* Chunks of up to two bytes: the cleartext buffer has no room for a second
\* one, and with empty chunks behind it the ciphertext buffer is full.
CONSTANTS
    MAX_CHUNK_SIZE = 4
    CIPHERTEXT_OVERHEAD = 1
    HeaderLen = 1
    WireCap = 4
    MaxWritten = 4
    MaxFlushes = 2
SPECIFICATION FairSpec
INVARIANTS TypeOK BytesConserved WrapNeverPanics FalseMeansData
PROPERTIES ImplementsPipe FlushedArrives
CHECK_DEADLOCK FALSE
