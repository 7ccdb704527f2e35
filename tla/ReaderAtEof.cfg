\* One byte is enough for the end of the stream to be met with data buffered.
CONSTANTS
    MAX_CHUNK_SIZE = 4
    CIPHERTEXT_OVERHEAD = 1
    HeaderLen = 1
    WireCap = 4
    MaxWritten = 1
    MaxFlushes = 1
SPECIFICATION FairSpec
PROPERTIES ReadReturns
CHECK_DEADLOCK FALSE
