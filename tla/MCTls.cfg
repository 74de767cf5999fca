\* The client sends three cells in records of up to three, the server one; buffers
\* of two cells, so that records begin and end within buffers.  The connection may
\* break at any moment.
CONSTANTS
    Lists = {"bufs", "input", "output", "result", "all"}
    Bufs = {b1, b2, b3, b4, b5, b6, b7, b8, b9, b10, b11, b12}
    Null = Null
    Cap = 2
    Plain <- MCPlain
    MaxRecord = 3
    LastWords = {"client", "server"}
    Ends = {"shutdown", "hangup"}
    Uses = {"reset"}
SPECIFICATION FairSpec
INVARIANTS
    BuffersSound
PROPERTIES
    RefinesChannel
    SessionEnds
CHECK_DEADLOCK FALSE
