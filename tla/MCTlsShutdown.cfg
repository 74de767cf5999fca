\* The client shuts down as soon as it has sent and read everything.
CONSTANTS
    Lists = {"bufs", "input", "output", "result", "all"}
    Bufs = {b1, b2, b3, b4, b5, b6, b7, b8, b9, b10, b11, b12}
    Null = Null
    Cap = 2
    Plain <- MCPlain
    MaxRecord = 3
    LastWords = {"server"}
    Ends = {"shutdown", "hangup"}
    Uses = {}
SPECIFICATION FairSpec
PROPERTIES
    ShutdownSucceeds
CHECK_DEADLOCK FALSE
