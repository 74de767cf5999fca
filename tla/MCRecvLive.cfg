\* Two streams compete for a ring with a single buffer, and may move to another
\* ring.  No symmetry: the property is temporal.
CONSTANTS
    Streams = {s1, s2}
    Groups = {g1, g2}
    NumBufs = 1
    MaxData = 1
    Uses = {}
SPECIFICATION FairSpec
PROPERTIES
    EverythingIsReceived
CHECK_DEADLOCK FALSE
