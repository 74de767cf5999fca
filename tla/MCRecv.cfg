\* Two streams share a ring; one of them may be cancelled, both destroyed with
\* data unread.
CONSTANTS
    Streams = {s1, s2}
    Groups = {g1}
    NumBufs = 2
    MaxData = 2
    Uses = {"drop", "cancel"}
SYMMETRY Symmetry
SPECIFICATION Spec
INVARIANTS
    BuffersSound
    ReaderIsServed
PROPERTIES
    RefinesChannel
CHECK_DEADLOCK FALSE
