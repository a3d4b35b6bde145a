\* Early reports, a connection that is full, a size libpurple does not know, a C library
\* with or without a sticky end of file, a user who stays or leaves.
CONSTANTS
    Size = 6
    Chunk = 2
    WireCap = 3
SPECIFICATION FairSpec
INVARIANT InOrder
PROPERTIES NoStall LeavingEnds
CHECK_DEADLOCK FALSE
