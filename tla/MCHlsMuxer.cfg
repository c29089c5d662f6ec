\* A window of three, four segments, one request, one codec change.
CONSTANTS
    Handlers = {h1}
    Stoppers = {s1}
    Buffers = {b1, b2, b3, b4, b5}
    MaxSegments = 3
    MaxSeq = 4
    MaxParams = 1
    MaxMeta = 1
SPECIFICATION FairSpec
INVARIANTS BuffersCycle PlaylistSound
PROPERTIES RequestsReturn PlaylistSlides
CHECK_DEADLOCK FALSE
