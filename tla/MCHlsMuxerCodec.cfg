\* The codec parameters change while a segment is under way.
CONSTANTS
    Handlers = {}
    Stoppers = {s1}
    Buffers = {b1, b2, b3, b4}
    MaxSegments = 3
    MaxSeq = 4
    MaxParams = 2
    MaxMeta = 0
SPECIFICATION Spec
INVARIANT CodecChangeIsMarked
CHECK_DEADLOCK FALSE
