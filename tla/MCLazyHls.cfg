\* Two requests race for the muxer of a lazy stream.
CONSTANTS
    v1 = v1
    v2 = v2
    m1 = m1
    m2 = m2
    m3 = m3
    m4 = m4
    Viewers = {v1, v2}
    Muxers = {m1, m2, m3, m4}
SPECIFICATION FairSpec
PROPERTIES WakeAndStopReturn
INVARIANTS OneMuxer
