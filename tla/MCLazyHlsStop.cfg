\* One request against Stop.
CONSTANTS
    v1 = v1
    m1 = m1
    m2 = m2
    m3 = m3
    Viewers = {v1}
    Muxers = {m1, m2, m3}
SPECIFICATION Spec
INVARIANT StopLeavesNoMuxer
