SPECIFICATION MCSpec
SYMMETRY Symmetry
CONSTANTS
    RotateAfter = 0
    Retention = 1
    MaxFrames = 3
    MaxTime = 3
    r1 = r1
    r2 = r2
    Recordings = {r1, r2}
    Requests = {q1, q2}
    Capacity = 1
    MaxParts <- MCMaxParts
    Day = 3
    Spans = {2}
    Start <- MCStart
INVARIANTS FlushedKept NamesTell
INVARIANTS  ListedWhenRecorded
