\* Two cameras, a transaction for each.
CONSTANTS
    c1 = c1
    c2 = c2
    Cameras = {c1, c2}
    ChunkSize = 1
    MaxTotal = 2
    MaxMonth = 1
SPECIFICATION Spec
SYMMETRY Symmetry
INVARIANT NeverOverbilled
