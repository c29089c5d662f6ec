\* Two cameras compete for one dial slot.
CONSTANTS
    c1 = c1
    c2 = c2
    r1 = r1
    r2 = r2
    Cameras = {c1, c2}
    Readers <- MCReaders
    DialSlots = 1
SPECIFICATION FairSpec
INVARIANTS CountsExact StopIsClean
PROPERTIES NobodyWaitsForever ImplementsConnections
