\* Two requests at a time on one camera.
CONSTANTS
    c1 = c1
    a = a
    b = b
    k1 = k1
    k2 = k2
    s1 = s1
    s2 = s2
    s3 = s3
    s4 = s4
    Disabled = Disabled
    NoCamera = NoCamera
    Keep = Keep
    NoList = NoList
    NoStream = NoStream
    Cameras = {c1}
    Configs = {a, b}
    Callers = {k1, k2}
    Streams = {s1, s2, s3, s4}
    Imports <- OneImport
SPECIFICATION Spec
SYMMETRY Symmetry
INVARIANT Converged
