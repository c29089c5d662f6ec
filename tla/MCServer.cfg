SPECIFICATION MCSpec
SYMMETRY MCSymmetry
CONSTANTS
    c1 = c1
    c2 = c2
    Cameras = {c1, c2}
    ChunkSize = 2
    MaxTotal = 2
    MaxMonth = 1
    Root = root
    Users = {root, u2}
    Admin = admin
    Roles = {admin, viewer}
    NoUser = nouser
    Same = same
    UserRequests = {uq1, uq2}
    MaxTokens = 1
    t1 = t1
    d1 = d1
    DirCameras = {d1}
    Tags = {t1}
    Folders = {f1}
    NoFolder = nofolder
    NoRecord = norecord
    DirRequests = {dq1, dq2}
    Config <- MCConfig
    Retention = 1
    MaxClock = 6
    Subscribers = {b1, b2}
    ChannelSize = 2
    MaxMessages = 4
    Producers = {p1, p2}
    MqttQueueSize = 2
    TokenSize = 1
    MaxPushed = 3
    Writers = {w1, w2}
    BatchIds = {g1, g2}
    NoBatch = nobatch
    BatchSize = 2
    MaxPackets = 2
    Wrap = 8
    Rate = 3
    Second = 10
    MaxInt = 65
    MinDuration = 4
    DefaultDuration = 5
    Steps <- MCSteps
    MinTicks <- MCMinTicks
    MaxTicks = 20
    Unknown = unknown
CONSTRAINT MCConstraint
INVARIANTS NeverOverbilled 
INVARIANTS AdminRemains RevokedCannotAct RefsResolve BackupKept
INVARIANTS MetadataComplete  NothingStranded FrameTimesTrue
