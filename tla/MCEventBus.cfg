\* Two publishers against a caller of Stop, two workers, two endpoints.
CONSTANTS
    Publishers = {p1, p2}
    Stoppers = {s1}
    w1 = w1
    w2 = w2
    Workers = {w1, w2}
    camA = camA
    Cameras = {camA}
    NoCamera = NoCamera
    online = online
    offline = offline
    Topics = {online, offline}
    url1 = url1
    url2 = url2
    Hash <- MCHash
    Webhooks <- MCWebhooks
    QueueSize = 1
    Cooldown = 2
    MaxEvents = 3
    MaxTime = 2
SPECIFICATION FairSpec
PROPERTIES StopTerminates CircuitHolds
INVARIANTS NeverSendsOnClosed PerCameraOrder StopDrains
CHECK_DEADLOCK FALSE
