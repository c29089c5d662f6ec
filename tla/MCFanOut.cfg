\* Two readers of a short history; a viewer of each kind until the process ends.
CONSTANTS
    Readers = {r1, r2}
    Capacity = 2
    MaxFrames = 4
    w1 = w1
    Clients = {w1}
    Audiences <- MCAudiences
    MaxVersion = 2
SPECIFICATION MCSpec
INVARIANTS
    DecodableDelivery
    ChannelsWithinCapacity
    OnlySlowReadersLoseFrames
    
PROPERTIES
    ReadersSeeTheEnd
    ImplementsLiveFeed
    ViewersReleased
    ShutdownReturns
CHECK_DEADLOCK FALSE
