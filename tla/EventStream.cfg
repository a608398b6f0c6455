SPECIFICATION FairSpec
CONSTANTS
    MaxEvents = 3
    ProgressEvents = {1, 2}
    HistoryCap = 2
    ChannelCap = 1
    BufferCap = 1
    MaxStreams = 2
INVARIANTS
    AtMostTwice
    NoSilentLoss
PROPERTIES
    EventuallyDelivered
CHECK_DEADLOCK FALSE
