SPECIFICATION FairSpec
CONSTANTS
    Clients = {c1, c2}
    Platforms = {"unix", "windows"}
    QueueCap = 1
    RingCap = 1
    IdSpace = 4
    MaxRequests = 2
INVARIANT ChannelTypeOK ReplyIsOwn
PROPERTY Implements RequestEnds FailureStops
CHECK_DEADLOCK FALSE
