SPECIFICATION FairSpec
CONSTANT MaxQueue = 4
INVARIANT HonestAddress
PROPERTIES
    KeepsContract
    GatheringEnds
    ChannelNoticed
CHECK_DEADLOCK FALSE
