SPECIFICATION FairSpec
CONSTANTS
    p1 = p1
    p2 = p2
    Peer = {p1, p2}
    NoPeer = NoPeer
    Browser = TRUE
    MaxSegments = 2
    MaxInbox = 1
INVARIANT
    OnePeerOnTheWay
PROPERTIES
    Alternates
    NatHonest
    NoPeerAfterClose
    AliveIsProved
    KeepsLooking
