SPECIFICATION Spec
CONSTANTS
    p1 = p1
    p2 = p2
    Peer = {p1, p2}
    NoPeer = NoPeer
    Browser = FALSE
    MaxSegments = 2
    MaxInbox = 1
PROPERTY
    OnlyProbedDropped
