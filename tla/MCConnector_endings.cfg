SPECIFICATION FairSpec
CONSTANTS
    alice = alice
    bob = bob
    carol = carol
    Node = {alice, bob}
    Name = {1, 2, 3}
    InitName <- TwoNames
    NServers = 2
    MaxStunTries = 1
    MaxPresses = 1
PROPERTIES
    CallsEnd
    HalfOpenHeals
CHECK_DEADLOCK FALSE
