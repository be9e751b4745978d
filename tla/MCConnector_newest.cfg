SPECIFICATION Spec
CONSTANTS
    alice = alice
    bob = bob
    carol = carol
    Node = {alice, bob}
    Name = {1, 2}
    InitName <- TwoNames
    NServers = 2
    MaxStunTries = 1
    MaxPresses = 1
PROPERTY
    NewestWins
CHECK_DEADLOCK FALSE
