SPECIFICATION Spec
CONSTANTS
    alice = alice
    bob = bob
    carol = carol
    Node = {alice, bob, carol}
    Name = {1, 2, 3, 4}
    InitName <- ThreeNames
    NServers = 1
    MaxStunTries = 1
    MaxPresses = 2
INVARIANTS
    TypeOK
    NeverStuck
    NothingLeftOver
    SameCall
CHECK_DEADLOCK FALSE
