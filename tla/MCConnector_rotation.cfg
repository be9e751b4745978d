SPECIFICATION Spec
CONSTANTS
    alice = alice
    bob = bob
    carol = carol
    Node = {alice, bob}
    Name = {1, 2, 3}
    InitName <- TwoNames
    NServers = 2
    MaxStunTries = 2
    MaxPresses = 1
INVARIANTS
    SameCall
    NeverLocksOntoDiscarded
    OnceAroundTheList
PROPERTIES
    OneRealLink
CHECK_DEADLOCK FALSE
