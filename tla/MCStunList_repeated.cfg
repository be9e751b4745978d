SPECIFICATION Spec
CONSTANTS
    s1 = s1
    s2 = s2
    s3 = s3
    s4 = s4
    s5 = s5
    NoHost = NoHost
    Host = {s1, s2, s3, s4, s5}
    Lists <- ShippedLike
    Firsts = {NoHost}
INVARIANT
    AnotherChance
