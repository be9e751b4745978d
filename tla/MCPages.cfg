SPECIFICATION Spec
CONSTANTS
    ann = ann
    bob = bob
    a = a
    Person = {ann, bob}
    NoUser = NoUser
    Paper <- Papers
    Stream = {s1, s2}
    Loop = {l1, l2}
    Text = {nil, a, b}
    Code = {a, b}
    Empty = nil
    TooLong = {}
    MaxCalls = 2
    MaxDetects = 2
    Off = Off
    Key = {k1, k2}
    BadKey = bad
    Message = {a}
    Blank = nil
    MaxAwaits = 2
    Algo = {a, b}
    NoKey = nil
    MaxSteps = 3
    Place <- Places
    NoPlace = nil
    MaxFrames = 2
    Finger = {f1, f2, f3}
    Anchor = {0, 5}
    Step <- Steps
    MaxPan = 20
    NoPinch = nil
    Index = index
    Script = script
    MaxVersion = 2
    MaxPuts = 1
INVARIANTS
    TextSaysWhatCardsSay
    OneStartOneCamera
    BusyMeansDetecting
    CodeShowsContent
    SendButtonTells
    NeverStuck
    ButtonsTellState
    DrawnIsSaved
    NoPinchJump
    NoStaleGeneration
    WorkerRules
PROPERTIES
    KeepsAttendance
    AdvertisedIsRequested
    PointStaysPut
    LossNeedsActivation
