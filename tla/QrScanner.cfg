SPECIFICATION QrSpec
CONSTANTS
    Stream = {s1, s2}
    Loop = {l1, l2}
    Text = {nil}
    Code = {}
    Empty = nil
    TooLong = {}
    MaxCalls = 2
    MaxDetects = 1
    Off = Off
PROPERTY HidingReleasesCamera
