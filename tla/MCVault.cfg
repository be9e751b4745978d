SPECIFICATION Spec
CONSTANTS
    t1 = t1
    t2 = t2
    ann = ann
    bob = bob
    p = p
    q = q
    i1 = i1
    far = far
    salt2 = salt2
    Tab = {t1, t2}
    Slot = {1, 2}
    MaxRunning = 2
    MaxPresses = 7
    FreshId = {i1}
    ForeignId = {far, salt2}
    Cred <- Creds
    Pasted <- Pastes
    Build = {"webcrypto", "wasm"}
    NoId = NoId
    Nobody = Nobody
    None = None
SYMMETRY TabsAlike
INVARIANTS
    SessionHasOwner
    LockedMeansRunning
PROPERTIES
    NothingLost
CHECK_DEADLOCK FALSE
