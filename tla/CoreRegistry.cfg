SPECIFICATION CoreSpec
CONSTANTS
    c1 = c1
    c2 = c2
    c3 = c3
    p1 = p1
    p2 = p2
    Zero = Zero
    None = None
    Conns = {c1, c2, c3}
    Phones = {p1, p2, Zero}
    MaxChunk = 1
    Speaks <- MixedSpeaks
INVARIANTS
    CoreTypeOK
    RegisteredIsLive
    RegisteredUnderItsNumber
    UncontestedIsRegistered
PROPERTY
    RegistryPromise
