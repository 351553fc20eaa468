SPECIFICATION CoreSpec
CONSTANTS
    c1 = c1
    c2 = c2
    c3 = c3
    p1 = p1
    p2 = p2
    Zero = Zero
    None = None
    Conns = {c1}
    Phones = {p1, Zero}
    MaxChunk = 1
    Speaks <- NumberedLaterSpeaks
INVARIANT RegisteredIsLive
