\* A replay that waits behind the call it replays.
SPECIFICATION Spec
CONSTANTS
    Calls = {c1, c2}
    m1 = m1
    m2 = m2
    m3 = m3
    n1 = n1
    n2 = n2
    Plans <- TwoPlans
    NameOf <- NameOfTwo
    Steps = 1
    MaxId = 3
    NoPlan = NoPlan
    NoCall = NoCall
PROPERTY ReplayIsIdempotent
