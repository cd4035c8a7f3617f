\* Two calls of either tool on one operation.
SPECIFICATION Spec
CONSTANTS
    Calls = {c1, c2}
    Sessions = {s1, s2}
    p1 = p1
    p2 = p2
    n1 = n1
    o1 = o1
    o2 = o2
    Plans <- OnePlan
    Names = {n1}
    Targets = {o1}
    NameOf <- NameOfOne
    TargetOf <- TargetOfOne
    Kinds <- AllKinds
    MaxHold = 2
    NoPlan = NoPlan
    NoSession = NoSession
SYMMETRY Symmetry
INVARIANT TypeOK ExecutionIsRecorded RecordedOutcomeIsTrue
PROPERTY WritesUnderLock RetryOnlyAfterResolution
