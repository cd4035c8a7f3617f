\* One call at a time of either tool, with crashes and orphaned backends between.
SPECIFICATION FairSpec
CONSTANTS
    Calls = {c1}
    Sessions = {s1, s2}
    p1 = p1
    p2 = p2
    n1 = n1
    o1 = o1
    o2 = o2
    Plans <- TwoPlans
    Names = {n1}
    Targets = {o1, o2}
    NameOf <- NameOfTwo
    TargetOf <- TargetOfTwo
    Kinds <- AllKinds
    MaxHold = 2
    NoPlan = NoPlan
    NoSession = NoSession
PROPERTY IsReviewedOperation CallsEnd
