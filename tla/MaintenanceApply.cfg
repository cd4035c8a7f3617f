\* Two concurrent applies of two plans with one name and two targets.
SPECIFICATION Spec
CONSTANTS
    Calls = {c1, c2}
    Sessions = {s1, s2}
    p1 = p1
    p2 = p2
    n1 = n1
    o1 = o1
    o2 = o2
    Plans <- TwoPlans
    Names = {n1}
    Targets = {o1, o2}
    NameOf <- NameOfTwo
    TargetOf <- TargetOfTwo
    Kinds <- ApplyOnly
    MaxHold = 1
    NoPlan = NoPlan
    NoSession = NoSession
SYMMETRY Symmetry
INVARIANT OneCommandPerTarget ReportedSuccessIsDurable
PROPERTY IsReviewedOperation
