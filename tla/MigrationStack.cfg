\* Two concurrent calls on three plans of two steps, two of them with one name.
SPECIFICATION Spec
CONSTANTS
    Calls = {c1, c2}
    m1 = m1
    m2 = m2
    m3 = m3
    n1 = n1
    n2 = n2
    Plans <- ThreePlans
    NameOf <- NameOfThree
    Steps = 2
    MaxId = 3
    NoPlan = NoPlan
    NoCall = NoCall
SYMMETRY Symmetry
INVARIANT TypeOK BatchesFollowIds ReportIsTrue
PROPERTY OnlyLatestRollsBack IsMigrationLedger
