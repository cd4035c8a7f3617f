\* Two concurrent calls of either handler on two sessions.
SPECIFICATION Spec
CONSTANTS
    Calls = {c1, c2}
    Sessions = {s1, s2}
    Modes <- BothModes
    Steps = 2
    MaxAffected = 1
    NoSession = NoSession
SYMMETRY Symmetry
INVARIANT TypeOK AllOrNothingGuarded SuccessIsCommitted CommitsOwnWorkOnly
