\* A COMMIT that takes effect although it fails for its client.
SPECIFICATION Spec
CONSTANTS
    Calls = {c1}
    Sessions = {s1, s2}
    Modes <- BothModes
    Steps = 1
    MaxAffected = 1
    NoSession = NoSession
INVARIANT FailureIsNotCommitted
