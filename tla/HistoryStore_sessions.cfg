\* Three processes: rounds one after the other and overlapping, retention and
\* collection between, the first round may fail or crash anywhere.
SPECIFICATION Spec
CONSTANTS
    s1 = s1
    s2 = s2
    s3 = s3
    NoSession = NoSession
    Session <- ThreeSessions
    Task <- OneTask
    CheckoutOf <- SameCheckout
    Window <- EqualWindows
    OtherStatus = {}
    Faulty <- OnlyS1
    Planned <- NothingForS3
    Arrival <- OneByOne
    MaxRound = 1
    MaxTime = 3
INVARIANTS Replayable NoBatchRejected EvidencePresent
PROPERTY OnlyAppended
CHECK_DEADLOCK FALSE
VIEW SystemView
