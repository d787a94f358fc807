\* A round with two concurrent checks that may fail or crash anywhere, and a later
\* one that retention comes with; the store implements RunLedger, and every round
\* ends.
SPECIFICATION FairSpec
CONSTANTS
    s1 = s1
    s2 = s2
    s3 = s3
    NoSession = NoSession
    Session <- TwoSessions
    Task <- TwoTasks
    CheckoutOf <- SameCheckout
    Window <- EqualWindows
    OtherStatus = {}
    Faulty <- OnlyS1
    Planned <- OneForS2
    Arrival <- FarApart
    MaxRound = 1
    MaxTime = 3
INVARIANT HealthyRoundRecorded
PROPERTIES ImplementsLedger RoundEnds
CHECK_DEADLOCK FALSE
