\* The host commands beside each other: a replay, a log, a capture, a
\* viewer, an upgrade, a cleaning of checkouts.
SPECIFICATION HostSpec
CONSTANTS
    r1 = r1
    r2 = r2
    k1 = k1
    k2 = k2
    main = main
    other = other
    c1 = c1
    c2 = c2
    c3 = c3
    p1 = p1
    p2 = p2
    A = A
    B = B
    x = x
    y = y
    Run <- TwoRuns
    Key <- TwoKeys
    Checkout <- OneCheckout
    Logs <- AllLogs
    Invocation <- ThreeRuns
    LastDay = 2
    Retained = 1
    MaxTorn = 1
    MaxEdits = 2
    NFile = 2
    Content <- ThreeContents
    Size <- Sizes
    Oversized <- LargeContents
    MaxBytes = 3
    Workers = 2
    Page <- TwoPages
    Snapshot <- TwoSnapshots
    Path <- TwoPaths
    MaxTreeEdits = 1
    MaxClicks <- ClicksByPage
    Place <- ThreePlaces
    Nested <- InsideSecond
    MaxCount = 1
    MaxPrepared = 1
    MaxTime = 2
    MaxActs = 1
    Process <- TwoProcesses
    LastVersion = 3
INVARIANTS ProjectionMatchesLog ReportIsTrue
    CaptureIsTrue ReadsAsSerial SourceOfThePage AlwaysRunnable
    RetentionIsExact DryRunPredicts
PROPERTIES RefreshAdvances SeenWorkKept MergedHeadOnly
CHECK_DEADLOCK FALSE
