\* Two slow or dying processes query, verify and refresh one pull request, with
\* and without being held up in the gaps; or one pull request, which others query
\* and store as well, is listed late: the overlap is needed, and every update is
\* found.
SPECIFICATION FairPullRequests
CONSTANTS
    p1 = p1
    p2 = p2
    k1 = k1
    Proc <- TwoProcs
    Lease = 1
    Gaps <- NoneOrAll
    MaxVersion = 2
    MaxCrashes = 1
    Key <- OneKey
    Overlap = 1
    Age = 1
    Lag = 1
    PageSize = 2
    MaxRequests = 1
    MaxReads = 1
    MaxRetries = 1
    MaxFailed = 1
    Since = 0
    Start = 1
    LastUpdate = 1
    MaxTime = 3
    Calm = 2
    Shared = TRUE
PROPERTIES ObservationAdvances LeaseRespected LeaseRecovered UpdatesFound
