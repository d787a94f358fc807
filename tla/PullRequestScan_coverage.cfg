\* Two pull requests, updated and queried by others while a scan lists, halves,
\* reads and fails.
SPECIFICATION Spec
CONSTANTS
    k1 = k1
    k2 = k2
    Key <- Keys
    Overlap = 1
    Age = 1
    Lag = 1
    PageSize = 2
    MaxRequests = 1
    MaxReads = 1
    MaxRetries = 1
    MaxFailed = 1
    Since = 1
    Start = 1
    LastUpdate = 2
    MaxTime = 2
    Calm = 9
    Shared = TRUE
INVARIANT CoverageIsTrue
SYMMETRY Exchangeable
