\* Two rounds, one after the other or together, each with two checks at once, while
\* files and a Bin change and are put back, a check is flaky, a round is cancelled and another loses its history.
SPECIFICATION RoundsSpec
CONSTANTS
    s1 = s1
    s2 = s2
    source = source
    version = version
    bin = bin
    Session <- TwoSessions
    Task <- TwoTasks
    File <- AllFiles
    Bin <- TheBin
    VersionFile <- TheVersion
    InputsOf <- ReadsMore
    Content <- Contents
    ContentOf <- EachContent
    Unmanaged <- NoReceipt
    Passes <- EvenPasses
    Flaky <- First
    Unavailable <- OneMissing
    Forced <- Nothing
    Concurrency = 2
    Cancellable <- OnlyS1
    Unlucky <- OnlyS2
    MaxEdits = 1
    MaxUndone = 1
INVARIANTS PassedUnlessUndone ReuseIsTrue VersionEditsKeepReuse
CHECK_DEADLOCK FALSE
