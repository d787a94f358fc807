\* A file is edited under a running check and put back before the last capture.
SPECIFICATION Spec
CONSTANTS
    s1 = s1
    s2 = s2
    source = source
    version = version
    bin = bin
    Session <- OnlyS1
    Task <- TwoTasks
    File <- AllFiles
    Bin <- TheBin
    VersionFile <- TheVersion
    InputsOf <- ReadsMore
    Content <- Contents
    ContentOf <- EachContent
    Unmanaged <- NoReceipt
    Passes <- EvenPasses
    Flaky <- Nothing
    Unavailable <- OneMissing
    Forced <- Nothing
    Concurrency = 2
    Cancellable <- Nothing
    Unlucky <- Nothing
    MaxEdits = 1
    MaxUndone = 1
INVARIANT PassedIsTrue
CHECK_DEADLOCK FALSE
