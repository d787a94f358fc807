\* Two waiters remove one stale lease.
SPECIFICATION Spec
CONSTANTS
    p1 = p1
    p2 = p2
    Proc <- TwoProcs
    Lease = 1
    Gaps <- OnlyOvertaken
    MaxVersion = 2
    MaxCrashes = 1
PROPERTY NeverBackwards
