\* An installer that works in place is interrupted and the edit is undone.
SPECIFICATION Spec
CONSTANTS
    p1 = p1
    p2 = p2
    c1 = c1
    c2 = c2
    old = old
    new = new
    nobody = nobody
    Preparer <- OnePreparer
    Cleaner <- OneCleaner
    Nobody = nobody
    Fingerprint <- TwoDigests
    MaxIdentity = 4
    Reinstalls = FALSE
    MaxEdits = 2
    MaxUserActs = 0
    MaxCrashes = 2
INVARIANT ReadyIsInstalled
CHECK_DEADLOCK FALSE
