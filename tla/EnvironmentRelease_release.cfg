\* Two preparations, a maintenance, edits, changing limits, crashes and a user who
\* replaces the directory; what a release has begun is finished.
SPECIFICATION FairSpec
CONSTANTS
    p1 = p1
    p2 = p2
    c1 = c1
    c2 = c2
    old = old
    new = new
    nobody = nobody
    Preparer <- TwoPreparers
    Cleaner <- OneCleaner
    Nobody = nobody
    Fingerprint <- TwoDigests
    MaxIdentity = 4
    Reinstalls = TRUE
    MaxEdits = 2
    MaxUserActs = 2
    MaxCrashes = 2
INVARIANTS ReadyIsInstalled ReleaseBeforePreparation JournalIsTrue
PROPERTY ReleaseFinishes
CHECK_DEADLOCK FALSE
