\* Two checkouts, one beyond the limit, while a user acts.
SPECIFICATION RetentionSpec
CONSTANTS
    Place <- TwoPlaces
    Nested <- NoneInside
    MaxCount = 1
    MaxPrepared = 1
    MaxTime = 1
    MaxActs = 1
PROPERTY NothingLost
