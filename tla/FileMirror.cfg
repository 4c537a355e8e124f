SPECIFICATION LiveSpec
CONSTANTS
    Watchers = {watcher}
    Jobs = {}
    Edge = 1
    Chunk = 1
    RewritesInRead = FALSE
    MaxContents = 2
    MaxLength = 3
    MaxSeconds = 2
    MaxFailures = 1
INVARIANTS
    MirrorInv
PROPERTIES
    NothingLost
    Follows
    StopEnds
CHECK_DEADLOCK FALSE
