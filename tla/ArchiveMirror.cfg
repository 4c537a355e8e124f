SPECIFICATION ArchiveLiveSpec
CONSTANTS
    Watchers = {watcher}
    Jobs = {job}
    Members = {audit, tango}
    MaxVersions = 3
    MaxFailures = 1
INVARIANTS
    ArchiveInv
PROPERTIES
    ArchiveFollows
CHECK_DEADLOCK FALSE
