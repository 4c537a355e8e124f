SPECIFICATION Spec
CONSTANTS
    cosmos = cosmos
    bkm = bkm
    Banks <- MCBanks
    FirstBank = cosmos
    LocalAudits <- MCBanks
    LateAudits <- MCBkm
    LocalDays <- MCNone
    RemoteDays <- MCBothDays
    LastDay = 2
    MaxContent = 0
    MaxImports = 2
    MaxChanges = 2
    Local = Local
    NoBank = NoBank
    NoLogs = NoLogs
    NoJob = NoJob
    NoWatcher = NoWatcher
INVARIANTS
    WorkspaceInv
    FollowsSelector
