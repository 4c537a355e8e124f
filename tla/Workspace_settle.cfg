SPECIFICATION LiveSpec
CONSTANTS
    cosmos = cosmos
    bkm = bkm
    Banks <- MCBanks
    FirstBank = cosmos
    LocalAudits <- MCBkm
    LateAudits <- MCNone
    LocalDays <- MCFirstDay
    RemoteDays <- MCNone
    LastDay = 1
    MaxContent = 1
    MaxImports = 1
    MaxChanges = 2
    Local = Local
    NoBank = NoBank
    NoLogs = NoLogs
    NoJob = NoJob
    NoWatcher = NoWatcher
PROPERTIES
    PendingSettles
    LiveCatchesUp
