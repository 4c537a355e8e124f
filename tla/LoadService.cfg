SPECIFICATION Spec
CONSTANTS
    cosmos = cosmos
    bkm = bkm
    ptms = ptms
    opn = opn
    tango = tango
    Files = {ptms, tango}
    LateFiles = {}
    TangoLogs = {tango}
    Banks <- MCBanks
    AuditsOf <- MCAuditsOf
    MaxVersion = 2
    Callers = {c1}
    Workers = {w1}
    NoAnswer = NoAnswer
    NoOne = NoOne
    BankOrder <- MCOneBank
    ScanLimit = 1
    ReadyLimit = 2
    RowCount <- MCRowCount
    ReadyRowLimit = 3
INVARIANTS
    CachesFresh
    ServiceInv
PROPERTIES
    ImplementsLogQuery
