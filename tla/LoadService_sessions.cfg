SPECIFICATION FairSpec
CONSTANTS
    cosmos = cosmos
    bkm = bkm
    ptms = ptms
    opn = opn
    tango = tango
    Files = {ptms}
    LateFiles = {}
    TangoLogs = {}
    Banks <- MCBanks
    AuditsOf <- MCAuditsOf
    MaxVersion = 1
    Callers = {c1, c2}
    Workers = {w1}
    NoAnswer = NoAnswer
    NoOne = NoOne
    BankOrder <- MCTwoBanks
    ScanLimit = 1
    ReadyLimit = 2
    RowCount <- MCRowCount
    ReadyRowLimit = 3
PROPERTIES
    
    PreparationEnds
    RequestsEnd
