SPECIFICATION Spec
CONSTANTS
    NbgProcesses = {"nbg"}
    Families = {"linked", "local", "iso", "spdh", "audit", "tango", "page", "row", "block", "tlv", "emv", "fields", "names", "export"}
    EntriesOf <- MCEntriesOf
    LimitOf <- MCLimitOf
    ReadSize = 3
    PreviewSize = 3
    Logon = Logon
    NoUid = NoUid
    TangoMtis = {4530, 4554}
    OtherMtis = {200, 800, 9081}
    PreferredMtis = {9081}
    NetworkMtis = {800, 810, 820, 830}
    SharedProcess = {"BKT", "BKTKOS"}
    NoTime = 0
    HeaderLines = 6
    RequestTexts <- MCRequestTexts
    MaxNesting = 8
    Widths <- MCWidths
    NumericTags <- MCNumericTags
    PaddedTags <- MCPaddedTags
    DateTag <- MCDateTag
    CidTag <- MCCidTag
    CommonOnline <- MCCommonOnline
    Messages <- MCMessages
    NumericLengths <- MCNumericLengths
    TextLengths <- MCTextLengths
    CheckedNumbers = {4, 7, 11, 49, 90}
    DateNumber = 7
    PinNumber = 52
    BankCodes <- MCBankCodes
    Today = 1
    ExportOptions <- MCExportOptions
    BankNames = {"BKT", "BKTKOS", "COSMOS"}
INVARIANTS
    AnalysisInv
    OrderFree
    FindingsAreProved
    ExportsMatch
    BlocksSaySame
    EmvReadWhole
    SourcesAgree
    ChunksAreSeamless
PROPERTIES
    FindingsStay
    ValuesSettle
CHECK_DEADLOCK FALSE
