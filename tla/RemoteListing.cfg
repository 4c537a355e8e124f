SPECIFICATION Spec
CONSTANTS
    alpha = alpha
    eurobank = eurobank
    opnA = opnA
    opnE = opnE
    ptms = ptms
    Hosts = {1, 2}
    Sources <- MCSources
    SourcesAt <- MCSourcesAt
    Banks = {alpha, eurobank}
    BankOf <- MCBankOf
    Ptms = ptms
    NoBank = NoBank
    SelectedBank = alpha
    MaxAttempts = 3
    MaxChanges = 1
    MaxSources = 3
    MaxClicks = 2
INVARIANTS
    ListingInv
    RetriesAreSafe
PROPERTIES
    ListingEnds
CHECK_DEADLOCK FALSE
