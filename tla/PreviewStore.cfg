SPECIFICATION Spec
CONSTANTS
    s1 = s1
    s2 = s2
    u1 = u1
    text = text
    hex = hex
    a = a
    b = b
    Sessions <- MCSessions
    Uids <- MCOneUid
    Options <- MCOptions
    FirstOptions = text
    Addresses <- MCTwoAddresses
    SourceLimit = 1
    TaskLimit = 1
    TokenLimit = 1
    MaxLoads = 2
    MaxLinks = 2
    MaxTasks = 2
    MaxRunning = 2
SYMMETRY Symmetry
INVARIANTS
    PreviewInv
    PreviewsReused
PROPERTIES
    FailureTriedAgain
