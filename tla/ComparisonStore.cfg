SPECIFICATION ComparisonSpec
CONSTANTS
    s1 = s1
    s2 = s2
    u1 = u1
    u2 = u2
    Sessions <- MCSessions
    Pairs <- MCPair
    TokenLimit = 2
    MaxLoads = 2
    MaxTokens = 3
    MaxRequests = 4
INVARIANTS
    ComparisonInv
    ComparisonOfSelection
PROPERTIES
    MadeStays
