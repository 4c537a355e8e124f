SPECIFICATION LiveSpec
CONSTANTS
    Total = 10
    FileEnds <- MCFileEnds
    BatchBlocks = 2
    MaxWorkers = 2
INVARIANTS
    PipelineInv
PROPERTIES
    ScansInOrder
    ScanEnds
CHECK_DEADLOCK FALSE
