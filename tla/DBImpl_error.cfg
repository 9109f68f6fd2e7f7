CONSTANTS
    Writers = {w1, w2}
    WriteBufferSize = 0
    CompactionTrigger = 1
    Syncing = {w1}
    StopTrigger = 2
    None = None
    MaxSeq = 3
    MaxCrashes = 0
    MaxFaults = 1
    FewReads = TRUE
SPECIFICATION Spec
PROPERTIES
    NoWorkAfterError
CHECK_DEADLOCK FALSE
