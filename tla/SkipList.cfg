CONSTANTS
    K = 3
    MaxHeight = 3
    Readers = {r1}
    Writer = w
SPECIFICATION Spec
INVARIANTS
    TypeOK
    WellLinked
    ReadsAreInitialized
    ScanIsComplete
PROPERTIES
    SearchFindsWhatWasThere
