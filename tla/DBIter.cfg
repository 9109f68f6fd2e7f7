CONSTANTS
    UserKeys = {1, 2, 3}
    MaxSeq = 4
    RestartInterval = 2
    Level0Files = 1
    Levels = 1
    BlockSize <- MCBlockSize
    FileSize <- MCFileSize
    Flushed = 3
    Newer = 1
SPECIFICATION Spec
INVARIANTS
    TypeOK
    IteratorIsExact
    ChildrenMissNothing
    ReverseIsJustBefore
