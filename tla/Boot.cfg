SPECIFICATION BootSpec
CONSTANTS
    INIT_POLLS = 3
    TIMEOUT = 3
    WORD = 2048
    LBA_SPACE = 1024
    MAX_SECTORS = 8
    DIRECT = 2
    NUMBER = 1
    NAME_BUF = 3
    SHELL_CWD_PATH_MAX = 8
    SECTOR = 1
    MIN_BLOCK = 2
    BUFFER = 8
    SIZEOF_INODE = 1
    MAX_BLOCK = 40
    MAX_TABLE = 12
    Length <- MCLength
    Pieces <- MCPieces
    Names <- MCNames
    Paths <- MCPaths
    Requests <- MCRequests
    Disks <- MCDisks
INVARIANTS
    TypeOK
    ReadsRight
    InStep
    CwdNamed
    LoadsWhole
    CatPrints
    ListsAll
    RunsReady
    BootInside
PROPERTY
    BootEnds
CHECK_DEADLOCK FALSE
