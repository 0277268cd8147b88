SPECIFICATION Spec
CONSTANTS
    INIT_POLLS = 3
    TIMEOUT = 3
    WORD = 64
    LBA_SPACE = 16
    MAX_SECTORS = 2
    Requests <- MCRequests
PROPERTY
    InitTells
CHECK_DEADLOCK FALSE
