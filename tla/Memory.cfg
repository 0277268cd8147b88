SPECIFICATION Spec
CONSTANTS
    PAGE_SIZE = 4
    WORD = 64
    TABLE = 4
    KB = 2
    MAX_PHYS_MEM_BYTES = 40
    IDENTITY_MAP_BYTES = 32
    DEFAULT_BYTES = 36
    LOW = 4
    KERNEL_END = 7
    USER_PROGRAM_BASE = 12
    USER_PROGRAM_MAX_SIZE = 8
    USER_STACK_TOP = 28
    USER_STACK_SIZE = 4
    BootInfos <- MCBootInfos
    Programs <- MCPrograms
    VPages <- MCVPages
INVARIANTS
    TypeOK
    OneUse
    TablesApart
    FoundWhereMapped
    FaultsWhenFull
    UserPagesReserved
CHECK_DEADLOCK FALSE
