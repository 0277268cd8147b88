SPECIFICATION Spec
CONSTANTS
    LINE_MAX = 5
    MAX_ARGS = 3
    MAX_ENV = 5
    ENV_VAL_MAX = 5
    HISTORY_SIZE = 2
    ARG_WIDTH = 1
    NAME_LIMIT = 2
    MAX_KEYS = 7
    Words <- MCWords
    Alphabets <- MCAlphabets
INVARIANTS
    TypeOK
    RunsFirstWord
PROPERTY
    ReaderSpec
CHECK_DEADLOCK FALSE
