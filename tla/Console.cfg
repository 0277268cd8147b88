SPECIFICATION Spec
CONSTANTS
    Keys <- MCKeys
    PORT_SIZE = 2
    Capacity = 2
    MAX_READ = 2
INVARIANTS
    TypeOK
    DecodesTyping
    NoByteForgotten
PROPERTIES
    ShellReads
    ReadsWhatWaits
CHECK_DEADLOCK FALSE
