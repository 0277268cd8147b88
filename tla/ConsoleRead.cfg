SPECIFICATION Spec
CONSTANTS
    Keys <- MCKeys
    PORT_SIZE = 2
    Capacity = 2
    MAX_READ = 2
PROPERTY
    ReadAnswers
CHECK_DEADLOCK FALSE
