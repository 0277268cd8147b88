SPECIFICATION Spec
CONSTANTS
    VGA_WIDTH = 8
    VGA_HEIGHT = 3
    SHELL_BUF_SIZE = 4
    MAX_HISTORY = 2
    LEN_BELOW = 1
    a = a
    b = b
    Chars <- MCChars
    Prompts <- MCPrompts
    Outputs <- MCOutputs
PROPERTY
    SendsCursorBack
CHECK_DEADLOCK FALSE
