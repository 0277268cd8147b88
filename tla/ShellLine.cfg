SPECIFICATION Spec
CONSTANTS
    VGA_WIDTH = 5
    VGA_HEIGHT = 1
    SHELL_BUF_SIZE = 4
    MAX_HISTORY = 2
    LEN_BELOW = 1
    a = a
    b = b
    Chars <- MCChars
    Prompts <- MCPrompts
    Outputs <- MCOutputs
SYMMETRY Swap
VIEW Shown
INVARIANTS
    TypeOK
    ScreenShows
    EditsInside
    HistoryInv
PROPERTY
    EditorSpec
CHECK_DEADLOCK FALSE
