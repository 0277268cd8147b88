SPECIFICATION Spec
CONSTANTS
    KBD_BUF_SIZE = 4
    Chars <- MCChars
INVARIANTS
    BufInv
PROPERTY
    FifoSpec
