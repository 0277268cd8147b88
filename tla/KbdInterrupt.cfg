SPECIFICATION Spec
CONSTANTS
    KBD_BUF_SIZE = 128
    Chars = {97}
INVARIANT
    PopUndisturbed
