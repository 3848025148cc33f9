SPECIFICATION Spec
CONSTANTS
    Chars <- MCChars
    MaxLength = 4
    pad_size = 3
INVARIANT WordsFormed
CHECK_DEADLOCK FALSE
