SPECIFICATION Spec
CONSTANTS
    Alphabets <- MCAlphabets
    MaxLength = 5
INVARIANT Spelled
INVARIANT SnippetTellsTokens
INVARIANT TwoEnds
CHECK_DEADLOCK FALSE
