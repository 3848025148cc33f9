SPECIFICATION Spec
CONSTANTS
    Alphabets = {{"/", "*", "quote", "x"}, {"/", "*", "nl", "x"}}
    MaxLength = 7
INVARIANTS CommentsRemoved
CHECK_DEADLOCK FALSE
