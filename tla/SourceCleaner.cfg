SPECIFICATION Spec
CONSTANTS
    Alphabets = {{"/", "*", "nl", "url", "tail", "x"}, {"/", "*", "nl", "quote", "x"}, {"{", ";", "(", ")", " ", "nl", "x"}, {";", "(", ")", "quote", "x"}}
    MaxLength = 6
INVARIANTS CodeKept NeverCuts StatementEndsLine
CHECK_DEADLOCK FALSE
