SPECIFICATION Spec
CONSTANT MaxLines = 5
INVARIANTS SliceIsWanted SliceIsNested
CHECK_DEADLOCK FALSE
