SPECIFICATION Spec
CONSTANTS
    NodeKinds <- MCNodeKinds
    Libraries <- MCLibraries
    MaxNodes = 7
INVARIANTS DeepestDefinition DeclarationsOnce ChildrenOnce
CHECK_DEADLOCK FALSE
