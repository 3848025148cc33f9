SPECIFICATION Spec
CONSTANTS
    Words <- MCWords
    Numbers <- MCNumbers
    FuncMaps <- MCFuncMaps
    AllMaps <- MCAllMaps
    MaxTokens = 4
INVARIANTS NamesDistinct NamesCanonical InjectedNameFresh
CHECK_DEADLOCK FALSE
