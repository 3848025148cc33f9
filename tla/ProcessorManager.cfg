SPECIFICATION Spec
CONSTANTS
    a = a
    b = b
    d = d
    w = w
    t = t
    Sources <- MCSources
    DirOf <- MCDirOf
    NameOf <- MCNameOf
    Compiles <- MCCompiles
    NumInjectors = 2
    CopyFails <- MCCopyFails
    MaxRuns = 3
INVARIANTS CompilerMatches OwnAst CompleteOrListed EarlyReturn
PROPERTIES EntriesFrozen RemovesNoCompiled
CHECK_DEADLOCK FALSE
