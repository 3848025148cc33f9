SPECIFICATION EditSpec
CONSTANTS
    Texts <- MCTexts
    Inside <- MCInside
    Uints <- MCUints
    Addresses <- MCAddresses
    ids <- MCids
INVARIANTS EditsOneLine BracesKept OnlyReentrancyThrows CallBeforeUpdate CallUnchecked
CHECK_DEADLOCK FALSE
