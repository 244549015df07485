SPECIFICATION Spec
CONSTANTS
    small = small
    large = large
    Message <- TwoMessages
    Size <- Sizes
    Deflate <- DeflateLengths
    Compressed = FALSE
    Turns = TRUE
    MaxSends = 2
    MaxFaults = 0
    Config <- Limit40
    AutoFlush = TRUE
INVARIANT ErrorBreaksCipher
CHECK_DEADLOCK FALSE
