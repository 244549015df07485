SPECIFICATION Spec
CONSTANTS
    small = small
    large = large
    Message <- OneMessage
    Size <- Sizes
    Deflate <- DeflateLengths
    Compressed = FALSE
    Turns = FALSE
    MaxSends = 2
    MaxFaults = 0
    Config <- Limit40
    AutoFlush = TRUE
INVARIANT NoDecryptError
CHECK_DEADLOCK FALSE
