SPECIFICATION Spec
CONSTANTS
    small = small
    large = large
    Message <- TwoMessages
    Size <- Sizes
    Deflate <- DeflateLengths
    Compressed = FALSE
    MaxSends = 2
    MaxFaults = 0
    Config <- Limits40
    AutoFlush = TRUE
INVARIANT GarbageFree
CHECK_DEADLOCK FALSE
