SPECIFICATION Spec
CONSTANTS
    small = small
    large = large
    Message <- TwoMessages
    Size <- Sizes
    Deflate <- DeflateLengths
    Compressed = TRUE
    MaxSends = 2
    MaxFaults = 0
    Config <- Limits40
    AutoFlush = TRUE
INVARIANT WholeMessages
CHECK_DEADLOCK FALSE
