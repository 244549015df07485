SPECIFICATION FairSpec
CONSTANTS
    small = small
    large = large
    Message <- OneMessage
    Size <- Sizes
    Deflate <- DeflateLengths
    Compressed = TRUE
    MaxSends = 3
    MaxFaults = 0
    Config <- Levels42
    AutoFlush = TRUE
INVARIANT IInv
PROPERTIES Delivered Refinement
CHECK_DEADLOCK FALSE
