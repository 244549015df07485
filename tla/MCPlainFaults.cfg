SPECIFICATION Spec
CONSTANTS
    small = small
    large = large
    Message <- OneMessage
    Size <- Sizes
    Deflate <- DeflateLengths
    Compressed = FALSE
    MaxSends = 2
    MaxFaults = 1
    Config <- Limits39
    AutoFlush = FALSE
INVARIANTS TypeOK Faithful WholeMessages IInv
CHECK_DEADLOCK FALSE
