SPECIFICATION Spec
CONSTANTS
    small = small
    large = large
    Message <- TwoMessages
    Size <- Sizes
    Deflate <- DeflateLengths
    Compressed = FALSE
    Turns = FALSE
    MaxSends = 2
    MaxFaults = 1
    Config <- Limits40
    AutoFlush = FALSE
INVARIANTS TypeOK InOrder InSync IInv NonceOnce
PROPERTIES BrokenIsFinal Refinement
CHECK_DEADLOCK FALSE
