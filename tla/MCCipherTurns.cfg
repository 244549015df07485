SPECIFICATION FairSpec
CONSTANTS
    small = small
    large = large
    Message <- TwoMessages
    Size <- Sizes
    Deflate <- DeflateLengths
    Compressed = TRUE
    Turns = TRUE
    MaxSends = 4
    MaxFaults = 0
    Config <- Limits42
    AutoFlush = TRUE
INVARIANTS InTurns NoDecryptError NonceOnceOverall
PROPERTIES Delivered
CHECK_DEADLOCK FALSE
