SPECIFICATION FairSpec
CONSTANTS
    Base = 2
    Digits = 2
    Body <- Bodies
    Limits = {1, 3}
    Capacity = 3
    MaxSends = 2
    MaxFaults = 1
INVARIANTS TypeOK Faithful IInv
PROPERTIES Exchange ImplementsLayer
CHECK_DEADLOCK FALSE
