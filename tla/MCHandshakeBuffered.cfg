SPECIFICATION Spec
CONSTANTS
    OurMagic = "magic 1"
    Clients <- TwoVersions
    Servers <- Accepting
    Resets = TRUE
    MaxFaults = 0
INVARIANT ReasonLearned
CHECK_DEADLOCK FALSE
