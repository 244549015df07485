SPECIFICATION FairSpec
CONSTANTS
    OurMagic = "magic 1"
    Clients <- TwoVersions
    Servers <- Accepting
    Resets = TRUE
    MaxFaults = 1
INVARIANTS TypeOK IInv Agreement RejectionsTrue NoMutualWait ServerKeepsClient ReasonLearnedUnbuffered
PROPERTIES Terminates Refinement
CHECK_DEADLOCK FALSE
