SPECIFICATION InstanceSpec
CONSTANTS
    OurMagic = "magic 1"
    Clients <- Callers
    Servers <- Listeners
    Resets = TRUE
    MaxFaults = 1
    MaxSends = 2
INVARIANTS HandlerInv TypeOKHandler FieldsApart MessageConfirms
PROPERTIES SentArrives ImplementsChannel
CHECK_DEADLOCK FALSE
