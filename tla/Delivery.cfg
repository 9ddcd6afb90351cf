CONSTANTS
    n1 = n1
    n2 = n2
    big = big
    small = small
    ipA = ipA
    ipB = ipB
    Loopback = Loopback
    Nothing = Nothing
    Nodes <- MC_Nodes
    Messages <- MC_OneMessage
    Origin <- MC_OriginOne
    Target <- MC_TargetOne
    Total <- MC_TotalOne
    Crashable <- MC_Nodes
    Host <- MC_TwoHosts
    MaxAttempts = 3
    QueueBound = 1
SPECIFICATION FairSpec
INVARIANTS
    SettledIsHandedOn
    AckedHasArrived
    ClosedHasArrivedOrExhausted
    RetryBudget
    KeptHasUnacked
PROPERTIES
    AckStopsResend
    ImplementsReliableDelivery
    EventualDelivery
    OutboxDrains
CHECK_DEADLOCK FALSE
