CONSTANTS
    n1 = n1
    n2 = n2
    big = big
    small = small
    ipA = ipA
    ipB = ipB
    Loopback = Loopback
    Nothing = Nothing
    Nodes <- MC_Nodes
    Messages <- MC_TwoMessages
    Origin <- MC_OriginTwo
    Target <- MC_TargetTwo
    Total <- MC_TotalTwo
    Crashable <- MC_NoNode
    Host <- MC_TwoHosts
    MaxAttempts = 2
    QueueBound = 1
SPECIFICATION Spec
INVARIANTS
    DeliveredIsComplete
    DeliveryInv
