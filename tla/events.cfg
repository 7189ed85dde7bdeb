SPECIFICATION FairSpec
CONSTANTS
    Pods = {p1}
    Clients = {u1}
    MaxEvents = 4
    QueueCap = 1
    BroadcastCap = 2
INVARIANTS
    TypeOK
    ExitsAgree
    MissedReported
PROPERTIES
    ExitReported
    ClientCatchesUp
