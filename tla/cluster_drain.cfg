SPECIFICATION Spec
CONSTANTS
    None = None
    Hosts = {h1}
    Names = {1, 2}
    HostName <- Namesakes
    MasterName = 1
    NodeIds = {n1, n2}
    Calls = {c1}
    Streams = {s1}
    Admins = {a1}
    MaxQueued = 1
    NotReadyAge = 1
    DeadAge = 2
PROPERTY
    ReadyNotRemoved
