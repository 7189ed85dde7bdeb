SPECIFICATION Spec
CONSTANTS
    None = None
    Hosts = {h1, h2}
    Names = {1, 2}
    HostName <- Namesakes
    MasterName = 1
    NodeIds = {n1, n2, n3}
    Calls = {c1, c2}
    Streams = {}
    Admins = {a1}
    MaxQueued = 1
    NotReadyAge = 1
    DeadAge = 2
SYMMETRY Symmetry
INVARIANTS
    TypeOK
    UniqueNames
    AcceptedOwnsRow
PROPERTIES
    ImplementsMembership
