SPECIFICATION Spec
CONSTANTS
    None = None
    Projects = {"shop"}
    Hosts = {"web", "Web", "web-1"}
    Names = {"web", "web-1"}
    Lower <- MCLower
    Split <- MCSplit
    Addresses = {"10.0.0.2", "fd00::3"}
    V6 = {"fd00::3"}
    Clients = {c1, c2}
    Queries <- MCQueries
    QueueLimit = 1
INVARIANTS
    EntriesMatch
PROPERTIES
    AnswersTrue
    QueriesServed
