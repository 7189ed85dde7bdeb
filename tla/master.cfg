SPECIFICATION Spec
CONSTANTS
    None = None
    Projects = {p, q}
    Deployments = {d1, d2}
    Pods = {i1, i2}
    DeploymentNames = {web}
    Statuses = {s1, s2}
    Tokens = {t1, t2, t3}
    Rotations = {r1, r2}
    Keys = {k1, k2}
    SecretNames = {n1}
    Values = {v1, v2}
CONSTRAINT OneArea
SYMMETRY Symmetry
INVARIANTS
    TypeOK
    NoOrphans
    SomeoneCanJoin
    ShownIsCurrent
    SecretsReadable
    DamagedKeyGuardsNothing
PROPERTIES
    DeletedStaysDeleted
    RestartKeepsToken
