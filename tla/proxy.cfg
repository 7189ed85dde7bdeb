SPECIFICATION Spec
CONSTANTS
    None = None
    Unknown = Unknown
    Domains = {d1, d2, d3}
    Alone = d3
    Routes = {r1, r2}
    NoUpstream = {r2}
    Sanitized <- MCSanitized
INVARIANT
    TypeOK
PROPERTY
    ImplementsRoutingTable
