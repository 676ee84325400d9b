SPECIFICATION ExpiringSpec
CONSTANTS
    Kinds = {Email}
    Originals = {o1, o2}
    Scopes = {r1, r2, r3}
    ExternalIds = {e1}
    NoExternalId = NoExternalId
    MaxFindings = 2
SYMMETRY Symmetry
INVARIANTS
    StoredSessionsUsable
    ResponsesSelfContained
