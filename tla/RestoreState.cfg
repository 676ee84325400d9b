SPECIFICATION Spec
CONSTANTS
    Kinds = {Email}
    Originals = {o1, o2}
    Scopes = {r1, r2, r3}
    ExternalIds = {e1}
    NoExternalId = NoExternalId
    MaxFindings = 2
    MaxBuilt = 3
SYMMETRY Symmetry
INVARIANTS
    TypeOK
    DeliveredTextsRestore
    OnlyDeliveredAuthorized
    PermitsPartitionTokens
    LinearUseAccepted
    StateReloads
PROPERTIES
    PermitsOnlyGrow
