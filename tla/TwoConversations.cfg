SPECIFICATION Spec
CONSTANTS
    Kinds = {Email, Url}
    Originals = {o1}
    Scopes = {r1, r2, r3}
    ExternalIds = {e1, e2}
    NoExternalId = NoExternalId
    MaxFindings = 2
SYMMETRY Symmetry
INVARIANTS
    TokensMeanOneValue
PROPERTIES
    ImplementsConversations
