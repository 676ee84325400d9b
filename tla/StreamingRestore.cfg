SPECIFICATION Spec
CONSTANTS
    Characters <- Alphabet
    Width <- WidthOf
    Prefix <- Marker
    Suffix <- Closing
    Tokens <- AllTokens
    Authorized <- AuthorizedTokens
    MaxBytes = 7
    MaxInput = 9
INVARIANTS
    PendingBounded
    NothingLost
    StreamEqualsWhole
CHECK_DEADLOCK FALSE
