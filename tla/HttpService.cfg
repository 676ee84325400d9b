SPECIFICATION FairSpec
CONSTANTS
    q1 = q1
    q2 = q2
    q3 = q3
    Operations = {q1, q2, q3}
    Parallelism = 1
    AuditPathWords <- MCAuditPathWords
    Inputs <- MCInputs
INVARIANTS
    PermitsConserved
    RefusedRedactionsStoreNothing
    RestoredWithMatchingEnvelopes
PROPERTIES
    NoOvertaking
    UsesExecutor
    AnsweredWithoutStore
    AnsweredWhenStoreAnswers
CHECK_DEADLOCK FALSE
