SPECIFICATION Spec
CONSTANTS
    c1 = c1
    c2 = c2
    c3 = c3
    Commands = {c1, c2, c3}
    Paths = {"s", "p", "t", "q"}
    Invocations <- MCInvocations
    Configurations <- MCConfigurations
INVARIANTS
    PrintedRestores
    PrintedIsRestorable
    PermitsHaveSessions
    CreatedConfigAccepted
CHECK_DEADLOCK FALSE
