CONSTANTS
    MaxTxnId = 2
    r1 = r1
    r2 = r2
    RID <- Records
    Strict = FALSE
    WTypes = {"UPDATE"}
    MaxWrites = 1
    MaxRequests = 4
    Logging = TRUE
SPECIFICATION FairTMSpec
INVARIANTS
    TMTypeOK
    ReleaseIsComplete
    HeldToTheEnd
PROPERTIES
    UsesLockManagerAsAllowed
    EveryTransactionEnds
CHECK_DEADLOCK FALSE
