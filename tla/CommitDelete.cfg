CONSTANTS
    MaxTxnId = 0
    r1 = r1
    r2 = r2
    RID <- OneRecord
    Strict = FALSE
    WTypes = {"DELETE"}
    MaxWrites = 1
    MaxRequests = 4
    Logging = TRUE
SPECIFICATION TMSpec
INVARIANT NoAssertFails
CHECK_DEADLOCK FALSE
