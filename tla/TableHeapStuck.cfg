CONSTANTS
    MaxTxnId = 1
    RID <- MCRID
    Strict = FALSE
    WTypes = {"INSERT", "DELETE", "UPDATE"}
    MaxWrites = 2
    MaxRequests = 8
    Logging = TRUE
    Tuple <- MCTuple
    PageRoom = 5
    SlotRoom = 1
    MaxPages = 2
    Loaded <- MCLoaded
SPECIFICATION THSpec
CHECK_DEADLOCK FALSE
INVARIANT NobodyStuck
