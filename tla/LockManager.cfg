CONSTANTS
    MaxTxnId = 2
    r1 = r1
    r2 = r2
    RID <- Records
    Strict = FALSE
SPECIFICATION Spec
SYMMETRY Symmetry
INVARIANTS
    TypeOK
    LockCompatibility
    NoDeadlock
    FirstWaiterIsBlocked
    LockSetsAreHeld
    NoAssertFails
    LockTableInv
