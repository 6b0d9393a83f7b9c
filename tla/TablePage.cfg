CONSTANTS
    PageSize = 10
    HeaderSize = 1
    SlotSize = 1
    Tuple <- Tuples
SPECIFICATION Spec
INVARIANTS
    TypeOK
    TuplesTile
    StoredTuplesAreThere
