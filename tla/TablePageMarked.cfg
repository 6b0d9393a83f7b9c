CONSTANTS
    PageSize = 10
    HeaderSize = 1
    SlotSize = 1
    Tuple <- Tuples
SPECIFICATION MixedSpec
INVARIANT StoredTuplesAreThere
