CONSTANTS
    c1 = c1
    c2 = c2
    d1 = d1
    d2 = d2
    Client <- Clients
    Content <- OneContent
    PoolSize = 2
    MaxPages = 3
SPECIFICATION Spec
SYMMETRY Symmetry
INVARIANTS
    TypeOK
    FramePartition
    PinnedPagesStay
    CleanPagesAreOnDisk
    NothingFails
PROPERTY ImplementsPageStore
