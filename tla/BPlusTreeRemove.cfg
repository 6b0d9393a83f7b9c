CONSTANTS
    t1 = t1
    t2 = t2
    MaxKey = 3
    Thread <- MCThread
    Key <- MCKey
    Value = {1}
    PageId <- MCPageId
    TrivialPageId = 0
    RemoveAlone = FALSE
    OverlapKey = {1, 2, 3}
    LeafMax = 2
    InternalMax = 4
SPECIFICATION FairSpec
PROPERTY IndexPromise
CHECK_DEADLOCK FALSE
