CONSTANTS
    t1 = t1
    t2 = t2
    MaxKey = 6
    Thread <- MCThread
    Key <- MCKey
    Value = {1}
    PageId <- MCPageId
    TrivialPageId = 1
    RemoveAlone = TRUE
    OverlapKey = {2, 3}
    LeafMax = 2
    InternalMax = 4
SPECIFICATION Spec
SYMMETRY MCSymmetry
VIEW MCView
INVARIANTS TypeOK Integrity AssertsHold PinnedWhileUsed ScansInOrder SomeoneProceeds
PROPERTY IndexPromise
