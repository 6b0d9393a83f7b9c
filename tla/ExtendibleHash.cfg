CONSTANTS
    f1 = f1
    f2 = f2
    Key <- Keys
    Value <- Frames
    Size = 1
SPECIFICATION Spec
SYMMETRY Symmetry
INVARIANTS
    TypeOK
    DirectoryIsRight
PROPERTY ImplementsHashTable
