SPECIFICATION FairSpec
CONSTANTS
    a = a
    b = b
    new = new
    inside = inside
    newFile = newFile
    r1 = r1
    r2 = r2
    r3 = r3
    Root = Root
    NoFolder = NoFolder
    NoFile = NoFile
    Folders = {a, b, new}
    Files = {inside, newFile}
    InitParent <- Tree
    InitFolder <- FileInside
    Requests = {r1, r2, r3}
    Ops <- OpsOf
    MaxDepth = 3
CHECK_DEADLOCK FALSE
INVARIANTS
    TypeOK
    NothingOrphaned
    DeletedWithContents
PROPERTIES
    EveryDeletionEnds
