SPECIFICATION Spec
CONSTANTS
    f1 = f1
    f2 = f2
    Files <- TwoFiles
    InitFiles <- OneFile
    FolderOf <- OneFile
    NoFile = NoFile
    NoVersion = NoVersion
    Requests = {r1, r2}
    Ops = {"Freeze", "DeleteFile"}
    MaxServed = 1
SYMMETRY Symmetry
CHECK_DEADLOCK FALSE
INVARIANTS
    ReleasedVersionReadable
