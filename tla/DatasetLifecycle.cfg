SPECIFICATION Spec
CONSTANTS
    f1 = f1
    f2 = f2
    Files <- TwoFiles
    InitFiles <- OneFile
    FolderOf <- OneFile
    NoFile = NoFile
    NoVersion = NoVersion
    Requests = {r1, r2, r3}
    Ops = {"Upload", "Update", "PatchFile", "PatchDataset", "DeleteFile", "DeleteFolder",
           "Freeze", "DeleteVersion", "DeleteDataset"}
    MaxServed = 3
SYMMETRY Symmetry
CHECK_DEADLOCK FALSE
INVARIANTS
    TypeOK
    LiveFileHasBytes
    ReleasedFileHasBytes
    NoUnreferencedBytes
    ReleaseIsComplete
    LaterReleaseHigherNumber
    NumbersWithoutGap
    OwnersFollowReleases
PROPERTIES
    KeepsVersionList
