------------------------ MODULE DatasetBytes_proofs ------------------------
(***************************************************************************)
(* Proofs about the bytes that the live files of a dataset share with      *)
(* their released copies: nobody takes them from a file that has not been  *)
(* deleted or from a released copy, none are left behind unnoticed, and a  *)
(* release copies every file.                                              *)
(***************************************************************************)
EXTENDS DatasetVersions_proofs

\* A handler that took away a reference to its file and has not yet seen another one.
Unsure == {"checkFrozen", "checkLive", "frozenRemove", "fileCheck", "fileRemove"}

\* What a step does to the stores, and which handlers it takes
Stored(r) ==
    /\ \A f \in files' \ files : f = req[r].file /\
          \/ req[r].op # "Upload" /\ req[r].pc = "save" /\ f \in req'[r].revived
          \/ req[r].op = "Upload" /\ req[r].pc = "insert"
    /\ \A f \in files \ files' : f = req[r].file /\
          \/ req[r].op = "DeleteFile"
          \/ req[r].op \in FileDeletions /\ req'[r].pc = "fileCheck" /\ req'[r].file = f
    /\ \A f \in bytes' \ bytes : f = req[r].file /\ req[r].op \in {"Upload", "Update"}
    /\ \A f \in bytes \ bytes' : f = req[r].file /\
          \/ req[r].op = "DeleteFile"
          \/ req[r].op \in VersionDeletions /\ req[r].pc = "frozenRemove"
          \/ req[r].op \in FileDeletions /\ req[r].pc = "fileRemove"
    /\ \A x \in frozenFiles' \ frozenFiles : \E f \in req[r].todo :
          x = <<r, f>> /\ req[r].op = "Freeze" /\ req[r].pc = "copy"
    /\ \A x \in frozenFiles \ frozenFiles' :
          /\ x = <<req[r].version, req[r].file>>
          /\ req[r].op \in VersionDeletions
          /\ req'[r].pc = "checkFrozen" /\ req'[r].file = req[r].file

\* How the local variables of a handler change
Moved(r) ==
    /\ \A f \in req'[r].todo : \/ f \in req[r].todo \/ f \in files
                               \/ \E v \in Versions : f \in CopiesOf(v)
    /\ req'[r].file # req[r].file => req'[r].file \in req[r].todo
    /\ req[r].op = "Upload" =>
          /\ req'[r].pc # "insert"
          /\ req[r].pc = "insert" => req'[r].pc = "put"
          /\ req[r].pc = "put" => req[r].file \in bytes'
    /\ req[r].op \in VersionDeletions /\ req'[r].pc = "checkLive" =>
          req'[r].file = req[r].file /\ ~ FrozenSomewhere(req[r].file)'
    /\ req[r].op \in VersionDeletions /\ req'[r].pc = "frozenRemove" =>
          /\ req'[r].file = req[r].file /\ req[r].file \notin files'
          /\ req[r].pc = "checkLive" /\ frozenFiles' = frozenFiles
    /\ req[r].op \in FileDeletions /\ req'[r].pc = "fileCheck" => req'[r].file \notin files'
    /\ req[r].op \in FileDeletions /\ req'[r].pc = "fileRemove" =>
          /\ req'[r].file = req[r].file /\ req[r].pc = "fileCheck"
          /\ files' = files /\ ~ FrozenSomewhere(req[r].file)'

\* How a release comes to its copies
Copied(r) == req[r].op = "Freeze" =>
    /\ req'[r].pc = "copy" =>
          \/ req[r].pc = "list" /\ req'[r].todo = files /\ files' = files
          \/ req[r].pc = "copy" /\ req'[r].todo \subseteq req[r].todo
             /\ \A f \in req[r].todo \ req'[r].todo : f \in CopiesOf(r)'
    /\ req'[r].pc = "done" => req[r].pc = "copy" /\ req[r].todo = {}

\* A handler that is unsure about its file stays so until the file is found or gone.
Settled(r) == req[r].pc \in Unsure =>
    /\ req'[r].file = req[r].file
    /\ \/ req'[r].pc \in Unsure
       \/ req[r].file \in files' \/ FrozenSomewhere(req[r].file)' \/ req[r].file \notin bytes'

LEMMA StoredStep ==
  ASSUME TypeInv, NEW r \in Requests, Step(r) PROVE Stored(r)
<1> USE DEF Stored, stores, At, Goto, Stop, VersionDeletions, FileDeletions,
           TypeInv, TypeOK, Request
<1>1. ASSUME FileStep(r) PROVE Stored(r)
  <2>1. CASE InsertFile(r)
    BY <2>1 DEF InsertFile
  <2>2. CASE PutObject(r)
    BY <2>2 DEF PutObject
  <2>3. CASE ReplaceFile(r)
    BY <2>3 DEF ReplaceFile
  <2>4. CASE SaveFile(r)
    BY <2>4 DEF SaveFile
  <2>5. CASE SaveDataset(r)
    BY <2>5 DEF SaveDataset
  <2>6. CASE ListPatched(r)
    BY <2>6 DEF ListPatched
  <2>7. CASE NextPatched(r)
    BY <2>7, NextPatchedTakes
  <2>8. CASE NoMorePatched(r)
    BY <2>8 DEF NoMorePatched
  <2>9. CASE RemoveObject(r)
    BY <2>9 DEF RemoveObject
  <2>10. CASE DeleteFileDoc(r)
    BY <2>10 DEF DeleteFileDoc
  <2> QED
    BY <1>1, <2>1, <2>2, <2>3, <2>4, <2>5, <2>6, <2>7, <2>8, <2>9, <2>10 DEF FileStep
<1>2. ASSUME FreezeStep(r) PROVE Stored(r)
  <2>1. CASE ReadLatest(r)
    BY <2>1 DEF ReadLatest
  <2>2. CASE InsertVersion(r)
    BY <2>2 DEF InsertVersion
  <2>3. CASE ListFiles(r)
    BY <2>3 DEF ListFiles
  <2>4. CASE CopyFile(r)
    BY <2>4 DEF CopyFile
  <2>5. CASE Authorize(r)
    BY <2>5 DEF Authorize
  <2> QED
    BY <1>2, <2>1, <2>2, <2>3, <2>4, <2>5 DEF FreezeStep
<1>3. ASSUME VersionDeletionStep(r) PROVE Stored(r)
  <2>1. CASE FindVersions(r)
    BY <2>1 DEF FindVersions
  <2>2. CASE NextVersion(r)
    BY <2>2 DEF NextVersion
  <2>3. CASE NoMoreVersions(r)
    BY <2>3 DEF NoMoreVersions
  <2>4. CASE OpenFrozenCursor(r)
    BY <2>4 DEF OpenFrozenCursor
  <2>5. CASE NextFrozenFile(r)
    BY <2>5, NextFrozenFileTakes DEF Takes
  <2>6. CASE NoMoreFrozenFiles(r)
    BY <2>6 DEF NoMoreFrozenFiles
  <2>7. CASE DeleteFrozenFile(r)
    BY <2>7 DEF DeleteFrozenFile
  <2>8. CASE CheckFrozen(r)
    BY <2>8 DEF CheckFrozen
  <2>9. CASE CheckLive(r)
    BY <2>9 DEF CheckLive
  <2>10. CASE RemoveFrozenBytes(r)
    BY <2>10 DEF RemoveFrozenBytes
  <2>11. CASE Deauthorize(r)
    BY <2>11 DEF Deauthorize
  <2>12. CASE MarkDeleted(r)
    BY <2>12 DEF MarkDeleted
  <2>13. CASE EraseVersion(r)
    BY <2>13 DEF EraseVersion
  <2> QED
    BY <1>3, <2>1, <2>2, <2>3, <2>4, <2>5, <2>6, <2>7, <2>8, <2>9, <2>10,
       <2>11, <2>12, <2>13 DEF VersionDeletionStep
<1>4. ASSUME FileDeletionStep(r) PROVE Stored(r)
  <2>1. CASE OpenFileCursor(r)
    BY <2>1 DEF OpenFileCursor
  <2>2. CASE NextFile(r)
    BY <2>2, NextFileTakes DEF Takes
  <2>3. CASE DeleteFileEntry(r)
    BY <2>3 DEF DeleteFileEntry
  <2>4. CASE CheckReleased(r)
    BY <2>4 DEF CheckReleased
  <2>5. CASE RemoveBytes(r)
    BY <2>5 DEF RemoveBytes
  <2>6. CASE NoMoreFiles(r)
    BY <2>6 DEF NoMoreFiles
  <2>7. CASE DropDataset(r)
    BY <2>7 DEF DropDataset
  <2>8. CASE LicenseMissing(r)
    BY <2>8 DEF LicenseMissing
  <2> QED
    BY <1>4, <2>1, <2>2, <2>3, <2>4, <2>5, <2>6, <2>7, <2>8 DEF FileDeletionStep
<1> QED
  BY <1>1, <1>2, <1>3, <1>4 DEF Step

LEMMA MovedStep ==
  ASSUME TypeInv, NEW r \in Requests, Step(r) PROVE Moved(r)
<1> USE DEF Moved, stores, At, Goto, Stop, VersionDeletions, FileDeletions,
           TypeInv, TypeOK, Request, FrozenSomewhere, CopiesOf
<1>1. ASSUME FileStep(r) PROVE Moved(r)
  <2>1. CASE InsertFile(r)
    BY <2>1 DEF InsertFile
  <2>2. CASE PutObject(r)
    BY <2>2 DEF PutObject
  <2>3. CASE ReplaceFile(r)
    BY <2>3 DEF ReplaceFile
  <2>4. CASE SaveFile(r)
    BY <2>4 DEF SaveFile
  <2>5. CASE SaveDataset(r)
    BY <2>5 DEF SaveDataset
  <2>6. CASE ListPatched(r)
    BY <2>6 DEF ListPatched
  <2>7. CASE NextPatched(r)
    BY <2>7, NextPatchedTakes
  <2>8. CASE NoMorePatched(r)
    BY <2>8 DEF NoMorePatched
  <2>9. CASE RemoveObject(r)
    BY <2>9 DEF RemoveObject
  <2>10. CASE DeleteFileDoc(r)
    BY <2>10 DEF DeleteFileDoc
  <2> QED
    BY <1>1, <2>1, <2>2, <2>3, <2>4, <2>5, <2>6, <2>7, <2>8, <2>9, <2>10 DEF FileStep
<1>2. ASSUME FreezeStep(r) PROVE Moved(r)
  <2>1. CASE ReadLatest(r)
    BY <2>1 DEF ReadLatest
  <2>2. CASE InsertVersion(r)
    BY <2>2 DEF InsertVersion
  <2>3. CASE ListFiles(r)
    BY <2>3 DEF ListFiles
  <2>4. CASE CopyFile(r)
    BY <2>4 DEF CopyFile
  <2>5. CASE Authorize(r)
    BY <2>5 DEF Authorize
  <2> QED
    BY <1>2, <2>1, <2>2, <2>3, <2>4, <2>5 DEF FreezeStep
<1>3. ASSUME VersionDeletionStep(r) PROVE Moved(r)
  <2>1. CASE FindVersions(r)
    BY <2>1 DEF FindVersions
  <2>2. CASE NextVersion(r)
    BY <2>2 DEF NextVersion
  <2>3. CASE NoMoreVersions(r)
    BY <2>3 DEF NoMoreVersions
  <2>4. CASE OpenFrozenCursor(r)
    BY <2>4 DEF OpenFrozenCursor
  <2>5. CASE NextFrozenFile(r)
    BY <2>5, NextFrozenFileTakes DEF Takes
  <2>6. CASE NoMoreFrozenFiles(r)
    BY <2>6 DEF NoMoreFrozenFiles
  <2>7. CASE DeleteFrozenFile(r)
    BY <2>7 DEF DeleteFrozenFile
  <2>8. CASE CheckFrozen(r)
    BY <2>8 DEF CheckFrozen
  <2>9. CASE CheckLive(r)
    BY <2>9 DEF CheckLive
  <2>10. CASE RemoveFrozenBytes(r)
    BY <2>10 DEF RemoveFrozenBytes
  <2>11. CASE Deauthorize(r)
    BY <2>11 DEF Deauthorize
  <2>12. CASE MarkDeleted(r)
    BY <2>12 DEF MarkDeleted
  <2>13. CASE EraseVersion(r)
    BY <2>13 DEF EraseVersion
  <2> QED
    BY <1>3, <2>1, <2>2, <2>3, <2>4, <2>5, <2>6, <2>7, <2>8, <2>9, <2>10,
       <2>11, <2>12, <2>13 DEF VersionDeletionStep
<1>4. ASSUME FileDeletionStep(r) PROVE Moved(r)
  <2>1. CASE OpenFileCursor(r)
    BY <2>1 DEF OpenFileCursor
  <2>2. CASE NextFile(r)
    BY <2>2, NextFileTakes DEF Takes
  <2>3. CASE DeleteFileEntry(r)
    BY <2>3 DEF DeleteFileEntry
  <2>4. CASE CheckReleased(r)
    BY <2>4 DEF CheckReleased
  <2>5. CASE RemoveBytes(r)
    BY <2>5 DEF RemoveBytes
  <2>6. CASE NoMoreFiles(r)
    <3>1. CASE Stop(r, "done")
      BY <2>6, <3>1 DEF NoMoreFiles
    <3>2. CASE Goto(r, "dropDataset")
      BY <2>6, <3>2 DEF NoMoreFiles
    <3> QED
      BY <2>6, <3>1, <3>2 DEF NoMoreFiles
  <2>7. CASE DropDataset(r)
    BY <2>7 DEF DropDataset
  <2>8. CASE LicenseMissing(r)
    BY <2>8 DEF LicenseMissing
  <2> QED
    BY <1>4, <2>1, <2>2, <2>3, <2>4, <2>5, <2>6, <2>7, <2>8 DEF FileDeletionStep
<1> QED
  BY <1>1, <1>2, <1>3, <1>4 DEF Step

LEMMA SettledStep ==
  ASSUME TypeInv, NEW r \in Requests, Step(r) PROVE Settled(r)
<1> USE DEF Settled, stores, At, Goto, Stop, VersionDeletions, FileDeletions,
           TypeInv, TypeOK, Request, Unsure, FrozenSomewhere
<1>1. ASSUME FileStep(r) PROVE Settled(r)
  <2>1. CASE InsertFile(r)
    BY <2>1 DEF InsertFile
  <2>2. CASE PutObject(r)
    BY <2>2 DEF PutObject
  <2>3. CASE ReplaceFile(r)
    BY <2>3 DEF ReplaceFile
  <2>4. CASE SaveFile(r)
    BY <2>4 DEF SaveFile
  <2>5. CASE SaveDataset(r)
    BY <2>5 DEF SaveDataset
  <2>6. CASE ListPatched(r)
    BY <2>6 DEF ListPatched
  <2>7. CASE NextPatched(r)
    BY <2>7, NextPatchedTakes
  <2>8. CASE NoMorePatched(r)
    BY <2>8 DEF NoMorePatched
  <2>9. CASE RemoveObject(r)
    BY <2>9 DEF RemoveObject
  <2>10. CASE DeleteFileDoc(r)
    BY <2>10 DEF DeleteFileDoc
  <2> QED
    BY <1>1, <2>1, <2>2, <2>3, <2>4, <2>5, <2>6, <2>7, <2>8, <2>9, <2>10 DEF FileStep
<1>2. ASSUME FreezeStep(r) PROVE Settled(r)
  <2>1. CASE ReadLatest(r)
    BY <2>1 DEF ReadLatest
  <2>2. CASE InsertVersion(r)
    BY <2>2 DEF InsertVersion
  <2>3. CASE ListFiles(r)
    BY <2>3 DEF ListFiles
  <2>4. CASE CopyFile(r)
    BY <2>4 DEF CopyFile
  <2>5. CASE Authorize(r)
    BY <2>5 DEF Authorize
  <2> QED
    BY <1>2, <2>1, <2>2, <2>3, <2>4, <2>5 DEF FreezeStep
<1>3. ASSUME VersionDeletionStep(r) PROVE Settled(r)
  <2>1. CASE FindVersions(r)
    BY <2>1 DEF FindVersions
  <2>2. CASE NextVersion(r)
    BY <2>2 DEF NextVersion
  <2>3. CASE NoMoreVersions(r)
    BY <2>3 DEF NoMoreVersions
  <2>4. CASE OpenFrozenCursor(r)
    BY <2>4 DEF OpenFrozenCursor
  <2>5. CASE NextFrozenFile(r)
    BY <2>5, NextFrozenFileTakes DEF Takes
  <2>6. CASE NoMoreFrozenFiles(r)
    BY <2>6 DEF NoMoreFrozenFiles
  <2>7. CASE DeleteFrozenFile(r)
    BY <2>7 DEF DeleteFrozenFile
  <2>8. CASE CheckFrozen(r)
    BY <2>8 DEF CheckFrozen
  <2>9. CASE CheckLive(r)
    BY <2>9 DEF CheckLive
  <2>10. CASE RemoveFrozenBytes(r)
    BY <2>10 DEF RemoveFrozenBytes
  <2>11. CASE Deauthorize(r)
    BY <2>11 DEF Deauthorize
  <2>12. CASE MarkDeleted(r)
    BY <2>12 DEF MarkDeleted
  <2>13. CASE EraseVersion(r)
    BY <2>13 DEF EraseVersion
  <2> QED
    BY <1>3, <2>1, <2>2, <2>3, <2>4, <2>5, <2>6, <2>7, <2>8, <2>9, <2>10,
       <2>11, <2>12, <2>13 DEF VersionDeletionStep
<1>4. ASSUME FileDeletionStep(r) PROVE Settled(r)
  <2>1. CASE OpenFileCursor(r)
    BY <2>1 DEF OpenFileCursor
  <2>2. CASE NextFile(r)
    BY <2>2, NextFileTakes DEF Takes
  <2>3. CASE DeleteFileEntry(r)
    BY <2>3 DEF DeleteFileEntry
  <2>4. CASE CheckReleased(r)
    BY <2>4 DEF CheckReleased
  <2>5. CASE RemoveBytes(r)
    BY <2>5 DEF RemoveBytes
  <2>6. CASE NoMoreFiles(r)
    BY <2>6 DEF NoMoreFiles
  <2>7. CASE DropDataset(r)
    BY <2>7 DEF DropDataset
  <2>8. CASE LicenseMissing(r)
    BY <2>8 DEF LicenseMissing
  <2> QED
    BY <1>4, <2>1, <2>2, <2>3, <2>4, <2>5, <2>6, <2>7, <2>8 DEF FileDeletionStep
<1> QED
  BY <1>1, <1>2, <1>3, <1>4 DEF Step

LEMMA CopiedStep ==
  ASSUME TypeInv, NEW r \in Requests, Step(r) PROVE Copied(r)
<1> USE DEF Copied, stores, At, Goto, Stop, VersionDeletions, FileDeletions,
           TypeInv, TypeOK, Request, CopiesOf
<1>1. ASSUME FileStep(r) PROVE Copied(r)
  <2>1. CASE InsertFile(r)
    BY <2>1 DEF InsertFile
  <2>2. CASE PutObject(r)
    BY <2>2 DEF PutObject
  <2>3. CASE ReplaceFile(r)
    BY <2>3 DEF ReplaceFile
  <2>4. CASE SaveFile(r)
    BY <2>4 DEF SaveFile
  <2>5. CASE SaveDataset(r)
    BY <2>5 DEF SaveDataset
  <2>6. CASE ListPatched(r)
    BY <2>6 DEF ListPatched
  <2>7. CASE NextPatched(r)
    BY <2>7, NextPatchedTakes
  <2>8. CASE NoMorePatched(r)
    BY <2>8 DEF NoMorePatched
  <2>9. CASE RemoveObject(r)
    BY <2>9 DEF RemoveObject
  <2>10. CASE DeleteFileDoc(r)
    BY <2>10 DEF DeleteFileDoc
  <2> QED
    BY <1>1, <2>1, <2>2, <2>3, <2>4, <2>5, <2>6, <2>7, <2>8, <2>9, <2>10 DEF FileStep
<1>2. ASSUME FreezeStep(r) PROVE Copied(r)
  <2>1. CASE ReadLatest(r)
    BY <2>1 DEF ReadLatest
  <2>2. CASE InsertVersion(r)
    BY <2>2 DEF InsertVersion
  <2>3. CASE ListFiles(r)
    BY <2>3 DEF ListFiles
  <2>4. CASE CopyFile(r)
    BY <2>4 DEF CopyFile
  <2>5. CASE Authorize(r)
    BY <2>5 DEF Authorize
  <2> QED
    BY <1>2, <2>1, <2>2, <2>3, <2>4, <2>5 DEF FreezeStep
<1>3. ASSUME VersionDeletionStep(r) PROVE Copied(r)
  BY <1>3 DEF VersionDeletionStep, FindVersions, NextVersion, NoMoreVersions,
      OpenFrozenCursor, NextFrozenFile, NoMoreFrozenFiles, DeleteFrozenFile, CheckFrozen,
      CheckLive, RemoveFrozenBytes, Deauthorize, MarkDeleted, EraseVersion
<1>4. ASSUME FileDeletionStep(r) PROVE Copied(r)
  BY <1>4 DEF FileDeletionStep, OpenFileCursor, NextFile, DeleteFileEntry, CheckReleased,
      RemoveBytes, NoMoreFiles, DropDataset, LicenseMissing
<1> QED
  BY <1>1, <1>2, <1>3, <1>4 DEF Step

-----------------------------------------------------------------------------
\* A request that arrives finds its files in the dataset, or uploads a new one.
Arrived(r) ==
    /\ UNCHANGED stores
    /\ req[r].pc = "idle" /\ req[r].op = "none" /\ req[r].revived = {}
    /\ \A q \in Requests : q # r => req'[q] = req[q]
    /\ running' = running \cup {r}
    /\ req'[r].todo = {} /\ req'[r].present = files
    /\ req'[r].pc \notin Unsure \cup {"copy", "done", "fileDelete", "frozenDelete"}
    /\ \/ req'[r].op # "Upload" /\ req'[r].file \in files \cup {NoFile}
       \/ /\ req'[r].op = "Upload" /\ req'[r].pc = "insert"
          /\ req'[r].file \in Files \ InitFiles
          /\ \A q \in Requests : req[q].op = "Upload" => req[q].file # req'[r].file
    /\ \/ overlapped'
       \/ /\ ~ overlapped
          /\ \A q \in running : /\ req'[r].op = "Freeze" => req[q].op \notin Deletions
                                /\ req'[r].op \in Deletions => req[q].op # "Freeze"

LEMMA ArrivedStart ==
  ASSUME TypeInv, IdleOK, NEW r \in Requests, Start(r) PROVE Arrived(r)
<1> USE DEF Arrived, Arrive, TypeInv, TypeOK, IdleOK, Unsure
<1>1. CASE Upload(r)
  BY <1>1 DEF Upload, Deletions, VersionDeletions, FileDeletions
<1>2. CASE Update(r) \/ PatchFile(r) \/ DeleteFile(r)
  BY <1>2 DEF Update, PatchFile, DeleteFile, Deletions, VersionDeletions, FileDeletions
<1>3. CASE DeleteFolder(r) \/ Freeze(r) \/ DeleteDataset(r) \/ PatchDataset(r)
  BY <1>3 DEF DeleteFolder, Freeze, DeleteDataset, PatchDataset
<1>4. CASE DeleteVersion(r)
  <2> PICK v \in Recorded : Arrive(r, "DeleteVersion", "frozenCursor", NoFile, v)
    BY <1>4 DEF DeleteVersion
  <2> QED
    OBVIOUS
<1> QED
  BY <1>1, <1>2, <1>3, <1>4 DEF Start

\* The files an upload has inserted; all that handlers and copies refer to are among them.
KnownFiles == InitFiles \cup
    {f \in Files : \E r \in Requests :
        req[r].op = "Upload" /\ req[r].file = f /\ req[r].pc # "insert"}

KnownOK ==
    /\ files \subseteq KnownFiles
    /\ \A v \in Versions : CopiesOf(v) \subseteq KnownFiles
    /\ \A r \in Requests : /\ req[r].todo \subseteq KnownFiles
                           /\ req[r].present \subseteq KnownFiles
                           /\ req[r].op # "Upload" => req[r].file \in KnownFiles \cup {NoFile}
    /\ \A r, q \in Requests :
         req[r].op = "Upload" /\ req[q].op = "Upload" /\ req[r].file = req[q].file => r = q
    /\ \A r \in Requests : req[r].op = "Upload" => req[r].file \notin InitFiles

BaseInv == TypeInv /\ IdleOK /\ KnownOK

LEMMA KnownStart ==
  ASSUME BaseInv, NEW r \in Requests, Start(r) PROVE KnownOK'
<1>1. Arrived(r)
  BY ArrivedStart DEF BaseInv
<1>2. KnownFiles \subseteq KnownFiles'
  <2> SUFFICES ASSUME NEW f \in Files, NEW q \in Requests,
                      req[q].op = "Upload" /\ req[q].file = f /\ req[q].pc # "insert"
               PROVE  req'[q].op = "Upload" /\ req'[q].file = f /\ req'[q].pc # "insert"
    BY DEF KnownFiles
  <2> QED
    BY <1>1 DEF Arrived
<1>3. files' \subseteq KnownFiles' /\ (\A v \in Versions : CopiesOf(v) \subseteq KnownFiles)'
  BY <1>1, <1>2 DEF Arrived, BaseInv, KnownOK, stores, CopiesOf
<1>4. \A q \in Requests :
         /\ req'[q].todo \subseteq KnownFiles' /\ req'[q].present \subseteq KnownFiles'
         /\ req'[q].op # "Upload" => req'[q].file \in KnownFiles' \cup {NoFile}
  <2> SUFFICES ASSUME NEW q \in Requests
               PROVE  /\ req'[q].todo \subseteq KnownFiles' /\ req'[q].present \subseteq KnownFiles'
                      /\ req'[q].op # "Upload" => req'[q].file \in KnownFiles' \cup {NoFile}
    OBVIOUS
  <2>1. CASE q = r
    BY <1>1, <1>2, <2>1 DEF Arrived, BaseInv, KnownOK
  <2>2. CASE q # r
    BY <1>1, <1>2, <2>2 DEF Arrived, BaseInv, KnownOK
  <2> QED
    BY <2>1, <2>2
<1>5. \A p, q \in Requests :
         req'[p].op = "Upload" /\ req'[q].op = "Upload" /\ req'[p].file = req'[q].file => p = q
  BY <1>1 DEF Arrived, BaseInv, KnownOK
<1>6. \A q \in Requests : req'[q].op = "Upload" => req'[q].file \notin InitFiles
  BY <1>1 DEF Arrived, BaseInv, KnownOK
<1> QED
  BY <1>3, <1>4, <1>5, <1>6 DEF KnownOK

LEMMA KnownGrows ==
  ASSUME TypeInv, NEW r \in Requests, Step(r) PROVE KnownFiles \subseteq KnownFiles'
<1>1. Frame(r) /\ Moved(r)
  BY FrameStep, MovedStep DEF TypeInv
<1> SUFFICES ASSUME NEW f \in Files, NEW q \in Requests,
                    req[q].op = "Upload" /\ req[q].file = f /\ req[q].pc # "insert"
             PROVE  req'[q].op = "Upload" /\ req'[q].file = f /\ req'[q].pc # "insert"
  BY DEF KnownFiles
<1> QED
  BY <1>1 DEF Frame, Moved, Deletions, VersionDeletions, FileDeletions

LEMMA KnownStep ==
  ASSUME BaseInv, NEW r \in Requests, Step(r) PROVE KnownOK'
<1>1. Frame(r) /\ Moved(r) /\ Stored(r) /\ KnownFiles \subseteq KnownFiles'
  BY FrameStep, MovedStep, StoredStep, KnownGrows DEF BaseInv, TypeInv
<1>2. files' \subseteq KnownFiles'
  <2> SUFFICES ASSUME NEW f \in files' \ files PROVE f \in KnownFiles'
    BY <1>1 DEF BaseInv, KnownOK
  <2>1. f = req[r].file
    BY <1>1 DEF Stored
  <2>2. CASE req[r].op # "Upload" /\ req[r].pc = "save"
    <3>1. f \in Files
      BY <2>1, <2>2 DEF BaseInv, TypeInv, ArgumentsOK
    <3> QED
      BY <1>1, <2>1, <2>2, <3>1, NoneAssumption DEF BaseInv, KnownOK
  <2>3. CASE req[r].op = "Upload" /\ req[r].pc = "insert"
    <3>1. /\ req'[r].op = "Upload" /\ req'[r].pc # "insert" /\ req'[r].file = f
          /\ f \in Files
      BY <1>1, <2>1, <2>3 DEF Frame, Moved, BaseInv, TypeInv, ArgumentsOK,
         Deletions, VersionDeletions, FileDeletions
    <3> QED
      BY <3>1 DEF KnownFiles
  <2> QED
    BY <1>1, <2>2, <2>3 DEF Stored
<1>3. (\A v \in Versions : CopiesOf(v) \subseteq KnownFiles)'
  <2> SUFFICES ASSUME NEW v \in Versions, NEW f \in Files, <<v, f>> \in frozenFiles'
               PROVE  f \in KnownFiles'
    BY DEF CopiesOf
  <2>1. CASE <<v, f>> \in frozenFiles
    BY <1>1, <2>1 DEF BaseInv, KnownOK, CopiesOf
  <2>2. CASE <<v, f>> \notin frozenFiles
    <3>1. f \in req[r].todo
      BY <1>1, <2>2 DEF Stored
    <3> QED
      BY <1>1, <3>1 DEF BaseInv, KnownOK
  <2> QED
    BY <2>1, <2>2
<1>4. \A q \in Requests :
         /\ req'[q].todo \subseteq KnownFiles' /\ req'[q].present \subseteq KnownFiles'
         /\ req'[q].op # "Upload" => req'[q].file \in KnownFiles' \cup {NoFile}
  <2> SUFFICES ASSUME NEW q \in Requests
               PROVE  /\ req'[q].todo \subseteq KnownFiles' /\ req'[q].present \subseteq KnownFiles'
                      /\ req'[q].op # "Upload" => req'[q].file \in KnownFiles' \cup {NoFile}
    OBVIOUS
  <2>1. CASE q = r
    BY <1>1, <2>1 DEF Frame, Moved, BaseInv, KnownOK
  <2>2. CASE q # r
    BY <1>1, <2>2 DEF Frame, BaseInv, KnownOK
  <2> QED
    BY <2>1, <2>2
<1>5. \A q \in Requests : /\ req'[q].op = req[q].op
                          /\ req[q].op = "Upload" => req'[q].file = req[q].file
  BY <1>1 DEF Frame, Deletions, VersionDeletions, FileDeletions
<1>6. \A p, q \in Requests :
         req'[p].op = "Upload" /\ req'[q].op = "Upload" /\ req'[p].file = req'[q].file => p = q
  BY <1>5 DEF BaseInv, KnownOK
<1>7. \A q \in Requests : req'[q].op = "Upload" => req'[q].file \notin InitFiles
  BY <1>5 DEF BaseInv, KnownOK
<1> QED
  BY <1>2, <1>3, <1>4, <1>6, <1>7 DEF KnownOK

LEMMA KnownUnchanged ==
  ASSUME KnownOK, UNCHANGED <<files, frozenFiles, req>> PROVE KnownOK'
  BY DEF KnownOK, KnownFiles, CopiesOf

LEMMA BaseInvariant == Spec => []BaseInv
<1>1. Init => KnownOK
  BY DEF Init, KnownOK, KnownFiles, CopiesOf, NoRequest
<1>2. TypeInv /\ IdleOK /\ KnownOK /\ [Next]_vars => KnownOK'
  BY KnownStart, KnownStep, KnownUnchanged DEF BaseInv, Next, Crash, stores, vars
<1> QED
  BY <1>1, <1>2, TypeInvariant, IdleInvariant, PTL DEF Spec, BaseInv

-----------------------------------------------------------------------------
\* What was asked of a file stays asked, and bytes stay until somebody takes them.
HasBytes(f) == f \in bytes \/ NotStored(f) \/ Asked({"DeleteFile"}, f) \/ Revived(f)

FileRequests == {"Upload", "Update", "DeleteFile"}

LEMMA AskedStays ==
  ASSUME BaseInv, NEW r \in Requests, Start(r) \/ Step(r), NEW f,
         NEW ops \in SUBSET FileRequests, Asked(ops, f)
  PROVE  Asked(ops, f)'
<1> PICK q \in Requests : req[q].op \in ops /\ req[q].file = f
  BY DEF Asked
<1>1. req'[q].op = req[q].op /\ req'[q].file = req[q].file
  <2>1. CASE Start(r)
    BY <2>1, ArrivedStart DEF Arrived, BaseInv, FileRequests
  <2>2. CASE Step(r)
    BY <2>2, FrameStep DEF Frame, BaseInv, TypeInv, FileRequests, Deletions,
       VersionDeletions, FileDeletions
  <2> QED
    BY <2>1, <2>2
<1> QED
  BY <1>1 DEF Asked

LEMMA RevivedStays ==
  ASSUME BaseInv, NEW r \in Requests, Start(r) \/ Step(r), NEW f, Revived(f)
  PROVE  Revived(f)'
<1> PICK q \in Requests : f \in req[q].revived
  BY DEF Revived
<1>1. f \in req'[q].revived
  <2>1. CASE Start(r)
    BY <2>1, ArrivedStart DEF Arrived, BaseInv
  <2>2. CASE Step(r)
    BY <2>2, FrameStep DEF Frame, BaseInv, TypeInv
  <2> QED
    BY <2>1, <2>2
<1> QED
  BY <1>1 DEF Revived

LEMMA NotStoredStays ==
  ASSUME BaseInv, NEW r \in Requests, Start(r) \/ Step(r), NEW f, NotStored(f)
  PROVE  NotStored(f)' \/ f \in bytes'
<1> PICK q \in Requests :
      req[q].op = "Upload" /\ req[q].file = f /\ req[q].pc \in {"insert", "put"}
  BY DEF NotStored
<1>1. CASE Start(r)
  BY <1>1, ArrivedStart DEF Arrived, BaseInv, NotStored
<1>2. CASE Step(r)
  BY <1>2, FrameStep, MovedStep DEF Frame, Moved, BaseInv, TypeInv, NotStored,
     Deletions, VersionDeletions, FileDeletions
<1> QED
  BY <1>1, <1>2

LEMMA HasBytesStart ==
  ASSUME BaseInv, NEW r \in Requests, Start(r), NEW f, HasBytes(f)
  PROVE  HasBytes(f)'
<1>1. bytes' = bytes
  BY ArrivedStart DEF Arrived, BaseInv, stores
<1>2. {"DeleteFile"} \in SUBSET FileRequests
  BY DEF FileRequests
<1> QED
  BY <1>1, <1>2, AskedStays, NotStoredStays, RevivedStays DEF HasBytes

LEMMA HasBytesStep ==
  ASSUME BaseInv, NEW r \in Requests, Step(r), NEW f, HasBytes(f),
         f = req[r].file =>
            /\ ~ (req[r].op \in VersionDeletions /\ req[r].pc = "frozenRemove")
            /\ ~ (req[r].op \in FileDeletions /\ req[r].pc = "fileRemove")
  PROVE  HasBytes(f)'
<1>1. {"DeleteFile"} \in SUBSET FileRequests
  BY DEF FileRequests
<1>2. CASE Asked({"DeleteFile"}, f) \/ Revived(f)
  BY <1>1, <1>2, AskedStays, RevivedStays DEF HasBytes
<1>3. CASE NotStored(f)
  BY <1>3, NotStoredStays DEF HasBytes
<1>4. CASE f \in bytes
  <2>1. CASE f \in bytes'
    BY <2>1 DEF HasBytes
  <2>2. CASE f \notin bytes'
    <3>1. f = req[r].file /\ req[r].op = "DeleteFile"
      BY <1>4, <2>2, StoredStep DEF Stored, BaseInv
    <3>2. Asked({"DeleteFile"}, f)
      BY <3>1 DEF Asked
    <3> QED
      BY <1>1, <3>2, AskedStays DEF HasBytes
  <2> QED
    BY <2>1, <2>2
<1> QED
  BY <1>2, <1>3, <1>4 DEF HasBytes

\* An upload that has not inserted its file is the only one to know of it.
LEMMA InsertIsNew ==
  ASSUME BaseInv, NEW r \in Requests, req[r].op = "Upload", req[r].pc = "insert"
  PROVE  req[r].file \notin KnownFiles
  BY DEF BaseInv, KnownOK, KnownFiles

-----------------------------------------------------------------------------
\* A handler that found no file, or deleted it, still finds none when it removes the bytes.
Gone(f) == f \notin files \/ Revived(f)
GoneOK == \A r \in Requests :
    /\ req[r].op \in VersionDeletions /\ req[r].pc = "frozenRemove" => Gone(req[r].file)
    /\ req[r].op \in FileDeletions /\ req[r].pc \in {"fileCheck", "fileRemove"}
          => Gone(req[r].file)

LiveInv == BaseInv /\ GoneOK /\ LiveFileHasBytes

\* Only an upload that is not finished or a save() brings a file back.
LEMMA BackInDataset ==
  ASSUME BaseInv, NEW r \in Requests, Step(r), NEW f \in files' \ files
  PROVE  \/ Revived(f)'
         \/ NotStored(f)' /\ f \notin KnownFiles
<1>1. Stored(r) /\ Moved(r) /\ Frame(r)
  BY StoredStep, MovedStep, FrameStep DEF BaseInv, TypeInv
<1>2. f = req[r].file
  BY <1>1 DEF Stored
<1>3. CASE f \in req'[r].revived
  BY <1>3 DEF Revived
<1>4. CASE req[r].op = "Upload" /\ req[r].pc = "insert"
  BY <1>1, <1>2, <1>4, InsertIsNew DEF Frame, Moved, NotStored,
     Deletions, VersionDeletions, FileDeletions
<1> QED
  BY <1>1, <1>3, <1>4 DEF Stored

LEMMA GoneStays ==
  ASSUME BaseInv, NEW r \in Requests, Start(r) \/ Step(r), NEW f \in KnownFiles, Gone(f)
  PROVE  Gone(f)'
<1>2. CASE Revived(f)
  BY <1>2, RevivedStays DEF Gone
<1>3. CASE f \notin files /\ Start(r)
  BY <1>3, ArrivedStart DEF Arrived, BaseInv, stores, Gone
<1>4. CASE f \notin files /\ Step(r)
  BY <1>4, BackInDataset DEF Gone
<1> QED
  BY <1>2, <1>3, <1>4 DEF Gone

LEMMA GoneStart ==
  ASSUME LiveInv, NEW r \in Requests, Start(r) PROVE GoneOK'
<1>1. Arrived(r)
  BY ArrivedStart DEF LiveInv, BaseInv
<1> SUFFICES ASSUME NEW q \in Requests,
                    \/ req'[q].op \in VersionDeletions /\ req'[q].pc = "frozenRemove"
                    \/ req'[q].op \in FileDeletions /\ req'[q].pc \in {"fileCheck", "fileRemove"}
             PROVE  Gone(req[q].file)'
  BY DEF GoneOK
<1>2. req'[q] = req[q]
  BY <1>1 DEF Arrived, Unsure
<1>3. Gone(req[q].file)
  BY <1>2 DEF LiveInv, GoneOK
<1> QED
  BY <1>1, <1>2, <1>3, RevivedStays DEF Gone, Arrived, stores, LiveInv

LEMMA GoneStep ==
  ASSUME LiveInv, NEW r \in Requests, Step(r) PROVE GoneOK'
<1>1. Frame(r) /\ Moved(r) /\ BaseInv
  BY FrameStep, MovedStep DEF LiveInv, BaseInv, TypeInv
<1> SUFFICES ASSUME NEW q \in Requests,
                    \/ req'[q].op \in VersionDeletions /\ req'[q].pc = "frozenRemove"
                    \/ req'[q].op \in FileDeletions /\ req'[q].pc \in {"fileCheck", "fileRemove"}
             PROVE  Gone(req[q].file)'
  BY DEF GoneOK
<1>2. CASE q = r /\ req'[q].pc \in {"frozenRemove", "fileCheck"}
  BY <1>1, <1>2 DEF Frame, Moved, Gone
<1>3. CASE q # r \/ req'[q].pc = "fileRemove"
  <2>1. req'[q].file = req[q].file /\ Gone(req[q].file)
    BY <1>1, <1>3 DEF Frame, Moved, LiveInv, GoneOK
  <2>2. req[q].op # "Upload" /\ req[q].file \in KnownFiles \cup {NoFile}
    BY <1>1, <1>3 DEF Frame, BaseInv, KnownOK, VersionDeletions, FileDeletions
  <2>3. CASE req[q].file = NoFile
    <3>1. files' \subseteq Files
      BY TypeNext DEF LiveInv, BaseInv, TypeInv, TypeOK, Next
    <3> QED
      BY <2>1, <2>3, <3>1, NoneAssumption DEF Gone
  <2>4. CASE req[q].file \in KnownFiles
    <3> DEFINE f == req[q].file
    <3>1. Gone(f)'
      BY <1>1, <2>1, <2>4, GoneStays
    <3> QED
      BY <2>1, <3>1
  <2> QED
    BY <2>2, <2>3, <2>4
<1> QED
  BY <1>2, <1>3

LEMMA LiveStart ==
  ASSUME LiveInv, NEW r \in Requests, Start(r) PROVE LiveFileHasBytes'
<1>1. \A f \in files : HasBytes(f)'
  BY HasBytesStart DEF LiveInv, LiveFileHasBytes, HasBytes
<1>2. files' = files
  BY ArrivedStart DEF Arrived, LiveInv, BaseInv, stores
<1> QED
  BY <1>1, <1>2 DEF LiveFileHasBytes, HasBytes

LEMMA LiveStep ==
  ASSUME LiveInv, NEW r \in Requests, Step(r) PROVE LiveFileHasBytes'
<1> SUFFICES ASSUME NEW f \in files' PROVE HasBytes(f)'
  BY DEF LiveFileHasBytes, HasBytes
<1>1. BaseInv
  BY DEF LiveInv
<1>2. CASE f \notin files
  BY <1>1, <1>2, BackInDataset DEF HasBytes
<1>3. CASE f \in files /\ Revived(f)
  BY <1>1, <1>3, RevivedStays DEF HasBytes
<1>4. CASE f \in files /\ ~ Revived(f)
  <2>1. HasBytes(f)
    BY <1>4 DEF LiveInv, LiveFileHasBytes, HasBytes
  <2>2. ~ Gone(f)
    BY <1>4 DEF Gone
  <2> QED
    BY <1>1, <2>1, <2>2, HasBytesStep DEF LiveInv, GoneOK
<1> QED
  BY <1>2, <1>3, <1>4

LEMMA LiveInvariant == Spec => []LiveInv
<1>1. Init => GoneOK /\ LiveFileHasBytes
  BY DEF Init, GoneOK, NoRequest, LiveFileHasBytes, VersionDeletions, FileDeletions
<1>2. LiveInv /\ BaseInv' /\ [Next]_vars => GoneOK' /\ LiveFileHasBytes'
  <2> SUFFICES ASSUME LiveInv, [Next]_vars PROVE GoneOK' /\ LiveFileHasBytes'
    OBVIOUS
  <2>1. ASSUME NEW r \in Requests, Start(r) PROVE GoneOK' /\ LiveFileHasBytes'
    BY <2>1, GoneStart, LiveStart
  <2>2. ASSUME NEW r \in Requests, Step(r) PROVE GoneOK' /\ LiveFileHasBytes'
    BY <2>2, GoneStep, LiveStep
  <2>3. CASE UNCHANGED <<stores, req>>
    BY <2>3 DEF stores, LiveInv, GoneOK, Gone, LiveFileHasBytes, Asked, NotStored, Revived
  <2> QED
    BY <2>1, <2>2, <2>3 DEF Next, Crash, vars, stores
<1> QED
  BY <1>1, <1>2, BaseInvariant, PTL DEF Spec, LiveInv

\* No deletion of a file, of a folder, of a version or of the dataset takes the bytes of a
\* file that is in the dataset: only DELETE /files/{id}, which removes the object first,
\* and a save() that brings a deleted document back leave a file without its bytes.
THEOREM LiveFilesKeepBytes == Spec => []LiveFileHasBytes
<1>1. LiveInv => LiveFileHasBytes
  BY DEF LiveInv
<1> QED
  BY <1>1, LiveInvariant, PTL

-----------------------------------------------------------------------------
\* While no release and no deletion are served together, a deletion that has found no
\* copy of its file is right until it removes the bytes, and a release copies files that
\* have their bytes.
Apart == \A r, q \in running : req[r].op = "Freeze" => req[q].op \notin Deletions
NoCopyLeft == \A r \in running :
    \/ req[r].op \in VersionDeletions /\ req[r].pc \in {"checkLive", "frozenRemove"}
    \/ req[r].op \in FileDeletions /\ req[r].pc = "fileRemove"
    => ~ FrozenSomewhere(req[r].file)
CopiesFilesWithBytes == \A r \in running : req[r].op = "Freeze" /\ req[r].pc = "copy" =>
    \A f \in req[r].todo : HasBytes(f)
CopiesHaveBytes == \A v \in Versions : \A f \in CopiesOf(v) : HasBytes(f)

ReleasedOK == overlapped \/ (Apart /\ NoCopyLeft /\ CopiesFilesWithBytes /\ CopiesHaveBytes)

LEMMA ServedStep == ASSUME NEW r \in Requests, Step(r) PROVE r \in running
<1> USE DEF At
<1>1. CASE FileStep(r)
  BY <1>1 DEF FileStep, InsertFile, PutObject, ReplaceFile, SaveFile, SaveDataset, ListPatched,
      NextPatched, NoMorePatched, RemoveObject, DeleteFileDoc
<1>2. CASE FreezeStep(r)
  BY <1>2 DEF FreezeStep, ReadLatest, InsertVersion, ListFiles, CopyFile, Authorize
<1>3. CASE VersionDeletionStep(r)
  BY <1>3 DEF VersionDeletionStep, FindVersions, NextVersion, NoMoreVersions,
      OpenFrozenCursor, NextFrozenFile, NoMoreFrozenFiles, DeleteFrozenFile, CheckFrozen,
      CheckLive, RemoveFrozenBytes, Deauthorize, MarkDeleted, EraseVersion
<1>4. CASE FileDeletionStep(r)
  BY <1>4 DEF FileDeletionStep, OpenFileCursor, NextFile, DeleteFileEntry, CheckReleased,
      RemoveBytes, NoMoreFiles, DropDataset, LicenseMissing
<1> QED
  BY <1>1, <1>2, <1>3, <1>4 DEF Step

LEMMA ReleasedStart ==
  ASSUME LiveInv, ReleasedOK, NEW r \in Requests, Start(r) PROVE ReleasedOK'
<1>1. Arrived(r) /\ BaseInv
  BY ArrivedStart DEF LiveInv, BaseInv
<1> SUFFICES ASSUME ~ overlapped' PROVE ReleasedOK'
  BY DEF ReleasedOK
<1>2. Apart /\ NoCopyLeft /\ CopiesFilesWithBytes /\ CopiesHaveBytes
  BY <1>1 DEF Arrived, ReleasedOK
<1>3. running \subseteq Requests
  BY <1>1 DEF BaseInv, TypeInv, TypeOK
<1>4. Apart'
  BY <1>1, <1>2, <1>3 DEF Apart, Arrived, Deletions, VersionDeletions, FileDeletions
<1>5. \A q \in running' : q # r => q \in running /\ req'[q] = req[q]
  BY <1>1, <1>3 DEF Arrived
<1>6. NoCopyLeft'
  BY <1>1, <1>2, <1>5 DEF NoCopyLeft, Arrived, Unsure, FrozenSomewhere, stores
<1>7. CopiesFilesWithBytes'
  <2> SUFFICES ASSUME NEW q \in running', req'[q].op = "Freeze", req'[q].pc = "copy",
                      NEW f \in req'[q].todo
               PROVE  HasBytes(f)'
    BY DEF CopiesFilesWithBytes
  <2>1. q # r
    BY <1>1 DEF Arrived
  <2>2. HasBytes(f)
    BY <1>2, <1>5, <2>1 DEF CopiesFilesWithBytes
  <2> QED
    BY <1>1, <2>2, HasBytesStart
<1>8. CopiesHaveBytes'
  <2> SUFFICES ASSUME NEW v \in Versions, NEW f \in CopiesOf(v)' PROVE HasBytes(f)'
    BY DEF CopiesHaveBytes
  <2>1. HasBytes(f)
    BY <1>1, <1>2 DEF CopiesHaveBytes, CopiesOf, Arrived, stores
  <2> QED
    BY <1>1, <2>1, HasBytesStart
<1> QED
  BY <1>4, <1>6, <1>7, <1>8 DEF ReleasedOK

LEMMA ReleasedStep ==
  ASSUME LiveInv, LiveFileHasBytes', ReleasedOK, NEW r \in Requests, Step(r)
  PROVE  ReleasedOK'
<1>1. Frame(r) /\ Moved(r) /\ Stored(r) /\ Copied(r) /\ BaseInv /\ r \in running
  BY FrameStep, MovedStep, StoredStep, CopiedStep, ServedStep DEF LiveInv, BaseInv, TypeInv
<1> SUFFICES ASSUME ~ overlapped' PROVE ReleasedOK'
  BY DEF ReleasedOK
<1>2. Apart /\ NoCopyLeft /\ CopiesFilesWithBytes /\ CopiesHaveBytes
  BY <1>1 DEF Frame, ReleasedOK
<1>3. running' \subseteq running /\ running \subseteq Requests
  BY <1>1 DEF Frame, BaseInv, TypeInv, TypeOK
<1>4. Apart'
  BY <1>1, <1>2, <1>3 DEF Apart, Frame
<1>5. NoCopyLeft'
  <2> SUFFICES ASSUME NEW q \in running',
                      \/ /\ req'[q].op \in VersionDeletions
                         /\ req'[q].pc \in {"checkLive", "frozenRemove"}
                      \/ req'[q].op \in FileDeletions /\ req'[q].pc = "fileRemove"
               PROVE  ~ FrozenSomewhere(req[q].file)'
    BY DEF NoCopyLeft
  <2>1. CASE q = r
    <3>1. CASE req'[q].pc \in {"checkLive", "fileRemove"}
      BY <1>1, <1>3, <2>1, <3>1 DEF Frame, Moved, FrozenSomewhere
    <3>2. CASE req'[q].pc = "frozenRemove"
      <4>1. req[q].op \in VersionDeletions
        BY <1>1, <2>1, <3>2 DEF Frame
      <4>2. /\ req'[q].file = req[q].file /\ req[q].pc = "checkLive"
            /\ frozenFiles' = frozenFiles
        BY <1>1, <2>1, <3>2, <4>1 DEF Moved
      <4>3. ~ FrozenSomewhere(req[q].file)
        BY <1>2, <1>3, <4>1, <4>2 DEF NoCopyLeft
      <4> QED
        BY <4>2, <4>3 DEF FrozenSomewhere
    <3> QED
      BY <3>1, <3>2
  <2>2. CASE q # r
    <3>1. q \in running /\ req'[q] = req[q] /\ req[q].op \in Deletions
      BY <1>1, <1>3, <2>2 DEF Frame, Deletions
    <3>2. ~ FrozenSomewhere(req[q].file)
      BY <1>2, <3>1 DEF NoCopyLeft
    <3>3. frozenFiles' \subseteq frozenFiles
      BY <1>1, <1>2, <3>1 DEF Apart, Stored
    <3> QED
      BY <3>1, <3>2, <3>3 DEF FrozenSomewhere
  <2> QED
    BY <2>1, <2>2
<1>6. CopiesFilesWithBytes'
  <2> SUFFICES ASSUME NEW q \in running', req'[q].op = "Freeze", req'[q].pc = "copy",
                      NEW f \in req'[q].todo
               PROVE  HasBytes(f)'
    BY DEF CopiesFilesWithBytes
  <2>1. q \in running /\ req[q].op = "Freeze" /\ req[r].op \notin Deletions
    BY <1>1, <1>2, <1>3 DEF Frame, Apart
  <2>2. CASE f \in files'
    BY <2>2 DEF LiveFileHasBytes, HasBytes
  <2>3. CASE req[q].pc = "copy" /\ f \in req[q].todo
    <3>1. HasBytes(f)
      BY <1>2, <2>1, <2>3 DEF CopiesFilesWithBytes
    <3> QED
      BY <1>1, <2>1, <3>1, HasBytesStep DEF Deletions
  <2> QED
    BY <1>1, <1>3, <2>1, <2>2, <2>3 DEF Frame, Copied
<1>7. CopiesHaveBytes'
  <2> SUFFICES ASSUME NEW v \in Versions, NEW f \in CopiesOf(v)' PROVE HasBytes(f)'
    BY DEF CopiesHaveBytes
  <2>1. CASE f \in CopiesOf(v)
    <3>1. HasBytes(f) /\ FrozenSomewhere(f)
      BY <1>2, <2>1 DEF CopiesHaveBytes, CopiesOf, FrozenSomewhere
    <3> QED
      BY <1>1, <1>2, <3>1, HasBytesStep DEF NoCopyLeft
  <2>2. CASE f \notin CopiesOf(v)
    <3>1. req[r].op = "Freeze" /\ req[r].pc = "copy" /\ f \in req[r].todo
      BY <1>1, <2>2 DEF Stored, CopiesOf
    <3>2. HasBytes(f)
      BY <1>1, <1>2, <3>1 DEF CopiesFilesWithBytes
    <3> QED
      BY <1>1, <3>1, <3>2, HasBytesStep DEF VersionDeletions, FileDeletions
  <2> QED
    BY <2>1, <2>2
<1> QED
  BY <1>4, <1>5, <1>6, <1>7 DEF ReleasedOK

LEMMA ReleasedCrash ==
  ASSUME ReleasedOK, UNCHANGED <<stores, req, overlapped>>, running' \subseteq running
  PROVE  ReleasedOK'
<1>1. /\ \A f : HasBytes(f) => HasBytes(f)'
      /\ \A f : FrozenSomewhere(f)' => FrozenSomewhere(f)
      /\ \A v : CopiesOf(v)' = CopiesOf(v)
  BY DEF stores, HasBytes, NotStored, Asked, Revived, FrozenSomewhere, CopiesOf
<1> QED
  BY <1>1 DEF ReleasedOK, Apart, NoCopyLeft, CopiesFilesWithBytes, CopiesHaveBytes

LEMMA ReleasedInvariant == Spec => []ReleasedOK
<1>1. Init => ReleasedOK
  BY DEF Init, ReleasedOK, Apart, NoCopyLeft, CopiesFilesWithBytes, CopiesHaveBytes, CopiesOf
<1>2. LiveInv /\ LiveInv' /\ ReleasedOK /\ [Next]_vars => ReleasedOK'
  <2> SUFFICES ASSUME LiveInv, LiveInv', ReleasedOK, [Next]_vars PROVE ReleasedOK'
    OBVIOUS
  <2>1. ASSUME NEW r \in Requests, Start(r) PROVE ReleasedOK'
    BY <2>1, ReleasedStart
  <2>2. ASSUME NEW r \in Requests, Step(r) PROVE ReleasedOK'
    BY <2>2, ReleasedStep DEF LiveInv
  <2>3. ASSUME NEW r \in Requests, Crash(r) PROVE ReleasedOK'
    BY <2>3, ReleasedCrash DEF Crash
  <2>4. CASE UNCHANGED vars
    BY <2>4, ReleasedCrash DEF vars, stores
  <2> QED
    BY <2>1, <2>2, <2>3, <2>4 DEF Next
<1> QED
  BY <1>1, <1>2, LiveInvariant, PTL DEF Spec

\* The copies of the released versions keep their bytes when the file, its folder or other
\* versions are deleted, however deletions interleave with each other, with uploads and
\* with crashes: the check for other copies and for the live file comes after the own
\* reference is gone.  What it takes is that no release ran together with a deletion.
THEOREM ReleasedCopiesKeepBytes == Spec => []ReleasedFileHasBytes
<1>1. ReleasedOK => ReleasedFileHasBytes
  BY DEF ReleasedOK, CopiesHaveBytes, ReleasedFileHasBytes, HasBytes
<1> QED
  BY <1>1, ReleasedInvariant, PTL

-----------------------------------------------------------------------------
\* Bytes without a reference
Referred(f) ==
    \/ f \in files
    \/ FrozenSomewhere(f)
    \/ Asked({"Upload", "Update", "DeleteFile"}, f)
    \/ \E r \in Requests : req[r].file = f /\ req[r].pc \in Unsure

LEMMA ReferredStart ==
  ASSUME BaseInv, NoUnreferencedBytes, NEW r \in Requests, Start(r)
  PROVE  NoUnreferencedBytes'
<1>1. Arrived(r)
  BY ArrivedStart DEF BaseInv
<1> SUFFICES ASSUME NEW f \in bytes' PROVE Referred(f)'
  BY DEF NoUnreferencedBytes, Referred, Unsure
<1>2. Referred(f)
  BY <1>1 DEF NoUnreferencedBytes, Referred, Unsure, Arrived, stores
<1>3. CASE f \in files \/ FrozenSomewhere(f)
  BY <1>1, <1>3 DEF Arrived, stores, Referred, FrozenSomewhere
<1>4. CASE Asked({"Upload", "Update", "DeleteFile"}, f)
  <2>1. Asked({"Upload", "Update", "DeleteFile"}, f)'
    BY <1>4, AskedStays DEF FileRequests
  <2> QED
    BY <2>1 DEF Referred
<1>5. CASE \E q \in Requests : req[q].file = f /\ req[q].pc \in Unsure
  <2>1. PICK q \in Requests : req[q].file = f /\ req[q].pc \in Unsure
    BY <1>5
  <2>2. req'[q] = req[q]
    BY <1>1, <2>1 DEF Arrived, Unsure
  <2> QED
    BY <2>1, <2>2 DEF Referred
<1> QED
  BY <1>2, <1>3, <1>4, <1>5 DEF Referred

LEMMA ReferredStep ==
  ASSUME BaseInv, NoUnreferencedBytes, NEW r \in Requests, Step(r)
  PROVE  NoUnreferencedBytes'
<1>1. Frame(r) /\ Stored(r) /\ Settled(r)
  BY FrameStep, StoredStep, SettledStep DEF BaseInv, TypeInv
<1> SUFFICES ASSUME NEW f \in bytes' PROVE Referred(f)'
  BY DEF NoUnreferencedBytes, Referred, Unsure
<1>2. ASSUME Asked({"Upload", "Update", "DeleteFile"}, f) PROVE Referred(f)'
  <2>1. Asked({"Upload", "Update", "DeleteFile"}, f)'
    BY <1>2, AskedStays DEF FileRequests
  <2> QED
    BY <2>1 DEF Referred
<1>3. CASE f \notin bytes
  <2>1. Asked({"Upload", "Update", "DeleteFile"}, f)
    BY <1>1, <1>3 DEF Stored, Asked
  <2> QED
    BY <1>2, <2>1
<1>4. CASE f \in files
  <2>1. CASE f \in files'
    BY <2>1 DEF Referred
  <2>2. CASE f \notin files' /\ req[r].op = "DeleteFile"
    <3>1. Asked({"Upload", "Update", "DeleteFile"}, f)
      BY <1>1, <1>4, <2>2 DEF Stored, Asked
    <3> QED
      BY <1>2, <3>1
  <2>3. CASE f \notin files' /\ req[r].op # "DeleteFile"
    BY <1>1, <1>4, <2>3 DEF Stored, Referred, Unsure
  <2> QED
    BY <2>1, <2>2, <2>3
<1>5. CASE FrozenSomewhere(f)
  <2>1. CASE FrozenSomewhere(f)'
    BY <2>1 DEF Referred
  <2>2. CASE ~ FrozenSomewhere(f)'
    <3>1. PICK v \in Versions : <<v, f>> \in frozenFiles /\ <<v, f>> \notin frozenFiles'
      BY <1>5, <2>2 DEF FrozenSomewhere
    <3> QED
      BY <1>1, <3>1 DEF Stored, Referred, Unsure
  <2> QED
    BY <2>1, <2>2
<1>6. CASE \E q \in Requests : req[q].file = f /\ req[q].pc \in Unsure
  <2>1. PICK q \in Requests : req[q].file = f /\ req[q].pc \in Unsure
    BY <1>6
  <2>2. CASE q # r
    BY <1>1, <2>1, <2>2 DEF Frame, Referred
  <2>3. CASE q = r
    BY <1>1, <2>1, <2>3 DEF Settled, Referred
  <2> QED
    BY <2>2, <2>3
<1>7. f \in bytes => Referred(f)
  BY DEF NoUnreferencedBytes, Referred, Unsure
<1> QED
  BY <1>2, <1>3, <1>4, <1>5, <1>6, <1>7 DEF Referred

\* Whoever takes the last reference to bytes away goes on to look for others and removes
\* the bytes: bytes nobody refers to and nobody looks after are those of an upload, an
\* update or DELETE /files/{id} of that file, or of a handler that died.
THEOREM UnreferencedBytesAreLookedAfter == Spec => []NoUnreferencedBytes
<1>1. Init => NoUnreferencedBytes
  BY DEF Init, NoUnreferencedBytes
<1>2. BaseInv /\ NoUnreferencedBytes /\ [Next]_vars => NoUnreferencedBytes'
  <2> SUFFICES ASSUME BaseInv, NoUnreferencedBytes, [Next]_vars PROVE NoUnreferencedBytes'
    OBVIOUS
  <2>1. CASE UNCHANGED <<stores, req>>
    BY <2>1 DEF stores, NoUnreferencedBytes, FrozenSomewhere, Asked
  <2> QED
    BY <2>1, ReferredStart, ReferredStep DEF Next, Crash, vars, stores
<1> QED
  BY <1>1, <1>2, BaseInvariant, PTL DEF Spec

-----------------------------------------------------------------------------
\* A release still has to copy the files it has not copied.
DeletedSince(r) ==
    \E q \in Requests : \/ req[q].op = "DeleteDataset"
                        \/ req[q].op = "DeleteVersion" /\ req[q].version = r
ToCopy(r) == IF req[r].pc = "copy" THEN req[r].todo ELSE {}
CompleteOK == \A r \in Requests :
    req[r].op = "Freeze" /\ req[r].pc \in {"copy", "done"} =>
        \/ \A f \in req[r].present \cap files :
             f \in CopiesOf(r) \/ f \in ToCopy(r) \/ Revived(f)
        \/ DeletedSince(r)

LEMMA DeletedSinceStays ==
  ASSUME BaseInv, NEW r \in Requests, Start(r) \/ Step(r), NEW v \in Requests, DeletedSince(v)
  PROVE  DeletedSince(v)'
<1>1. CASE Start(r)
  BY <1>1, ArrivedStart DEF Arrived, BaseInv, DeletedSince
<1>2. CASE Step(r)
  BY <1>2, FrameStep DEF Frame, BaseInv, TypeInv, DeletedSince
<1> QED
  BY <1>1, <1>2

LEMMA CompleteStart ==
  ASSUME BaseInv, CompleteOK, NEW r \in Requests, Start(r) PROVE CompleteOK'
<1>1. Arrived(r)
  BY ArrivedStart DEF BaseInv
<1> SUFFICES ASSUME NEW q \in Requests,
                    req'[q].op = "Freeze", req'[q].pc \in {"copy", "done"}, ~ DeletedSince(q)',
                    NEW f \in req'[q].present, f \in files'
             PROVE  f \in CopiesOf(q)' \/ f \in ToCopy(q)' \/ Revived(f)'
  BY DEF CompleteOK
<1>2. req'[q] = req[q] /\ ~ DeletedSince(q)
  BY <1>1, DeletedSinceStays DEF Arrived
<1>3. f \in CopiesOf(q) \/ f \in ToCopy(q) \/ Revived(f)
  BY <1>1, <1>2 DEF CompleteOK, Arrived, stores
<1> QED
  BY <1>1, <1>2, <1>3, RevivedStays DEF Arrived, stores, CopiesOf, ToCopy

LEMMA CompleteStep ==
  ASSUME BaseInv, CompleteOK, NEW r \in Requests, Step(r) PROVE CompleteOK'
<1>1. Frame(r) /\ Stored(r) /\ Copied(r)
  BY FrameStep, StoredStep, CopiedStep DEF BaseInv, TypeInv
<1> SUFFICES ASSUME NEW q \in Requests,
                    req'[q].op = "Freeze", req'[q].pc \in {"copy", "done"}, ~ DeletedSince(q)',
                    NEW f \in req'[q].present, f \in files', ~ Revived(f)'
             PROVE  f \in CopiesOf(q)' \/ f \in ToCopy(q)'
  BY DEF CompleteOK
<1>2. ~ DeletedSince(q) /\ req[q].op = "Freeze" /\ f \in req[q].present
  BY <1>1, DeletedSinceStays DEF Frame
<1>3. ~ Revived(f)
  BY RevivedStays
\* A file that was there when the release arrived cannot be a new one.
<1>4. f \in files
  BY <1>2, <1>3, BackInDataset DEF BaseInv, KnownOK
<1>5. f \in CopiesOf(q) => f \in CopiesOf(q)'
  BY <1>1, <1>2, <1>3 DEF Stored, CopiesOf, DeletedSince, VersionDeletions
<1>6. CASE req[q].pc \in {"copy", "done"} /\ req'[q] = req[q]
  <2>1. f \in CopiesOf(q) \/ f \in ToCopy(q)
    BY <1>2, <1>3, <1>4, <1>6 DEF CompleteOK
  <2> QED
    BY <1>5, <1>6, <2>1 DEF ToCopy
<1>7. CASE q = r /\ req'[q].pc = "copy"
  <2>1. CASE req[q].pc = "list"
    BY <1>1, <1>2, <1>4, <1>7, <2>1 DEF Copied, ToCopy
  <2>2. CASE req[q].pc = "copy"
    <3>1. f \in CopiesOf(q) \/ f \in req[q].todo
      BY <1>2, <1>3, <1>4, <2>2 DEF CompleteOK, ToCopy
    <3> QED
      BY <1>1, <1>2, <1>5, <1>7, <2>2, <3>1 DEF Copied, ToCopy
  <2> QED
    BY <1>1, <1>2, <1>7, <2>1, <2>2 DEF Copied
<1>8. CASE q = r /\ req'[q].pc = "done"
  <2>1. req[q].pc = "copy" /\ req[q].todo = {}
    BY <1>1, <1>2, <1>8 DEF Copied
  <2>2. f \in CopiesOf(q)
    BY <1>2, <1>3, <1>4, <2>1 DEF CompleteOK, ToCopy
  <2> QED
    BY <1>5, <2>2
<1> QED
  BY <1>1, <1>6, <1>7, <1>8 DEF Frame

\* A release that was reported to have succeeded copied every file that was there all the
\* time, whatever was uploaded, updated and deleted meanwhile, unless somebody deleted the
\* version since or saved a document back that was deleted.
THEOREM ReleasesAreComplete == Spec => []ReleaseIsComplete
<1>1. Init => CompleteOK
  BY DEF Init, CompleteOK, NoRequest
<1>2. BaseInv /\ CompleteOK /\ [Next]_vars => CompleteOK'
  <2> SUFFICES ASSUME BaseInv, CompleteOK, [Next]_vars PROVE CompleteOK'
    OBVIOUS
  <2>1. CASE UNCHANGED <<stores, req>>
    BY <2>1 DEF stores, CompleteOK, CopiesOf, ToCopy, Revived, DeletedSince
  <2> QED
    BY <2>1, CompleteStart, CompleteStep DEF Next, Crash, vars, stores
<1>3. CompleteOK => ReleaseIsComplete
  BY DEF CompleteOK, ReleaseIsComplete, ToCopy, DeletedSince
<1> QED
  BY <1>1, <1>2, <1>3, BaseInvariant, PTL DEF Spec

=============================================================================
