------------------------ MODULE DatasetNumbers_proofs ------------------------
(***************************************************************************)
(* Proofs about the released versions of a dataset: a later release gets a *)
(* higher number, numbers have no gap, a version has its OWNER from its    *)
(* release to its deletion, and the handlers implement VersionList.        *)
(***************************************************************************)
EXTENDS DatasetVersions_proofs

\* A handler that has a version at hand: from taking it off a cursor to its document.
VersionStage == {"frozenCursor", "frozenGet", "frozenDelete", "checkFrozen", "checkLive",
                 "frozenRemove", "deauthorize", "mark"}

NumberedVersions == {v \in Requests : Numbered(v)}

\* What the version documents and the handlers that hold one in a local variable know of
\* the releases that wrote them.
VersionsOK ==
    /\ \A v \in Requests : num[v] # 0 => Numbered(v) /\ num[v] = req[v].n
    /\ \A v \in Requests : Numbered(v) => req[v].n # 0
    /\ deleted \subseteq NumberedVersions
    /\ \A r \in Requests : req[r].op = "DeleteVersion" => req[r].version \in NumberedVersions
    /\ \A r \in Requests : req[r].op = "DeleteDataset" =>
          /\ req[r].docs \subseteq NumberedVersions
          /\ req[r].pc \in VersionStage => req[r].version \in NumberedVersions
    /\ \A r \in Requests : req[r].op = "Freeze" /\ req[r].pc = "insertDoc" =>
          \E j \in Requests : req[r].n = VersionNumberOf(j) + 1

\* A step that leaves the version documents and the releases alone.
Quiet(r) ==
    /\ num' = num /\ deleted' = deleted
    /\ \A q \in Requests : q # r => req'[q] = req[q]
    /\ req'[r].op = req[r].op /\ req'[r].op # "Freeze"
    /\ req'[r].version = req[r].version
    /\ req'[r].docs = req[r].docs
    /\ req'[r].pc \in VersionStage => req[r].pc \in VersionStage

LEMMA QuietFileStep ==
  ASSUME TypeOK, NEW r \in Requests, FileStep(r) PROVE Quiet(r)
<1> USE DEF Quiet, VersionStage, At, Goto, Stop, stores, TypeOK, Request
<1>1. CASE InsertFile(r)
  BY <1>1 DEF InsertFile
<1>2. CASE PutObject(r)
  BY <1>2 DEF PutObject
<1>3. CASE ReplaceFile(r)
  BY <1>3 DEF ReplaceFile
<1>4. CASE SaveFile(r)
  BY <1>4 DEF SaveFile
<1>5. CASE RemoveObject(r)
  BY <1>5 DEF RemoveObject
<1>6. CASE DeleteFileDoc(r)
  BY <1>6 DEF DeleteFileDoc
<1>7. CASE SaveDataset(r)
  BY <1>7 DEF SaveDataset
<1>8. CASE ListPatched(r)
  BY <1>8 DEF ListPatched
<1>9. CASE NextPatched(r)
  BY <1>9, NextPatchedTakes
<1>10. CASE NoMorePatched(r)
  BY <1>10 DEF NoMorePatched
<1> QED
  BY <1>1, <1>2, <1>3, <1>4, <1>5, <1>6, <1>7, <1>8, <1>9, <1>10 DEF FileStep

LEMMA QuietFileDeletionStep ==
  ASSUME TypeOK, NEW r \in Requests, FileDeletionStep(r) PROVE Quiet(r)
<1> USE DEF Quiet, VersionStage, FileDeletions, At, Goto, Stop, stores, TypeOK, Request
<1>1. CASE OpenFileCursor(r)
  BY <1>1 DEF OpenFileCursor
<1>2. CASE NextFile(r)
  BY <1>2, NextFileTakes DEF Takes
<1>3. CASE DeleteFileEntry(r)
  BY <1>3 DEF DeleteFileEntry
<1>4. CASE CheckReleased(r)
  BY <1>4 DEF CheckReleased
<1>5. CASE RemoveBytes(r)
  BY <1>5 DEF RemoveBytes
<1>6. CASE NoMoreFiles(r)
  BY <1>6 DEF NoMoreFiles
<1>7. CASE DropDataset(r)
  BY <1>7 DEF DropDataset
<1>8. CASE LicenseMissing(r)
  BY <1>8 DEF LicenseMissing
<1> QED
  BY <1>1, <1>2, <1>3, <1>4, <1>5, <1>6, <1>7, <1>8 DEF FileDeletionStep

\* The steps of the deletion of a version that touch neither its document nor the cursor.
FrozenFileStep(r) ==
    \/ NoMoreVersions(r) \/ OpenFrozenCursor(r) \/ NextFrozenFile(r) \/ NoMoreFrozenFiles(r)
    \/ DeleteFrozenFile(r) \/ CheckFrozen(r) \/ CheckLive(r) \/ RemoveFrozenBytes(r)
    \/ Deauthorize(r)

LEMMA QuietFrozenFileStep ==
  ASSUME TypeOK, NEW r \in Requests, FrozenFileStep(r) PROVE Quiet(r)
<1> USE DEF Quiet, VersionStage, VersionDeletions, At, Goto, Stop, stores, TypeOK, Request
<1>1. CASE NoMoreVersions(r)
  BY <1>1 DEF NoMoreVersions
<1>2. CASE OpenFrozenCursor(r)
  BY <1>2 DEF OpenFrozenCursor
<1>3. CASE NextFrozenFile(r)
  BY <1>3, NextFrozenFileTakes DEF Takes
<1>4. CASE NoMoreFrozenFiles(r)
  BY <1>4 DEF NoMoreFrozenFiles
<1>5. CASE DeleteFrozenFile(r)
  BY <1>5 DEF DeleteFrozenFile
<1>6. CASE CheckFrozen(r)
  BY <1>6 DEF CheckFrozen
<1>7. CASE CheckLive(r)
  BY <1>7 DEF CheckLive
<1>8. CASE RemoveFrozenBytes(r)
  BY <1>8 DEF RemoveFrozenBytes
<1>9. CASE Deauthorize(r)
  BY <1>9 DEF Deauthorize
<1> QED
  BY <1>1, <1>2, <1>3, <1>4, <1>5, <1>6, <1>7, <1>8, <1>9 DEF FrozenFileStep

LEMMA VersionsQuiet ==
  ASSUME VersionsOK, NEW r \in Requests, Quiet(r) PROVE VersionsOK'
<1>1. \A q \in Requests : Numbered(q)' <=> Numbered(q)
  BY DEF Quiet, Numbered
<1>2. \A q \in Requests : Numbered(q) => req'[q] = req[q]
  BY DEF Quiet, Numbered
<1>3. \A q \in Requests : VersionNumberOf(q)' = VersionNumberOf(q)
  BY <1>1, <1>2 DEF VersionNumberOf
<1>4. NumberedVersions' = NumberedVersions
  BY <1>1 DEF NumberedVersions
<1> QED
  BY <1>1, <1>2, <1>3, <1>4 DEF VersionsOK, Quiet

LEMMA VersionsStart ==
  ASSUME TypeOK, VersionsOK, NEW r \in Requests, Start(r) PROVE VersionsOK'
<1>1. /\ req[r].pc = "idle"
      /\ num' = num /\ deleted' = deleted
      /\ \A q \in Requests : q # r => req'[q] = req[q]
  BY DEF Start, Upload, Update, PatchFile, PatchDataset, DeleteFile, DeleteFolder,
         Freeze, DeleteVersion, DeleteDataset, Arrive, stores, TypeOK
<1>2. /\ req'[r].pc \notin VersionStage \cup {"list", "copy", "done", "insertDoc"}
         \/ req'[r].op = "DeleteVersion"
      /\ req'[r].op = "DeleteVersion" => req'[r].version \in Recorded
      /\ req'[r].op = "DeleteDataset" => req'[r].docs = {}
  BY DEF Start, Upload, Update, PatchFile, PatchDataset, DeleteFile, DeleteFolder,
         Freeze, DeleteVersion, DeleteDataset, Arrive, VersionStage, TypeOK
<1>3. ~ Numbered(r) /\ ~ Numbered(r)'
  BY <1>1, <1>2 DEF Numbered
<1>4. \A q \in Requests : Numbered(q)' <=> Numbered(q)
  BY <1>1, <1>3 DEF Numbered
<1>5. NumberedVersions' = NumberedVersions
  BY <1>4 DEF NumberedVersions
<1>6. \A q \in Requests : VersionNumberOf(q)' = VersionNumberOf(q)
  BY <1>1, <1>3, <1>4 DEF VersionNumberOf
<1>7. Recorded \subseteq NumberedVersions
  BY DEF Recorded, NumberedVersions, VersionsOK, Versions
<1> QED
  BY <1>1, <1>2, <1>3, <1>4, <1>5, <1>6, <1>7 DEF VersionsOK

LEMMA RecordNumbers ==
  ASSUME TypeOK, NEW j \in Requests
  PROVE  VersionNumberOf(j) \in Nat /\ VersionNumberOf(j) + 1 # 0
  BY DEF VersionNumberOf, TypeOK, Request

LEMMA NumbersAreRead ==
  ASSUME TypeOK, VersionsOK
  PROVE  \A m \in Numbers : \E v \in Requests : Numbered(v) /\ m = req[v].n /\ num[v] = m
  BY DEF Numbers, Recorded, Versions, VersionsOK

\* The steps of a release after its document is there change neither it nor its number.
LEMMA VersionsCopy ==
  ASSUME TypeOK, VersionsOK, NEW r \in Requests, ListFiles(r) \/ CopyFile(r) \/ Authorize(r)
  PROVE  VersionsOK'
<1>1. /\ num' = num /\ deleted' = deleted
      /\ \A q \in Requests : q # r => req'[q] = req[q]
      /\ req[r].op = "Freeze" /\ req'[r].op = "Freeze"
      /\ req'[r].n = req[r].n
      /\ req[r].pc \in {"list", "copy"} /\ req'[r].pc \in {"copy", "done"}
  <2> USE DEF At, Stop, stores, TypeOK, Request
  <2>1. CASE ListFiles(r)
    BY <2>1 DEF ListFiles
  <2>2. CASE CopyFile(r)
    BY <2>2 DEF CopyFile
  <2>3. CASE Authorize(r)
    BY <2>3 DEF Authorize
  <2> QED
    BY <2>1, <2>2, <2>3
<1>2. \A q \in Requests : (Numbered(q)' <=> Numbered(q)) /\ req'[q].n = req[q].n
  BY <1>1 DEF Numbered
<1>3. NumberedVersions' = NumberedVersions
  BY <1>2 DEF NumberedVersions
<1>4. \A q \in Requests : VersionNumberOf(q)' = VersionNumberOf(q)
  BY <1>2 DEF VersionNumberOf
<1> QED
  BY <1>1, <1>2, <1>3, <1>4 DEF VersionsOK

LEMMA VersionsReadLatest ==
  ASSUME TypeOK, VersionsOK, NEW r \in Requests, ReadLatest(r) PROVE VersionsOK'
<1>1. PICK m \in Numbers \cup {0} : req' = [req EXCEPT ![r] = [@ EXCEPT !.pc = "insertDoc", !.n = m + 1]]
  BY DEF ReadLatest
<1>2. /\ num' = num /\ deleted' = deleted
      /\ \A q \in Requests : q # r => req'[q] = req[q]
      /\ req[r].op = "Freeze" /\ req[r].pc = "latest"
      /\ req'[r].op = "Freeze" /\ req'[r].pc = "insertDoc" /\ req'[r].n = m + 1
  BY <1>1 DEF ReadLatest, At, stores, TypeOK, Request
<1>3. \A q \in Requests : (Numbered(q)' <=> Numbered(q)) /\ VersionNumberOf(q)' = VersionNumberOf(q)
  BY <1>2 DEF Numbered, VersionNumberOf
<1>4. NumberedVersions' = NumberedVersions
  BY <1>3 DEF NumberedVersions
<1>5. \E j \in Requests : m = VersionNumberOf(j)
  <2>1. CASE m = 0
    <3>1. VersionNumberOf(r) = 0
      BY <1>2 DEF VersionNumberOf, Numbered
    <3> QED
      BY <2>1, <3>1
  <2>2. CASE m \in Numbers
    BY <2>2, NumbersAreRead DEF VersionNumberOf
  <2> QED
    BY <2>1, <2>2
<1> QED
  BY <1>2, <1>3, <1>4, <1>5 DEF VersionsOK, Numbered

LEMMA VersionsInsert ==
  ASSUME TypeOK, VersionsOK, NEW r \in Requests, InsertVersion(r) PROVE VersionsOK'
<1>1. /\ num' = [num EXCEPT ![r] = req[r].n] /\ deleted' = deleted
      /\ \A q \in Requests : q # r => req'[q] = req[q]
      /\ req[r].op = "Freeze" /\ req[r].pc = "insertDoc"
      /\ req'[r].op = "Freeze" /\ req'[r].pc = "list" /\ req'[r].n = req[r].n
  BY DEF InsertVersion, At, Goto, TypeOK, Request
<1>2. /\ ~ Numbered(r) /\ Numbered(r)'
      /\ \A q \in Requests : q # r => (Numbered(q)' <=> Numbered(q))
  BY <1>1 DEF Numbered
<1>3. VersionNumberOf(r) = 0 /\ \A q \in Requests : q # r => VersionNumberOf(q)' = VersionNumberOf(q)
  BY <1>1, <1>2 DEF VersionNumberOf
<1>4. req[r].n # 0
  BY <1>1, RecordNumbers DEF VersionsOK
<1>5. NumberedVersions' = NumberedVersions \cup {r}
  BY <1>2 DEF NumberedVersions
<1>6. ASSUME NEW q \in Requests, req'[q].op = "Freeze", req'[q].pc = "insertDoc"
      PROVE  \E j \in Requests : req'[q].n = VersionNumberOf(j)' + 1
  <2>1. q # r /\ req'[q] = req[q]
    BY <1>1, <1>6
  <2>2. PICK j \in Requests : req[q].n = VersionNumberOf(j) + 1
    BY <1>6, <2>1 DEF VersionsOK
  <2>3. VersionNumberOf(q)' = 0
    BY <1>6 DEF VersionNumberOf, Numbered
  <2>4. CASE j = r
    BY <1>3, <2>1, <2>2, <2>3, <2>4
  <2>5. CASE j # r
    BY <1>3, <2>1, <2>2, <2>5
  <2> QED
    BY <2>4, <2>5
<1>7. \A v \in Requests : num'[v] # 0 => Numbered(v)' /\ num'[v] = req'[v].n
  BY <1>1, <1>2 DEF VersionsOK, TypeOK, Versions
<1>8. \A v \in Requests : Numbered(v)' => req'[v].n # 0
  BY <1>1, <1>2, <1>4 DEF VersionsOK
<1> QED
  BY <1>1, <1>5, <1>6, <1>7, <1>8 DEF VersionsOK

LEMMA VersionsCursor ==
  ASSUME TypeOK, VersionsOK, NEW r \in Requests, FindVersions(r) \/ NextVersion(r)
  PROVE  VersionsOK'
<1>1. /\ num' = num /\ deleted' = deleted
      /\ \A q \in Requests : q # r => req'[q] = req[q]
      /\ req[r].op = "DeleteDataset" /\ req'[r].op = "DeleteDataset"
      /\ \/ req'[r].pc = "nextDoc" /\ req'[r].docs = Recorded
         \/ req'[r].version \in req[r].docs /\ req'[r].docs \subseteq req[r].docs
  <2>1. CASE FindVersions(r)
    BY <2>1 DEF FindVersions, At, stores, TypeOK, Request
  <2>2. CASE NextVersion(r)
    BY <2>2, NextVersionTakes DEF At, stores
  <2> QED
    BY <2>1, <2>2
<1>3. \A q \in Requests : (Numbered(q)' <=> Numbered(q)) /\ VersionNumberOf(q)' = VersionNumberOf(q)
  BY <1>1 DEF Numbered, VersionNumberOf
<1>4. NumberedVersions' = NumberedVersions
  BY <1>3 DEF NumberedVersions
<1>5. Recorded \subseteq NumberedVersions
  BY DEF Recorded, NumberedVersions, VersionsOK, Versions
<1>6. \A q \in Requests : Numbered(q) => req'[q] = req[q]
  BY <1>1 DEF Numbered
<1> QED
  BY <1>1, <1>3, <1>4, <1>5, <1>6 DEF VersionsOK, VersionStage

LEMMA VersionsMark ==
  ASSUME TypeOK, VersionsOK, NEW r \in Requests, MarkDeleted(r) \/ EraseVersion(r)
  PROVE  VersionsOK'
<1> DEFINE v == req[r].version
<1>1. /\ \A q \in Requests : q # r => req'[q] = req[q]
      /\ req[r].op = "DeleteVersion" \/ req[r].op = "DeleteDataset"
      /\ req'[r].op = req[r].op /\ req'[r].version = req[r].version
      /\ req'[r].docs = req[r].docs /\ req'[r].pc \notin VersionStage
      /\ req[r].pc = "mark"
  BY DEF MarkDeleted, EraseVersion, At, Goto, Stop, TypeOK, Request, VersionStage
<1>2. v \in NumberedVersions
  BY <1>1 DEF VersionsOK, VersionStage
<1>3. \/ num' = [num EXCEPT ![v] = req[v].n] /\ deleted' = deleted \cup {v}
      \/ num' = [num EXCEPT ![v] = 0] /\ deleted' = deleted \ {v}
  BY DEF MarkDeleted, EraseVersion
<1>4. \A q \in Requests : (Numbered(q)' <=> Numbered(q)) /\ (Numbered(q) => req'[q] = req[q])
  BY <1>1 DEF Numbered
<1>5. \A q \in Requests : VersionNumberOf(q)' = VersionNumberOf(q)
  BY <1>4 DEF VersionNumberOf
<1>6. NumberedVersions' = NumberedVersions
  BY <1>4 DEF NumberedVersions
<1>7. \A w \in Requests : num'[w] # 0 => Numbered(w)' /\ num'[w] = req'[w].n
  BY <1>2, <1>3, <1>4 DEF VersionsOK, NumberedVersions, TypeOK, Versions
<1> QED
  BY <1>1, <1>2, <1>3, <1>4, <1>5, <1>6, <1>7 DEF VersionsOK

LEMMA VersionsStep ==
  ASSUME TypeInv, VersionsOK, NEW r \in Requests, Step(r) PROVE VersionsOK'
<1> USE DEF TypeInv
<1>1. CASE FileStep(r)
  BY <1>1, QuietFileStep, VersionsQuiet
<1>2. CASE FreezeStep(r)
  BY <1>2, VersionsReadLatest, VersionsInsert, VersionsCopy DEF FreezeStep
<1>3. CASE VersionDeletionStep(r)
  BY <1>3, QuietFrozenFileStep, VersionsQuiet, VersionsCursor, VersionsMark
     DEF VersionDeletionStep, FrozenFileStep
<1>4. CASE FileDeletionStep(r)
  BY <1>4, QuietFileDeletionStep, VersionsQuiet
<1> QED
  BY <1>1, <1>2, <1>3, <1>4 DEF Step

LEMMA VersionsUnchanged ==
  ASSUME VersionsOK, UNCHANGED <<num, deleted, req>> PROVE VersionsOK'
  BY DEF VersionsOK, Numbered, NumberedVersions, VersionNumberOf

LEMMA VersionsInvariant == Spec => []VersionsOK
<1>1. Init => VersionsOK
  BY DEF Init, VersionsOK, Versions, Numbered, NoRequest
<1>2. TypeInv /\ VersionsOK /\ [Next]_vars => VersionsOK'
  <2> SUFFICES ASSUME TypeInv, VersionsOK, [Next]_vars PROVE VersionsOK'
    OBVIOUS
  <2>1. ASSUME NEW r \in Requests, Start(r) PROVE VersionsOK'
    BY <2>1, VersionsStart DEF TypeInv
  <2>2. ASSUME NEW r \in Requests, Step(r) PROVE VersionsOK'
    BY <2>2, VersionsStep
  <2>3. ASSUME NEW r \in Requests, Crash(r) PROVE VersionsOK'
    BY <2>3, VersionsUnchanged DEF Crash, stores
  <2>4. CASE UNCHANGED vars
    BY <2>4, VersionsUnchanged DEF vars
  <2> QED
    BY <2>1, <2>2, <2>3, <2>4 DEF Next
<1> QED
  BY <1>1, <1>2, TypeInvariant, PTL DEF Spec

-----------------------------------------------------------------------------
\* Nobody has asked to delete the whole dataset, which forgets its versions.
Kept == \A r \in Requests : req[r].op # "DeleteDataset"

\* A release has a number above all that it may have seen, and every number below its
\* own is in use.
OrderOK == Kept => \A r \in Requests : req[r].op = "Freeze" =>
    /\ req[r].pc = "latest" => req[r].seen \subseteq Numbers
    /\ req[r].pc # "latest" => /\ \A k \in req[r].seen : req[r].n > k
                              /\ 1 .. (req[r].n - 1) \subseteq Numbers

LEMMA KeptBefore ==
  ASSUME TypeInv, IdleOK, [Next]_vars, Kept' PROVE Kept
<1>1. ASSUME NEW r \in Requests, Start(r) PROVE Kept
  BY <1>1 DEF Start, Upload, Update, PatchFile, PatchDataset, DeleteFile, DeleteFolder, Freeze,
              DeleteVersion, DeleteDataset, Arrive, TypeInv, TypeOK, IdleOK, Kept
<1>2. ASSUME NEW r \in Requests, Step(r) PROVE Kept
  BY <1>2, FrameStep DEF Frame, TypeInv, Kept
<1>3. ASSUME NEW r \in Requests, Crash(r) PROVE Kept
  BY <1>3 DEF Crash, Kept
<1>4. CASE UNCHANGED vars
  BY <1>4 DEF vars, Kept
<1> QED
  BY <1>1, <1>2, <1>3, <1>4 DEF Next

\* A release goes on with the number it read while the numbers in use only grow.
LEMMA OrderKept ==
  ASSUME OrderOK, Kept' => Kept, Kept' => Numbers \subseteq Numbers',
         \A q \in Requests : req'[q].op = "Freeze" =>
            /\ req[q].op = "Freeze"
            /\ req'[q].seen = req[q].seen /\ req'[q].n = req[q].n
            /\ req'[q].pc = "latest" <=> req[q].pc = "latest"
  PROVE  OrderOK'
<1> SUFFICES ASSUME Kept', NEW r \in Requests, req'[r].op = "Freeze"
             PROVE  /\ req'[r].pc = "latest" => req'[r].seen \subseteq Numbers'
                    /\ req'[r].pc # "latest" => /\ \A k \in req'[r].seen : req'[r].n > k
                                               /\ 1 .. (req'[r].n - 1) \subseteq Numbers'
  BY DEF OrderOK
<1>1. /\ req[r].pc = "latest" => req[r].seen \subseteq Numbers
      /\ req[r].pc # "latest" => /\ \A k \in req[r].seen : req[r].n > k
                                /\ 1 .. (req[r].n - 1) \subseteq Numbers
  BY DEF OrderOK
<1> QED
  BY <1>1

LEMMA OrderQuiet ==
  ASSUME TypeInv, OrderOK, Kept' => Kept, NEW r \in Requests, Quiet(r) PROVE OrderOK'
<1>1. Numbers' = Numbers
  BY DEF Quiet, Numbers, Recorded
<1> QED
  BY <1>1, OrderKept DEF Quiet

LEMMA OrderStart ==
  ASSUME TypeInv, OrderOK, Kept' => Kept, NEW r \in Requests, Start(r) PROVE OrderOK'
<1>1. /\ num' = num
      /\ \A q \in Requests : q # r => req'[q] = req[q]
      /\ req'[r].op = "Freeze" => req'[r].pc = "latest" /\ req'[r].seen = Numbers
  BY DEF Start, Upload, Update, PatchFile, PatchDataset, DeleteFile, DeleteFolder, Freeze,
         DeleteVersion, DeleteDataset, Arrive, TypeInv, TypeOK, stores
<1>2. Numbers' = Numbers
  BY <1>1 DEF Numbers, Recorded
<1> QED
  BY <1>1, <1>2 DEF OrderOK

LEMMA OrderReadLatest ==
  ASSUME TypeInv, VersionsOK, OrderOK, Kept' => Kept, NEW r \in Requests, ReadLatest(r)
  PROVE  OrderOK'
<1> SUFFICES ASSUME Kept, Kept' PROVE OrderOK'
  BY DEF OrderOK
<1>1. PICK m \in Numbers \cup {0} :
        IsLatest(m) /\ req' = [req EXCEPT ![r] = [@ EXCEPT !.pc = "insertDoc", !.n = m + 1]]
  BY DEF ReadLatest
<1>2. /\ num' = num
      /\ \A q \in Requests : q # r => req'[q] = req[q]
      /\ req[r].op = "Freeze" /\ req[r].pc = "latest"
      /\ req'[r].op = "Freeze" /\ req'[r].pc = "insertDoc" /\ req'[r].n = m + 1
      /\ req'[r].seen = req[r].seen
  BY <1>1 DEF ReadLatest, At, stores, TypeInv, TypeOK, Request
<1>3. Numbers' = Numbers
  BY <1>2 DEF Numbers, Recorded
<1>4. m \in Nat /\ Numbers \subseteq Nat
  BY DEF Numbers, Recorded, TypeInv, TypeOK
<1>5. \A k \in req[r].seen : m + 1 > k
  BY <1>1, <1>2, <1>4 DEF OrderOK, IsLatest
<1>6. 1 .. m \subseteq Numbers
  <2>1. CASE m = 0
    BY <2>1
  <2>2. CASE m \in Numbers
    <3>1. PICK v \in Requests : Numbered(v) /\ m = req[v].n
      BY <2>2, NumbersAreRead DEF TypeInv
    <3>2. 1 .. (m - 1) \subseteq Numbers
      BY <3>1 DEF OrderOK, Numbered
    <3> QED
      BY <1>4, <2>2, <3>2
  <2> QED
    BY <2>1, <2>2
<1>7. ASSUME NEW q \in Requests, req'[q].op = "Freeze"
      PROVE  /\ req'[q].pc = "latest" => req'[q].seen \subseteq Numbers'
             /\ req'[q].pc # "latest" => /\ \A k \in req'[q].seen : req'[q].n > k
                                        /\ 1 .. (req'[q].n - 1) \subseteq Numbers'
  <2>1. CASE q = r
    <3>1. 1 .. ((m + 1) - 1) \subseteq Numbers
      BY <1>4, <1>6
    <3> QED
      BY <1>2, <1>3, <1>5, <2>1, <3>1
  <2>2. CASE q # r
    BY <1>2, <1>3, <1>7, <2>2 DEF OrderOK
  <2> QED
    BY <2>1, <2>2
<1> QED
  BY <1>7 DEF OrderOK

LEMMA OrderInsert ==
  ASSUME TypeInv, VersionsOK, OrderOK, Kept' => Kept, NEW r \in Requests, InsertVersion(r)
  PROVE  OrderOK'
<1>1. /\ num' = [num EXCEPT ![r] = req[r].n]
      /\ \A q \in Requests : q # r => req'[q] = req[q]
      /\ req[r].op = "Freeze" /\ req[r].pc = "insertDoc"
      /\ req'[r].op = "Freeze" /\ req'[r].pc = "list" /\ req'[r].n = req[r].n
      /\ req'[r].seen = req[r].seen
  BY DEF InsertVersion, At, Goto, TypeInv, TypeOK, Request
<1>2. num[r] = 0
  BY <1>1 DEF VersionsOK, Numbered
<1>3. Numbers \subseteq Numbers'
  BY <1>1, <1>2 DEF Numbers, Recorded, Versions, TypeInv, TypeOK
<1> QED
  BY <1>1, <1>3, OrderKept

LEMMA OrderCopy ==
  ASSUME TypeInv, OrderOK, Kept' => Kept, NEW r \in Requests,
         ListFiles(r) \/ CopyFile(r) \/ Authorize(r)
  PROVE  OrderOK'
<1>1. /\ num' = num
      /\ \A q \in Requests : q # r => req'[q] = req[q]
      /\ req[r].op = "Freeze" /\ req[r].pc # "latest" /\ req'[r].pc # "latest"
      /\ req'[r].n = req[r].n /\ req'[r].seen = req[r].seen
  <2> USE DEF At, Stop, stores, TypeInv, TypeOK, Request
  <2>1. CASE ListFiles(r)
    BY <2>1 DEF ListFiles
  <2>2. CASE CopyFile(r)
    BY <2>2 DEF CopyFile
  <2>3. CASE Authorize(r)
    BY <2>3 DEF Authorize
  <2> QED
    BY <2>1, <2>2, <2>3
<1>2. Numbers' = Numbers
  BY <1>1 DEF Numbers, Recorded
<1> QED
  BY <1>1, <1>2, OrderKept

LEMMA OrderVersionDeletion ==
  ASSUME TypeInv, VersionsOK, OrderOK, Kept' => Kept, NEW r \in Requests,
         FindVersions(r) \/ NextVersion(r) \/ MarkDeleted(r) \/ EraseVersion(r)
  PROVE  OrderOK'
<1>1. Frame(r)
  BY FrameVersionDeletionStep DEF VersionDeletionStep, TypeInv
<1>2. CASE req[r].op = "DeleteDataset"
  BY <1>1, <1>2 DEF Frame, Kept, OrderOK
<1>3. CASE MarkDeleted(r)
  <2> DEFINE v == req[r].version
  <2>1. req[r].op = "DeleteVersion" /\ num' = [num EXCEPT ![v] = req[v].n]
    BY <1>3 DEF MarkDeleted, At
  <2>2. num[v] # 0 => num[v] = req[v].n
    BY <2>1 DEF VersionsOK, NumberedVersions
  <2>3. Numbers \subseteq Numbers'
    BY <2>1, <2>2 DEF Numbers, Recorded, Versions, TypeInv, TypeOK
  <2>4. \A q \in Requests : req'[q].op = "Freeze" => req'[q] = req[q]
    BY <1>1, <2>1 DEF Frame
  <2> QED
    BY <2>3, <2>4, OrderKept
<1> QED
  BY <1>2, <1>3 DEF FindVersions, NextVersion, EraseVersion, At

LEMMA OrderInvariant == Spec => []OrderOK
<1>1. Init => OrderOK
  BY DEF Init, OrderOK, NoRequest
<1>2. TypeInv /\ IdleOK /\ VersionsOK /\ OrderOK /\ [Next]_vars => OrderOK'
  <2> SUFFICES ASSUME TypeInv, IdleOK, VersionsOK, OrderOK, [Next]_vars PROVE OrderOK'
    OBVIOUS
  <2> USE DEF TypeInv
  <2>1. Kept' => Kept
    BY KeptBefore
  <2>2. ASSUME NEW r \in Requests, Start(r) PROVE OrderOK'
    BY <2>1, <2>2, OrderStart
  <2>3. ASSUME NEW r \in Requests, FileStep(r) \/ FileDeletionStep(r) PROVE OrderOK'
    BY <2>1, <2>3, QuietFileStep, QuietFileDeletionStep, OrderQuiet
  <2>4. ASSUME NEW r \in Requests, FreezeStep(r) PROVE OrderOK'
    BY <2>1, <2>4, OrderReadLatest, OrderInsert, OrderCopy DEF FreezeStep
  <2>5. ASSUME NEW r \in Requests, VersionDeletionStep(r) PROVE OrderOK'
    BY <2>1, <2>5, QuietFrozenFileStep, OrderQuiet, OrderVersionDeletion
       DEF VersionDeletionStep, FrozenFileStep
  <2>6. ASSUME NEW r \in Requests, Crash(r) PROVE OrderOK'
    BY <2>6 DEF Crash, OrderOK, Kept, Numbers, Recorded, stores
  <2>7. CASE UNCHANGED vars
    BY <2>7 DEF vars, OrderOK, Kept, Numbers, Recorded
  <2> QED
    BY <2>2, <2>3, <2>4, <2>5, <2>6, <2>7 DEF Next, Step
<1> QED
  BY <1>1, <1>2, TypeInvariant, IdleInvariant, VersionsInvariant, PTL DEF Spec

\* freeze_dataset never gives a version a number that is not above all numbers that were
\* in use when its request arrived.
THEOREM LaterReleaseIsHigher == Spec => []LaterReleaseHigherNumber
<1>1. VersionsOK /\ OrderOK => LaterReleaseHigherNumber
  BY DEF VersionsOK, OrderOK, Kept, Numbered, Recorded, Versions, LaterReleaseHigherNumber
<1> QED
  BY <1>1, VersionsInvariant, OrderInvariant, PTL

\* The numbers freeze_dataset gives have no gap.
THEOREM NumbersHaveNoGap == Spec => []NumbersWithoutGap
<1>1. TypeInv /\ VersionsOK /\ OrderOK => NumbersWithoutGap
  <2> SUFFICES ASSUME TypeInv, VersionsOK, OrderOK, Kept, NEW v \in Recorded
               PROVE  1 .. num[v] \subseteq Numbers
    BY DEF NumbersWithoutGap, Kept
  <2>1. v \in Requests /\ num[v] \in Nat /\ num[v] \in Numbers
    BY DEF Recorded, Versions, Numbers, TypeInv, TypeOK
  <2>2. 1 .. (num[v] - 1) \subseteq Numbers
    BY <2>1 DEF VersionsOK, OrderOK, Numbered, Recorded
  <2> QED
    BY <2>1, <2>2
<1> QED
  BY <1>1, TypeInvariant, VersionsInvariant, OrderInvariant, PTL

-----------------------------------------------------------------------------
(* The OWNER authorization of a version lasts from its release to its      *)
(* deletion.                                                               *)

\* While no release and no deletion are served together, no deletion takes away the
\* version of a release that is still copying, and none gets its OWNER after a deletion
\* has looked for it.
NotTogether == \A r, q \in running : req[r].op = "Freeze" => req[q].op \notin Deletions
OwnedAreReleased == \A v \in owned : num[v] # 0 /\ v \notin deleted
MarkedAreUnowned == \A r \in running :
    req[r].op \in VersionDeletions /\ req[r].pc = "mark" => req[r].version \notin owned
CopiedAreReleased == \A r \in running :
    req[r].op = "Freeze" /\ req[r].pc \in {"list", "copy"} => num[r] # 0 /\ r \notin deleted
ReleasedAreOwned == \A v \in Versions : num[v] # 0 /\ v \notin deleted /\ req[v].pc = "done" =>
    v \in owned \/ \E q \in Requests : req[q].version = v /\ req[q].pc = "mark"

ApartOK == NotTogether /\ OwnedAreReleased /\ MarkedAreUnowned /\ CopiedAreReleased
OwnersOK == (overlapped \/ ApartOK) /\ ReleasedAreOwned

\* A step of a handler that neither authorizes a version nor deletes one.
Passes(r) ==
    /\ r \in running /\ Frame(r)
    /\ num' = num /\ deleted' = deleted /\ owned' = owned
    /\ req[r].pc # "mark" /\ req'[r].pc # "mark"
    /\ req[r].op = "Freeze" =>
         /\ req'[r].pc # "done"
         /\ req'[r].pc \in {"list", "copy"} => req[r].pc \in {"list", "copy"}

LEMMA PassesFileStep ==
  ASSUME TypeOK, NEW r \in Requests, FileStep(r) PROVE Passes(r)
<1> USE DEF Passes, At, Goto, Stop, stores, TypeOK, Request
<1>0. Frame(r)
  BY FrameFileStep
<1>1. CASE InsertFile(r)
  BY <1>0, <1>1 DEF InsertFile
<1>2. CASE PutObject(r)
  BY <1>0, <1>2 DEF PutObject
<1>3. CASE ReplaceFile(r)
  BY <1>0, <1>3 DEF ReplaceFile
<1>4. CASE SaveFile(r)
  BY <1>0, <1>4 DEF SaveFile
<1>5. CASE RemoveObject(r)
  BY <1>0, <1>5 DEF RemoveObject
<1>6. CASE DeleteFileDoc(r)
  BY <1>0, <1>6 DEF DeleteFileDoc
<1>7. CASE SaveDataset(r)
  BY <1>0, <1>7 DEF SaveDataset
<1>8. CASE ListPatched(r)
  BY <1>0, <1>8 DEF ListPatched
<1>9. CASE NextPatched(r)
  BY <1>0, <1>9, NextPatchedTakes
<1>10. CASE NoMorePatched(r)
  BY <1>0, <1>10 DEF NoMorePatched
<1> QED
  BY <1>1, <1>2, <1>3, <1>4, <1>5, <1>6, <1>7, <1>8, <1>9, <1>10 DEF FileStep

LEMMA PassesFileDeletionStep ==
  ASSUME TypeOK, NEW r \in Requests, FileDeletionStep(r) PROVE Passes(r)
<1> USE DEF Passes, FileDeletions, At, Goto, Stop, stores, TypeOK, Request
<1>0. Frame(r)
  BY FrameFileDeletionStep
<1>1. CASE OpenFileCursor(r)
  BY <1>0, <1>1 DEF OpenFileCursor
<1>2. CASE NextFile(r)
  BY <1>0, <1>2, NextFileTakes DEF Takes
<1>3. CASE DeleteFileEntry(r)
  BY <1>0, <1>3 DEF DeleteFileEntry
<1>4. CASE CheckReleased(r)
  BY <1>0, <1>4 DEF CheckReleased
<1>5. CASE RemoveBytes(r)
  BY <1>0, <1>5 DEF RemoveBytes
<1>6. CASE NoMoreFiles(r)
  BY <1>0, <1>6 DEF NoMoreFiles
<1>7. CASE DropDataset(r)
  BY <1>0, <1>7 DEF DropDataset
<1>8. CASE LicenseMissing(r)
  BY <1>0, <1>8 DEF LicenseMissing
<1> QED
  BY <1>1, <1>2, <1>3, <1>4, <1>5, <1>6, <1>7, <1>8 DEF FileDeletionStep

\* The steps of the deletion of a version before its authorizations.
LEMMA PassesCursorStep ==
  ASSUME TypeOK, NEW r \in Requests, VersionDeletionStep(r),
         ~ Deauthorize(r), ~ MarkDeleted(r), ~ EraseVersion(r)
  PROVE  Passes(r)
<1> USE DEF Passes, VersionDeletions, At, Goto, Stop, stores, TypeOK, Request
<1>0. Frame(r)
  BY FrameVersionDeletionStep
<1>1. CASE FindVersions(r)
  BY <1>0, <1>1 DEF FindVersions
<1>2. CASE NextVersion(r)
  BY <1>0, <1>2, NextVersionTakes
<1>3. CASE NoMoreVersions(r)
  BY <1>0, <1>3 DEF NoMoreVersions
<1>4. CASE OpenFrozenCursor(r)
  BY <1>0, <1>4 DEF OpenFrozenCursor
<1>5. CASE NextFrozenFile(r)
  BY <1>0, <1>5, NextFrozenFileTakes DEF Takes
<1>6. CASE NoMoreFrozenFiles(r)
  BY <1>0, <1>6 DEF NoMoreFrozenFiles
<1>7. CASE DeleteFrozenFile(r)
  BY <1>0, <1>7 DEF DeleteFrozenFile
<1>8. CASE CheckFrozen(r)
  BY <1>0, <1>8 DEF CheckFrozen
<1>9. CASE CheckLive(r)
  BY <1>0, <1>9 DEF CheckLive
<1>10. CASE RemoveFrozenBytes(r)
  BY <1>0, <1>10 DEF RemoveFrozenBytes
<1> QED
  BY <1>1, <1>2, <1>3, <1>4, <1>5, <1>6, <1>7, <1>8, <1>9, <1>10 DEF VersionDeletionStep

LEMMA PassesCopyStep ==
  ASSUME TypeOK, NEW r \in Requests, ReadLatest(r) \/ ListFiles(r) \/ CopyFile(r)
  PROVE  Passes(r)
<1> USE DEF Passes, At, stores, TypeOK, Request
<1>0. Frame(r)
  BY FrameFreezeStep DEF FreezeStep
<1>1. CASE ReadLatest(r)
  BY <1>0, <1>1 DEF ReadLatest
<1>2. CASE ListFiles(r)
  BY <1>0, <1>2 DEF ListFiles
<1>3. CASE CopyFile(r)
  BY <1>0, <1>3 DEF CopyFile
<1> QED
  BY <1>1, <1>2, <1>3

LEMMA OwnersPass ==
  ASSUME TypeInv, VersionsOK, OwnersOK, NEW r \in Requests, Passes(r) PROVE OwnersOK'
<1>1. /\ \A q \in Requests : q # r => req'[q] = req[q]
      /\ req'[r].op = req[r].op /\ running' \subseteq running /\ overlapped' = overlapped
      /\ num' = num /\ deleted' = deleted /\ owned' = owned
      /\ running \subseteq Requests
  BY DEF Passes, Frame, TypeInv, TypeOK
<1>2. ReleasedAreOwned'
  <2> SUFFICES ASSUME NEW v \in Versions, num[v] # 0, v \notin deleted, req'[v].pc = "done",
                      v \notin owned
               PROVE  \E q \in Requests : req'[q].version = v /\ req'[q].pc = "mark"
    BY <1>1 DEF ReleasedAreOwned
  <2>1. req[v].op = "Freeze"
    BY DEF VersionsOK, Numbered, Versions
  <2>2. v # r
    BY <2>1 DEF Passes
  <2>3. PICK q \in Requests : req[q].version = v /\ req[q].pc = "mark"
    BY <1>1, <2>2 DEF OwnersOK, ReleasedAreOwned, Versions
  <2> QED
    BY <1>1, <2>3 DEF Passes
<1> SUFFICES ASSUME ~ overlapped PROVE ApartOK'
  BY <1>1, <1>2 DEF OwnersOK
<1>3. NotTogether' /\ OwnedAreReleased'
  BY <1>1 DEF OwnersOK, ApartOK, NotTogether, OwnedAreReleased
<1>4. MarkedAreUnowned'
  BY <1>1 DEF OwnersOK, ApartOK, MarkedAreUnowned, Passes
<1>5. CopiedAreReleased'
  BY <1>1 DEF OwnersOK, ApartOK, CopiedAreReleased, Passes
<1> QED
  BY <1>3, <1>4, <1>5 DEF ApartOK

LEMMA OwnersStart ==
  ASSUME TypeInv, IdleOK, OwnersOK, NEW r \in Requests, Start(r) PROVE OwnersOK'
<1>1. /\ req[r].pc = "idle"
      /\ num' = num /\ deleted' = deleted /\ owned' = owned
      /\ \A q \in Requests : q # r => req'[q] = req[q]
      /\ running' = running \cup {r} /\ running \subseteq Requests
      /\ overlapped' = (overlapped \/ \E q \in running :
            \/ req'[r].op = "Freeze" /\ req[q].op \in Deletions
            \/ req'[r].op \in Deletions /\ req[q].op = "Freeze")
  BY DEF Start, Upload, Update, PatchFile, PatchDataset, DeleteFile, DeleteFolder,
         Freeze, DeleteVersion, DeleteDataset, Arrive, stores, TypeInv, TypeOK
<1>2. req'[r].pc \notin {"mark", "list", "copy", "done"}
  BY DEF Start, Upload, Update, PatchFile, PatchDataset, DeleteFile, DeleteFolder,
         Freeze, DeleteVersion, DeleteDataset, Arrive, TypeInv, TypeOK
<1>3. ReleasedAreOwned'
  BY <1>1, <1>2 DEF OwnersOK, ReleasedAreOwned, Versions
<1> SUFFICES ASSUME ~ overlapped' PROVE ApartOK'
  BY <1>3 DEF OwnersOK
<1>4. ~ overlapped
  BY <1>1
<1>5. NotTogether'
  BY <1>1, <1>4 DEF OwnersOK, ApartOK, NotTogether, Deletions, VersionDeletions, FileDeletions
<1>6. OwnedAreReleased'
  BY <1>1, <1>4 DEF OwnersOK, ApartOK, OwnedAreReleased
<1>7. MarkedAreUnowned'
  BY <1>1, <1>2, <1>4 DEF OwnersOK, ApartOK, MarkedAreUnowned
<1>8. CopiedAreReleased'
  BY <1>1, <1>2, <1>4 DEF OwnersOK, ApartOK, CopiedAreReleased
<1> QED
  BY <1>5, <1>6, <1>7, <1>8 DEF ApartOK

\* The document of the version is there, and not marked, before anything is copied.
LEMMA OwnersInsert ==
  ASSUME TypeInv, VersionsOK, OwnersOK, NEW r \in Requests, InsertVersion(r) PROVE OwnersOK'
<1>1. /\ num' = [num EXCEPT ![r] = req[r].n] /\ deleted' = deleted /\ owned' = owned
      /\ \A q \in Requests : q # r => req'[q] = req[q]
      /\ req[r].op = "Freeze" /\ req[r].pc = "insertDoc"
      /\ req'[r].op = "Freeze" /\ req'[r].pc = "list"
      /\ running' = running /\ overlapped' = overlapped /\ running \subseteq Requests
      /\ num \in [Versions -> Nat] /\ owned \subseteq Requests
  BY DEF InsertVersion, At, Goto, TypeInv, TypeOK, Request, Versions
<1>2. req[r].n # 0
  BY <1>1, RecordNumbers DEF VersionsOK, TypeInv
<1>3. r \notin deleted
  BY <1>1 DEF VersionsOK, NumberedVersions, Numbered
<1>4. \A v \in Requests : v # r => num'[v] = num[v]
  BY <1>1 DEF Versions
<1>5. num'[r] # 0
  BY <1>1, <1>2 DEF Versions
<1>6. ReleasedAreOwned'
  BY <1>1, <1>4 DEF OwnersOK, ReleasedAreOwned, Versions
<1> SUFFICES ASSUME ~ overlapped PROVE ApartOK'
  BY <1>1, <1>6 DEF OwnersOK
<1>7. NotTogether'
  BY <1>1 DEF OwnersOK, ApartOK, NotTogether
<1>8. OwnedAreReleased'
  BY <1>1, <1>3, <1>4, <1>5 DEF OwnersOK, ApartOK, OwnedAreReleased
<1>9. MarkedAreUnowned'
  BY <1>1 DEF OwnersOK, ApartOK, MarkedAreUnowned
<1>10. CopiedAreReleased'
  BY <1>1, <1>3, <1>4, <1>5 DEF OwnersOK, ApartOK, CopiedAreReleased
<1> QED
  BY <1>7, <1>8, <1>9, <1>10 DEF ApartOK

\* No deletion is between taking the authorizations and marking this version.
LEMMA OwnersAuthorize ==
  ASSUME TypeInv, OwnersOK, NEW r \in Requests, Authorize(r) PROVE OwnersOK'
<1>1. /\ num' = num /\ deleted' = deleted /\ owned' = owned \cup {r}
      /\ \A q \in Requests : q # r => req'[q] = req[q]
      /\ r \in running /\ req[r].op = "Freeze" /\ req[r].pc = "copy"
      /\ req'[r].op = "Freeze" /\ req'[r].pc = "done"
      /\ running' = running \ {r} /\ overlapped' = overlapped /\ running \subseteq Requests
  BY DEF Authorize, At, Stop, TypeInv, TypeOK, Request
<1>2. ReleasedAreOwned'
  BY <1>1 DEF OwnersOK, ReleasedAreOwned, Versions
<1> SUFFICES ASSUME ~ overlapped PROVE ApartOK'
  BY <1>1, <1>2 DEF OwnersOK
<1>3. NotTogether'
  BY <1>1 DEF OwnersOK, ApartOK, NotTogether
<1>4. OwnedAreReleased'
  BY <1>1 DEF OwnersOK, ApartOK, OwnedAreReleased, CopiedAreReleased
<1>5. MarkedAreUnowned'
  BY <1>1 DEF OwnersOK, ApartOK, MarkedAreUnowned, NotTogether, Deletions
<1>6. CopiedAreReleased'
  BY <1>1 DEF OwnersOK, ApartOK, CopiedAreReleased
<1> QED
  BY <1>3, <1>4, <1>5, <1>6 DEF ApartOK

LEMMA OwnersDeauthorize ==
  ASSUME TypeInv, OwnersOK, NEW r \in Requests, Deauthorize(r) PROVE OwnersOK'
<1>1. /\ num' = num /\ deleted' = deleted /\ owned' = owned \ {req[r].version}
      /\ \A q \in Requests : q # r => req'[q] = req[q]
      /\ req[r].op \in VersionDeletions /\ req[r].pc = "deauthorize"
      /\ req'[r].op = req[r].op /\ req'[r].version = req[r].version /\ req'[r].pc = "mark"
      /\ running' = running /\ overlapped' = overlapped /\ running \subseteq Requests
  BY DEF Deauthorize, At, Goto, TypeInv, TypeOK, Request
<1>2. ReleasedAreOwned'
  BY <1>1 DEF OwnersOK, ReleasedAreOwned, Versions
<1> SUFFICES ASSUME ~ overlapped PROVE ApartOK'
  BY <1>1, <1>2 DEF OwnersOK
<1>3. NotTogether' /\ OwnedAreReleased'
  BY <1>1 DEF OwnersOK, ApartOK, NotTogether, OwnedAreReleased
<1>4. MarkedAreUnowned'
  BY <1>1 DEF OwnersOK, ApartOK, MarkedAreUnowned
<1>5. CopiedAreReleased'
  BY <1>1 DEF OwnersOK, ApartOK, CopiedAreReleased, VersionDeletions
<1> QED
  BY <1>3, <1>4, <1>5 DEF ApartOK

\* The version that is marked or erased has no OWNER and is not being released.
LEMMA OwnersMark ==
  ASSUME TypeInv, VersionsOK, OwnersOK, NEW r \in Requests, MarkDeleted(r) \/ EraseVersion(r)
  PROVE  OwnersOK'
<1> DEFINE v == req[r].version
<1>1. /\ owned' = owned
      /\ \A q \in Requests : q # r => req'[q] = req[q]
      /\ r \in running /\ req[r].op \in VersionDeletions /\ req[r].pc = "mark"
      /\ req'[r].op = req[r].op /\ req'[r].pc # "mark"
      /\ running' \subseteq running /\ overlapped' = overlapped /\ running \subseteq Requests
  BY DEF MarkDeleted, EraseVersion, At, Goto, Stop, VersionDeletions, TypeInv, TypeOK, Request
<1>2. \/ num' = [num EXCEPT ![v] = req[v].n] /\ deleted' = deleted \cup {v}
      \/ num' = [num EXCEPT ![v] = 0] /\ deleted' = deleted \ {v}
  BY DEF MarkDeleted, EraseVersion
<1>3. v \in Requests
  BY <1>1 DEF VersionsOK, NumberedVersions, VersionStage, VersionDeletions
<1>4. /\ num'[v] = 0 \/ v \in deleted'
      /\ \A w \in Requests : w # v => num'[w] = num[w] /\ (w \in deleted' <=> w \in deleted)
  BY <1>2, <1>3 DEF TypeInv, TypeOK, Versions
<1> HIDE DEF v
<1>5. \A q \in Requests : req'[q].pc = "mark" <=> req[q].pc = "mark" /\ q # r
  BY <1>1
<1>6. ReleasedAreOwned'
  <2> SUFFICES ASSUME NEW w \in Requests, num'[w] # 0, w \notin deleted', req'[w].pc = "done",
                      w \notin owned
               PROVE  \E q \in Requests : req'[q].version = w /\ req'[q].pc = "mark"
    BY <1>1 DEF ReleasedAreOwned, Versions
  <2>1. w # v /\ num[w] # 0 /\ w \notin deleted
    BY <1>4
  <2>2. req[w].op = "Freeze"
    BY <2>1 DEF VersionsOK, Numbered
  <2>3. w # r
    BY <1>1, <2>2 DEF VersionDeletions
  <2>4. PICK q \in Requests : req[q].version = w /\ req[q].pc = "mark"
    BY <1>1, <2>1, <2>3 DEF OwnersOK, ReleasedAreOwned, Versions
  <2>5. q # r
    BY <2>1, <2>4 DEF v
  <2> QED
    BY <1>1, <2>4, <2>5
<1> SUFFICES ASSUME ~ overlapped PROVE ApartOK'
  BY <1>1, <1>6 DEF OwnersOK
<1>7. NotTogether'
  BY <1>1 DEF OwnersOK, ApartOK, NotTogether
<1>8. OwnedAreReleased'
  <2>1. v \notin owned
    BY <1>1 DEF OwnersOK, ApartOK, MarkedAreUnowned, v
  <2> QED
    BY <1>1, <1>4, <2>1 DEF OwnersOK, ApartOK, OwnedAreReleased, TypeInv, TypeOK, Versions
<1>9. MarkedAreUnowned'
  BY <1>1 DEF OwnersOK, ApartOK, MarkedAreUnowned
<1>10. CopiedAreReleased'
  <2> SUFFICES ASSUME NEW q \in running', req'[q].op = "Freeze", req'[q].pc \in {"list", "copy"}
               PROVE  num'[q] # 0 /\ q \notin deleted'
    BY DEF CopiedAreReleased
  <2>1. q \in running /\ req[q].op = "Freeze"
    BY <1>1
  <2>2. FALSE
    BY <1>1, <2>1 DEF OwnersOK, ApartOK, NotTogether, Deletions
  <2> QED
    BY <2>2
<1> QED
  BY <1>7, <1>8, <1>9, <1>10 DEF ApartOK

LEMMA OwnersStep ==
  ASSUME TypeInv, VersionsOK, OwnersOK, NEW r \in Requests, Step(r) PROVE OwnersOK'
<1> USE DEF TypeInv
<1>1. CASE FileStep(r)
  BY <1>1, PassesFileStep, OwnersPass
<1>2. CASE FreezeStep(r)
  BY <1>2, PassesCopyStep, OwnersPass, OwnersInsert, OwnersAuthorize DEF FreezeStep
<1>3. CASE VersionDeletionStep(r)
  BY <1>3, PassesCursorStep, OwnersPass, OwnersDeauthorize, OwnersMark
<1>4. CASE FileDeletionStep(r)
  BY <1>4, PassesFileDeletionStep, OwnersPass
<1> QED
  BY <1>1, <1>2, <1>3, <1>4 DEF Step

LEMMA OwnersInvariant == Spec => []OwnersOK
<1>1. Init => OwnersOK
  BY DEF Init, OwnersOK, ApartOK, NotTogether, OwnedAreReleased, MarkedAreUnowned, CopiedAreReleased,
         ReleasedAreOwned, Versions
<1>2. TypeInv /\ IdleOK /\ VersionsOK /\ OwnersOK /\ [Next]_vars => OwnersOK'
  <2> SUFFICES ASSUME TypeInv, IdleOK, VersionsOK, OwnersOK, [Next]_vars PROVE OwnersOK'
    OBVIOUS
  <2> USE DEF OwnersOK, ApartOK, NotTogether, OwnedAreReleased, MarkedAreUnowned, CopiedAreReleased,
              ReleasedAreOwned
  <2>1. ASSUME NEW r \in Requests, Start(r) PROVE OwnersOK'
    BY <2>1, OwnersStart
  <2>2. ASSUME NEW r \in Requests, Step(r) PROVE OwnersOK'
    BY <2>2, OwnersStep
  <2>3. ASSUME NEW r \in Requests, Crash(r) PROVE OwnersOK'
    BY <2>3 DEF Crash, stores
  <2>4. CASE UNCHANGED vars
    BY <2>4 DEF vars
  <2> QED
    BY <2>1, <2>2, <2>3, <2>4 DEF Next
<1> QED
  BY <1>1, <1>2, TypeInvariant, IdleInvariant, VersionsInvariant, PTL DEF Spec

\* The OWNER authorization goes to a version at the end of freeze_dataset and goes in
\* _delete_frozen_dataset, at whatever point other requests and crashes come in between.
THEOREM OwnersAreThoseOfReleases == Spec => []OwnersFollowReleases
<1>1. TypeInv /\ OwnersOK => OwnersFollowReleases
  BY DEF TypeInv, TypeOK, OwnersOK, ApartOK, OwnedAreReleased, ReleasedAreOwned, OwnersFollowReleases,
         Recorded
<1> QED
  BY <1>1, TypeInvariant, OwnersInvariant, PTL

-----------------------------------------------------------------------------
(* The handlers implement VersionList.                                     *)
NumberMap == [r \in Requests |-> VersionNumberOf(r)]
StateMap == [r \in Requests |-> VersionState(r)]

LEMMA MapUnchanged ==
  ASSUME num' = num, deleted' = deleted,
         \A q \in Requests : (Numbered(q)' <=> Numbered(q)) /\ (Numbered(q) => req'[q].n = req[q].n)
  PROVE  NumberMap' = NumberMap /\ StateMap' = StateMap
<1>1. \A q \in Requests : VersionNumberOf(q)' = VersionNumberOf(q)
  BY DEF VersionNumberOf
<1>2. \A q \in Requests : VersionState(q)' = VersionState(q)
  BY DEF VersionState
<1> QED
  BY <1>1, <1>2 DEF NumberMap, StateMap

LEMMA MapStutters ==
  ASSUME TypeInv, NEW r \in Requests,
         \/ Start(r) \/ FileStep(r) \/ FileDeletionStep(r) \/ FrozenFileStep(r)
         \/ FindVersions(r) \/ NextVersion(r)
         \/ ReadLatest(r) \/ ListFiles(r) \/ CopyFile(r) \/ Authorize(r) \/ Crash(r)
  PROVE  NumberMap' = NumberMap /\ StateMap' = StateMap
<1> USE DEF TypeInv
<1>1. CASE Start(r)
  <2>1. /\ num' = num /\ deleted' = deleted
        /\ \A q \in Requests : q # r => req'[q] = req[q]
        /\ req[r].pc = "idle"
    BY <1>1 DEF Start, Upload, Update, PatchFile, PatchDataset, DeleteFile, DeleteFolder, Freeze,
                DeleteVersion, DeleteDataset, Arrive, stores, TypeOK
  <2>2. req'[r].op # "Freeze" \/ req'[r].pc = "latest"
    BY <1>1 DEF Start, Upload, Update, PatchFile, PatchDataset, DeleteFile, DeleteFolder, Freeze,
                DeleteVersion, DeleteDataset, Arrive, stores, TypeOK
  <2> QED
    BY <2>1, <2>2, MapUnchanged DEF Numbered
<1>2. CASE FileStep(r) \/ FileDeletionStep(r) \/ FrozenFileStep(r)
  <2>1. Quiet(r)
    BY <1>2, QuietFileStep, QuietFileDeletionStep, QuietFrozenFileStep
  <2> QED
    BY <2>1, MapUnchanged DEF Quiet, Numbered
<1>3. CASE FindVersions(r) \/ NextVersion(r)
  <2>1. Frame(r) /\ req[r].op = "DeleteDataset" /\ num' = num /\ deleted' = deleted
    BY <1>3, FrameVersionDeletionStep
       DEF VersionDeletionStep, FindVersions, NextVersion, At, stores
  <2> QED
    BY <2>1, MapUnchanged DEF Frame, Numbered
<1>4. CASE ReadLatest(r)
  <2>1. Frame(r) /\ num' = num /\ deleted' = deleted
    BY <1>4, FrameFreezeStep DEF FreezeStep, ReadLatest, stores
  <2>2. req[r].pc = "latest" /\ req'[r].pc = "insertDoc"
    BY <1>4 DEF ReadLatest, At, TypeOK, Request
  <2> QED
    BY <2>1, <2>2, MapUnchanged DEF Frame, Numbered
<1>5. CASE ListFiles(r) \/ CopyFile(r) \/ Authorize(r)
  <2>1. /\ num' = num /\ deleted' = deleted
        /\ \A q \in Requests : q # r => req'[q] = req[q]
        /\ req'[r].op = req[r].op /\ req'[r].n = req[r].n
        /\ req[r].pc \in {"list", "copy"} /\ req'[r].pc \in {"copy", "done"}
    <3> USE DEF At, Stop, stores, TypeOK, Request
    <3>1. CASE ListFiles(r)
      BY <3>1 DEF ListFiles
    <3>2. CASE CopyFile(r)
      BY <3>2 DEF CopyFile
    <3>3. CASE Authorize(r)
      BY <3>3 DEF Authorize
    <3> QED
      BY <1>5, <3>1, <3>2, <3>3
  <2> QED
    BY <2>1, MapUnchanged DEF Numbered
<1>6. CASE Crash(r)
  BY <1>6, MapUnchanged DEF Crash, stores, Numbered
<1> QED
  BY <1>1, <1>2, <1>3, <1>4, <1>5, <1>6

LEMMA InsertIsRelease ==
  ASSUME TypeInv, VersionsOK, NEW r \in Requests, InsertVersion(r)
  PROVE  Versioning!Release(r)
<1> USE DEF TypeInv
<1>1. /\ num' = [num EXCEPT ![r] = req[r].n] /\ deleted' = deleted
      /\ \A q \in Requests : q # r => req'[q] = req[q]
      /\ req[r].op = "Freeze" /\ req[r].pc = "insertDoc"
      /\ req'[r].op = "Freeze" /\ req'[r].pc = "list" /\ req'[r].n = req[r].n
  BY DEF InsertVersion, At, Goto, TypeOK, Request
<1>2. ~ Numbered(r) /\ Numbered(r)' /\ r \notin deleted
  BY <1>1 DEF Numbered, VersionsOK, NumberedVersions
<1>3. PICK j \in Requests : req[r].n = VersionNumberOf(j) + 1
  BY <1>1 DEF VersionsOK
<1>4. req[r].n # 0
  BY <1>3, RecordNumbers
<1>5. NumberMap' = [NumberMap EXCEPT ![r] = req[r].n]
  <2>1. VersionNumberOf(r)' = req[r].n
    BY <1>1, <1>2 DEF VersionNumberOf
  <2>2. \A q \in Requests : q # r => VersionNumberOf(q)' = VersionNumberOf(q)
    BY <1>1 DEF VersionNumberOf, Numbered
  <2> QED
    BY <2>1, <2>2 DEF NumberMap
<1>6. StateMap' = [StateMap EXCEPT ![r] = "released"]
  <2>1. VersionState(r)' = "released"
    BY <1>1, <1>2, <1>4 DEF VersionState, TypeOK, Versions
  <2>2. \A q \in Requests : q # r => VersionState(q)' = VersionState(q)
    BY <1>1 DEF VersionState, TypeOK, Versions
  <2> QED
    BY <2>1, <2>2 DEF StateMap
<1>7. NumberMap[r] = 0
  BY <1>2 DEF NumberMap, VersionNumberOf
<1>8. req[r].n \in {NumberMap[i] + 1 : i \in Requests}
  BY <1>3 DEF NumberMap
<1> QED
  BY <1>5, <1>6, <1>7, <1>8 DEF Versioning!Release, NumberMap, StateMap

LEMMA MarkIsWithdrawOrErase ==
  ASSUME TypeInv, VersionsOK, NEW r \in Requests, MarkDeleted(r) \/ EraseVersion(r)
  PROVE  \E v \in Requests : Versioning!Withdraw(v) \/ Versioning!Erase(v)
<1> USE DEF TypeInv
<1>1. /\ \A q \in Requests : q # r => req'[q] = req[q]
      /\ req[r].op = "DeleteVersion" \/ req[r].op = "DeleteDataset"
      /\ req'[r].op = req[r].op /\ req[r].pc = "mark"
  BY DEF MarkDeleted, EraseVersion, At, Goto, Stop, TypeOK, Request
<1>2. PICK v \in Requests : v = req[r].version /\ Numbered(v) /\ req[v].n # 0
  BY <1>1 DEF VersionsOK, VersionStage, NumberedVersions
<1>3. \A q \in Requests : (Numbered(q)' <=> Numbered(q)) /\ (Numbered(q) => req'[q] = req[q])
  BY <1>1 DEF Numbered
<1>4. NumberMap' = NumberMap
  BY <1>3 DEF NumberMap, VersionNumberOf
<1>5. NumberMap[v] # 0
  BY <1>2 DEF NumberMap, VersionNumberOf
<1>6. CASE MarkDeleted(r)
  <2>1. num' = [num EXCEPT ![v] = req[v].n] /\ deleted' = deleted \cup {v}
    BY <1>2, <1>6 DEF MarkDeleted
  <2>2. VersionState(v)' = "deleted"
    BY <1>2, <2>1 DEF VersionState, TypeOK, Versions
  <2>3. \A q \in Requests : q # v => VersionState(q)' = VersionState(q)
    BY <1>2, <2>1 DEF VersionState, TypeOK, Versions
  <2>4. StateMap' = [StateMap EXCEPT ![v] = "deleted"]
    BY <1>2, <2>2, <2>3 DEF StateMap
  <2>5. Versioning!Withdraw(v)
    BY <1>4, <1>5, <2>4 DEF Versioning!Withdraw, NumberMap, StateMap
  <2> QED
    BY <1>2, <2>5
<1>7. CASE EraseVersion(r)
  <2>1. num' = [num EXCEPT ![v] = 0] /\ deleted' = deleted \ {v}
    BY <1>2, <1>7 DEF EraseVersion
  <2>2. VersionState(v)' = "absent"
    BY <1>2, <2>1 DEF VersionState, TypeOK, Versions
  <2>3. \A q \in Requests : q # v => VersionState(q)' = VersionState(q)
    BY <1>2, <2>1 DEF VersionState, TypeOK, Versions
  <2>4. StateMap' = [StateMap EXCEPT ![v] = "absent"]
    BY <1>2, <2>2, <2>3 DEF StateMap
  <2>5. Versioning!Erase(v)
    BY <1>4, <1>5, <2>4 DEF Versioning!Erase, NumberMap, StateMap
  <2> QED
    BY <1>2, <2>5
<1> QED
  BY <1>6, <1>7

\* The handlers of routers/datasets.py and db/dataset/version.py keep what VersionList
\* promises: every step is a step of VersionList or leaves the list of versions alone.
THEOREM ImplementsVersionList == Spec => KeepsVersionList
<1>1. Init => Versioning!Init
  BY DEF Init, Versioning!Init, VersionNumberOf, VersionState, Numbered, NoRequest, Versions
<1>2. TypeInv /\ VersionsOK /\ [Next]_vars => [Versioning!Next]_<<NumberMap, StateMap>>
  <2> SUFFICES ASSUME TypeInv, VersionsOK, [Next]_vars
               PROVE  Versioning!Next \/ (NumberMap' = NumberMap /\ StateMap' = StateMap)
    OBVIOUS
  <2>1. CASE UNCHANGED vars
    BY <2>1 DEF vars, NumberMap, StateMap, VersionNumberOf, VersionState, Numbered
  <2>2. ASSUME NEW r \in Requests, InsertVersion(r) PROVE Versioning!Next
    BY <2>2, InsertIsRelease DEF Versioning!Next
  <2>3. ASSUME NEW r \in Requests, MarkDeleted(r) \/ EraseVersion(r) PROVE Versioning!Next
    BY <2>3, MarkIsWithdrawOrErase DEF Versioning!Next
  <2> QED
    BY <2>1, <2>2, <2>3, MapStutters
       DEF Next, Step, FreezeStep, VersionDeletionStep, FrozenFileStep
<1> QED
  BY <1>1, <1>2, TypeInvariant, VersionsInvariant, PTL
     DEF Spec, KeepsVersionList, Versioning!Spec, NumberMap, StateMap

=============================================================================
