----------------------- MODULE DatasetVersions_proofs -----------------------
(* Proofs about DatasetVersions, for any files and any number of requests. *)
EXTENDS DatasetVersions, TLAPS

USE FilesAssumption, NoneAssumption, OpsAssumption

\* The operations on a file have a file, as has a save(); the deletion of a version has a
\* version.
ArgumentsOK == \A r \in Requests :
    /\ req[r].op \in {"Upload", "Update", "PatchFile", "DeleteFile"} => req[r].file \in Files
    /\ req[r].pc = "save" => req[r].file \in Files
    /\ req[r].op = "DeleteVersion" => req[r].version \in Versions

LEMMA TypeInit == Init => TypeOK
<1> SUFFICES ASSUME Init PROVE TypeOK
  OBVIOUS
<1>1. NoRequest \in Request
  BY DEF NoRequest, Request, Labels
<1>2. req \in [Requests -> Request]
  BY <1>1 DEF Init
<1>3. num \in [Versions -> Nat]
  BY DEF Init
<1> QED
  BY <1>2, <1>3, FilesAssumption DEF Init, TypeOK, Versions

LEMMA TypeArrive ==
  ASSUME TypeOK, NEW r \in Requests, NEW op \in AllOps, NEW label \in Labels,
         NEW f \in Files \cup {NoFile}, NEW v \in Versions \cup {NoVersion},
         Arrive(r, op, label, f, v)
  PROVE  TypeOK'
<1>1. Numbers \in SUBSET Nat
  BY DEF Numbers, Recorded, TypeOK
<1>2. [op |-> op, pc |-> label, file |-> f, version |-> v, n |-> 0, docs |-> {},
       todo |-> {}, seen |-> Numbers, present |-> files, revived |-> {}] \in Request
  BY <1>1 DEF Request, TypeOK
<1>3. req' \in [Requests -> Request]
  BY <1>2 DEF Arrive, TypeOK
<1>4. overlapped' \in BOOLEAN
  BY DEF Arrive, TypeOK
<1> QED
  BY <1>3, <1>4 DEF Arrive, TypeOK, stores

LEMMA TypeStart ==
  ASSUME TypeOK, NEW r \in Requests, Start(r) PROVE TypeOK'
<1>1. {"insert", "put", "save", "saveDataset", "remove", "fileCursor", "latest", "frozenCursor",
       "docs"} \subseteq Labels
  BY DEF Labels
<1> USE <1>1, TypeArrive DEF AllOps
<1>2. CASE Upload(r)
  BY <1>2 DEF Upload
<1>3. CASE Update(r)
  BY <1>3 DEF Update, TypeOK
<1>4. CASE PatchFile(r)
  BY <1>4 DEF PatchFile, TypeOK
<1>5. CASE DeleteFile(r)
  BY <1>5 DEF DeleteFile, TypeOK
<1>6. CASE DeleteFolder(r)
  BY <1>6 DEF DeleteFolder
<1>7. CASE Freeze(r)
  BY <1>7 DEF Freeze
<1>8. CASE DeleteVersion(r)
  BY <1>8 DEF DeleteVersion, Recorded
<1>9. CASE DeleteDataset(r)
  BY <1>9 DEF DeleteDataset
<1>10. CASE PatchDataset(r)
  BY <1>10 DEF PatchDataset
<1> QED
  BY <1>2, <1>3, <1>4, <1>5, <1>6, <1>7, <1>8, <1>9, <1>10 DEF Start

\* Changing the local variables of a handler leaves a well-typed record.
LEMMA RecordUpdate ==
  ASSUME NEW q \in Request, NEW label \in Labels, NEW k \in Nat,
         NEW f \in Files \cup {NoFile}, NEW v \in Versions \cup {NoVersion},
         NEW docs \in SUBSET Versions, NEW todo \in SUBSET Files,
         NEW revived \in SUBSET Files
  PROVE  /\ [q EXCEPT !.pc = label] \in Request
         /\ [q EXCEPT !.todo = todo] \in Request
         /\ [q EXCEPT !.pc = label, !.n = k] \in Request
         /\ [q EXCEPT !.pc = label, !.docs = docs] \in Request
         /\ [q EXCEPT !.pc = label, !.revived = revived] \in Request
         /\ [q EXCEPT !.pc = label, !.todo = todo] \in Request
         /\ [q EXCEPT !.pc = label, !.version = v, !.docs = docs] \in Request
         /\ [q EXCEPT !.pc = label, !.file = f, !.todo = todo] \in Request
  BY DEF Request

LEMMA ReqType ==
  ASSUME TypeOK, NEW r \in Requests, NEW label \in Labels,
         \/ Goto(r, label)
         \/ Stop(r, label)
  PROVE  /\ req' \in [Requests -> Request]
         /\ running' \subseteq Requests
         /\ overlapped' \in BOOLEAN
<1>1. [req[r] EXCEPT !.pc = label] \in Request
  BY RecordUpdate DEF TypeOK
<1> QED
  BY <1>1 DEF TypeOK, Goto, Stop

\* What is left of the local variables when a handler takes a file or a version off a cursor.
Takes(r, ops, here, next) ==
    /\ At(r, ops, here)
    /\ UNCHANGED stores /\ overlapped' = overlapped
    /\ req' \in [Requests -> Request]
    /\ \A q \in Requests : q # r => req'[q] = req[q]
    /\ req'[r].op = req[r].op /\ req'[r].version = req[r].version /\ req'[r].n = req[r].n
    /\ req'[r].docs = req[r].docs
    /\ req'[r].seen = req[r].seen /\ req'[r].present = req[r].present
    /\ req'[r].revived = req[r].revived
    /\ \/ /\ req'[r].pc = "failed" /\ running' = running \ {r}
          /\ req'[r].file = req[r].file /\ req'[r].todo = req[r].todo
       \/ /\ req'[r].pc = next /\ running' = running
          /\ req'[r].file \in req[r].todo
          /\ req'[r].todo = req[r].todo \ {req'[r].file}

LEMMA TakesFile ==
  ASSUME TypeOK, NEW r \in Requests, NEW f \in req[r].todo, NEW next \in Labels,
         req' = [req EXCEPT ![r] = [@ EXCEPT !.pc = next, !.file = f, !.todo = req[r].todo \ {f}]]
  PROVE  /\ req' \in [Requests -> Request]
         /\ \A q \in Requests : q # r => req'[q] = req[q]
         /\ req'[r] = [req[r] EXCEPT !.pc = next, !.file = f, !.todo = req[r].todo \ {f}]
         /\ req'[r].op = req[r].op /\ req'[r].version = req[r].version /\ req'[r].n = req[r].n
         /\ req'[r].docs = req[r].docs
         /\ req'[r].seen = req[r].seen /\ req'[r].present = req[r].present
         /\ req'[r].revived = req[r].revived
         /\ req'[r].pc = next /\ req'[r].file = f /\ req'[r].todo = req[r].todo \ {f}
<1> DEFINE h == [req[r] EXCEPT !.pc = next, !.file = f, !.todo = req[r].todo \ {f}]
<1>1. req[r] \in Request /\ f \in Files
  BY DEF TypeOK, Request
<1>2. h \in Request
  BY <1>1, RecordUpdate DEF Request
<1>3. req' = [req EXCEPT ![r] = h]
  OBVIOUS
<1>4. /\ h.op = req[r].op /\ h.version = req[r].version /\ h.n = req[r].n
      /\ h.docs = req[r].docs /\ h.seen = req[r].seen /\ h.present = req[r].present
      /\ h.revived = req[r].revived
      /\ h.pc = next /\ h.file = f /\ h.todo = req[r].todo \ {f}
  BY <1>1 DEF Request
<1> HIDE DEF h
<1>5. /\ req' \in [Requests -> Request]
      /\ \A q \in Requests : q # r => req'[q] = req[q]
      /\ req'[r] = h
  BY <1>2, <1>3 DEF TypeOK
<1> QED
  BY <1>4, <1>5 DEF h

LEMMA NextFrozenFileTakes ==
  ASSUME TypeOK, NEW r \in Requests, NextFrozenFile(r)
  PROVE  Takes(r, VersionDeletions, "frozenGet", "frozenDelete")
<1>1. PICK f \in req[r].todo :
        \/ /\ req' = [req EXCEPT ![r] = [@ EXCEPT !.pc = "frozenDelete", !.file = f, !.todo = req[r].todo \ {f}]]
           /\ UNCHANGED <<running, overlapped>>
        \/ Stop(r, "failed")
  BY DEF NextFrozenFile
<1>2. At(r, VersionDeletions, "frozenGet") /\ UNCHANGED stores
  BY DEF NextFrozenFile
<1>3. "frozenDelete" \in Labels /\ "failed" \in Labels
  BY DEF Labels
<1>4. CASE Stop(r, "failed")
  <2>1. req' \in [Requests -> Request]
    BY <1>3, <1>4, ReqType
  <2> QED
    BY <1>2, <1>4, <2>1 DEF Takes, Stop, TypeOK, Request
<1>5. CASE /\ req' = [req EXCEPT ![r] = [@ EXCEPT !.pc = "frozenDelete", !.file = f, !.todo = req[r].todo \ {f}]]
           /\ UNCHANGED <<running, overlapped>>
  <2>1. /\ UNCHANGED <<stores, running, overlapped>>
        /\ req' \in [Requests -> Request]
        /\ \A q \in Requests : q # r => req'[q] = req[q]
        /\ req'[r].op = req[r].op /\ req'[r].version = req[r].version
        /\ req'[r].n = req[r].n /\ req'[r].docs = req[r].docs
        /\ req'[r].seen = req[r].seen /\ req'[r].present = req[r].present
        /\ req'[r].revived = req[r].revived
        /\ req'[r].pc = "frozenDelete" /\ req'[r].file = f
        /\ req'[r].todo = req[r].todo \ {f}
    BY <1>2, <1>3, <1>5, TakesFile
  <2> QED
    BY <1>2, <2>1 DEF Takes
<1> QED
  BY <1>1, <1>4, <1>5

LEMMA NextFileTakes ==
  ASSUME TypeOK, NEW r \in Requests, NextFile(r)
  PROVE  Takes(r, FileDeletions, "fileGet", "fileDelete")
<1>1. PICK f \in req[r].todo :
        \/ /\ req' = [req EXCEPT ![r] = [@ EXCEPT !.pc = "fileDelete", !.file = f, !.todo = req[r].todo \ {f}]]
           /\ UNCHANGED <<running, overlapped>>
        \/ Stop(r, "failed")
  BY DEF NextFile
<1>2. At(r, FileDeletions, "fileGet") /\ UNCHANGED stores
  BY DEF NextFile
<1>3. "fileDelete" \in Labels /\ "failed" \in Labels
  BY DEF Labels
<1>4. CASE Stop(r, "failed")
  <2>1. req' \in [Requests -> Request]
    BY <1>3, <1>4, ReqType
  <2> QED
    BY <1>2, <1>4, <2>1 DEF Takes, Stop, TypeOK, Request
<1>5. CASE /\ req' = [req EXCEPT ![r] = [@ EXCEPT !.pc = "fileDelete", !.file = f, !.todo = req[r].todo \ {f}]]
           /\ UNCHANGED <<running, overlapped>>
  <2>1. /\ UNCHANGED <<stores, running, overlapped>>
        /\ req' \in [Requests -> Request]
        /\ \A q \in Requests : q # r => req'[q] = req[q]
        /\ req'[r].op = req[r].op /\ req'[r].version = req[r].version
        /\ req'[r].n = req[r].n /\ req'[r].docs = req[r].docs
        /\ req'[r].seen = req[r].seen /\ req'[r].present = req[r].present
        /\ req'[r].revived = req[r].revived
        /\ req'[r].pc = "fileDelete" /\ req'[r].file = f
        /\ req'[r].todo = req[r].todo \ {f}
    BY <1>2, <1>3, <1>5, TakesFile
  <2> QED
    BY <1>2, <2>1 DEF Takes
<1> QED
  BY <1>1, <1>4, <1>5

LEMMA NextVersionTakes ==
  ASSUME TypeOK, NEW r \in Requests, NextVersion(r)
  PROVE  /\ At(r, {"DeleteDataset"}, "nextDoc")
         /\ UNCHANGED <<stores, running, overlapped>>
         /\ req' \in [Requests -> Request]
         /\ \A q \in Requests : q # r => req'[q] = req[q]
         /\ req'[r].op = req[r].op /\ req'[r].file = req[r].file /\ req'[r].n = req[r].n
         /\ req'[r].todo = req[r].todo
         /\ req'[r].seen = req[r].seen /\ req'[r].present = req[r].present
         /\ req'[r].revived = req[r].revived
         /\ req'[r].pc = "frozenCursor"
         /\ req'[r].version \in req[r].docs
         /\ req'[r].docs = req[r].docs \ {req'[r].version}
<1>1. PICK v \in req[r].docs :
        req' = [req EXCEPT ![r] = [@ EXCEPT !.pc = "frozenCursor", !.version = v, !.docs = req[r].docs \ {v}]]
  BY DEF NextVersion
<1> DEFINE h == [req[r] EXCEPT !.pc = "frozenCursor", !.version = v, !.docs = req[r].docs \ {v}]
<1>2. req[r] \in Request /\ v \in Versions /\ "frozenCursor" \in Labels
  BY DEF TypeOK, Request, Labels
<1>3. h \in Request
  <2>1. req[r].docs \ {v} \in SUBSET Versions
    BY <1>2 DEF Request
  <2> QED
    BY <1>2, <2>1, RecordUpdate
<1>4. req' = [req EXCEPT ![r] = h]
  BY <1>1
<1>5. /\ h.op = req[r].op /\ h.file = req[r].file /\ h.n = req[r].n /\ h.todo = req[r].todo
      /\ h.seen = req[r].seen /\ h.present = req[r].present /\ h.revived = req[r].revived
      /\ h.pc = "frozenCursor" /\ h.version = v /\ h.docs = req[r].docs \ {v}
  BY <1>2 DEF Request
<1> HIDE DEF h
<1>6. /\ req' \in [Requests -> Request]
      /\ \A q \in Requests : q # r => req'[q] = req[q]
      /\ req'[r] = h
  BY <1>3, <1>4 DEF TypeOK
<1>7. At(r, {"DeleteDataset"}, "nextDoc") /\ UNCHANGED <<stores, running, overlapped>>
  BY DEF NextVersion
<1> QED
  BY <1>5, <1>6, <1>7

LEMMA NextPatchedTakes ==
  ASSUME TypeOK, NEW r \in Requests, NextPatched(r)
  PROVE  /\ At(r, {"PatchDataset"}, "patchGet")
         /\ UNCHANGED <<stores, running, overlapped>>
         /\ req' \in [Requests -> Request]
         /\ \A q \in Requests : q # r => req'[q] = req[q]
         /\ req'[r].op = req[r].op /\ req'[r].version = req[r].version /\ req'[r].n = req[r].n
         /\ req'[r].docs = req[r].docs
         /\ req'[r].seen = req[r].seen /\ req'[r].present = req[r].present
         /\ req'[r].revived = req[r].revived
         /\ req'[r].file \in req[r].todo
         /\ req'[r].todo = req[r].todo \ {req'[r].file}
         /\ \/ req'[r].pc = "save" /\ req'[r].file \in files
            \/ req'[r].pc = "patchGet" /\ req'[r].file \notin files
<1>1. PICK f \in req[r].todo :
        req' = [req EXCEPT ![r] = [@ EXCEPT !.pc = IF f \in files THEN "save" ELSE "patchGet",
                                            !.file = f, !.todo = req[r].todo \ {f}]]
  BY DEF NextPatched
<1>2. At(r, {"PatchDataset"}, "patchGet") /\ UNCHANGED <<stores, running, overlapped>>
  BY DEF NextPatched
<1> DEFINE next == IF f \in files THEN "save" ELSE "patchGet"
<1>3. next \in Labels
  BY DEF Labels
<1>4. req' = [req EXCEPT ![r] = [@ EXCEPT !.pc = next, !.file = f, !.todo = req[r].todo \ {f}]]
  BY <1>1
<1>5. \/ next = "save" /\ f \in files
      \/ next = "patchGet" /\ f \notin files
  OBVIOUS
<1> HIDE DEF next
<1>6. /\ req' \in [Requests -> Request]
      /\ \A q \in Requests : q # r => req'[q] = req[q]
      /\ req'[r].op = req[r].op /\ req'[r].version = req[r].version /\ req'[r].n = req[r].n
      /\ req'[r].docs = req[r].docs
      /\ req'[r].seen = req[r].seen /\ req'[r].present = req[r].present
      /\ req'[r].revived = req[r].revived
      /\ req'[r].pc = next /\ req'[r].file = f /\ req'[r].todo = req[r].todo \ {f}
  BY <1>3, <1>4, TakesFile
<1> QED
  BY <1>2, <1>5, <1>6

LEMMA TypeFile ==
  ASSUME TypeOK, ArgumentsOK, NEW r \in Requests, FileStep(r) PROVE TypeOK'
<1>1. {"put", "replace", "delete", "patchList", "patchGet", "done", "failed"} \subseteq Labels
  BY DEF Labels
<1>2. CASE InsertFile(r)
  BY <1>1, <1>2, ReqType DEF InsertFile, At, ArgumentsOK, TypeOK, stores
<1>3. CASE PutObject(r)
  BY <1>1, <1>3, ReqType DEF PutObject, At, ArgumentsOK, TypeOK, stores
<1>4. CASE ReplaceFile(r)
  BY <1>1, <1>4, ReqType DEF ReplaceFile, TypeOK, stores
<1>5. CASE SaveFile(r)
  <2> DEFINE next == IF req[r].op = "PatchFile" THEN "done" ELSE "patchGet"
             back == req[r].revived \cup ({req[r].file} \ files)
             h == [req[r] EXCEPT !.pc = next, !.revived = back]
  <2>1. req[r].file \in Files
    BY <1>5 DEF SaveFile, At, ArgumentsOK
  <2>2. h \in Request
    <3>1. back \in SUBSET Files
      BY <2>1 DEF TypeOK, Request
    <3>2. next \in Labels
      BY <1>1
    <3> HIDE DEF next, back
    <3> QED
      BY <3>1, <3>2, RecordUpdate DEF TypeOK
  <2>3. req' \in [Requests -> Request]
    BY <2>2, <1>5 DEF SaveFile, TypeOK
  <2>4. files' \subseteq Files
    BY <2>1, <1>5 DEF SaveFile, TypeOK
  <2>5. running' \subseteq Requests
    BY <1>5 DEF SaveFile, TypeOK
  <2> QED
    BY <2>3, <2>4, <2>5, <1>5 DEF SaveFile, TypeOK
<1>6. CASE RemoveObject(r)
  BY <1>1, <1>6, ReqType DEF RemoveObject, TypeOK, stores
<1>7. CASE DeleteFileDoc(r)
  BY <1>1, <1>7, ReqType DEF DeleteFileDoc, TypeOK, stores
<1>8. CASE SaveDataset(r)
  BY <1>1, <1>8, ReqType DEF SaveDataset, TypeOK
<1>9. CASE ListPatched(r)
  <2>1. [req[r] EXCEPT !.pc = "patchGet", !.todo = files] \in Request
    BY <1>1, RecordUpdate DEF TypeOK
  <2>2. req' \in [Requests -> Request]
    BY <2>1, <1>9 DEF ListPatched, TypeOK
  <2> QED
    BY <1>9, <2>2 DEF ListPatched, TypeOK, stores
<1>10. CASE NextPatched(r)
  BY <1>10, NextPatchedTakes DEF TypeOK, stores
<1>11. CASE NoMorePatched(r)
  BY <1>1, <1>11, ReqType DEF NoMorePatched, TypeOK, stores
<1> QED
  BY <1>2, <1>3, <1>4, <1>5, <1>6, <1>7, <1>8, <1>9, <1>10, <1>11 DEF FileStep

LEMMA TypeFreeze ==
  ASSUME TypeOK, NEW r \in Requests, FreezeStep(r) PROVE TypeOK'
<1>1. {"insertDoc", "list", "copy", "done"} \subseteq Labels
  BY DEF Labels
<1>2. CASE ReadLatest(r)
  <2>1. PICK m \in Nat : req' = [req EXCEPT ![r] = [@ EXCEPT !.pc = "insertDoc", !.n = m + 1]]
    BY <1>2 DEF ReadLatest, TypeOK, Numbers, Recorded
  <2>2. [req[r] EXCEPT !.pc = "insertDoc", !.n = m + 1] \in Request
    <3>1. m + 1 \in Nat
      OBVIOUS
    <3> QED
      BY <1>1, <3>1, RecordUpdate DEF TypeOK
  <2>3. req' \in [Requests -> Request]
    BY <2>1, <2>2 DEF TypeOK
  <2> QED
    BY <1>2, <2>3 DEF ReadLatest, TypeOK, stores
<1>3. CASE InsertVersion(r)
  <2>1. req[r].n \in Nat
    BY DEF TypeOK, Request
  <2> QED
    BY <1>1, <2>1, <1>3, ReqType DEF InsertVersion, TypeOK, Versions
<1>4. CASE ListFiles(r)
  <2>2. [req[r] EXCEPT !.pc = "copy", !.todo = files] \in Request
    BY <1>1, <1>4, RecordUpdate DEF TypeOK
  <2>3. req' \in [Requests -> Request]
    BY <2>2, <1>4 DEF ListFiles, TypeOK
  <2> QED
    BY <1>4, <2>3 DEF ListFiles, TypeOK, stores, Versions
<1>5. CASE CopyFile(r)
  <2>1. PICK f \in req[r].todo : /\ frozenFiles' = frozenFiles \cup {<<r, f>>}
                                 /\ req' = [req EXCEPT ![r].todo = @ \ {f}]
    BY <1>5 DEF CopyFile
  <2>2. f \in Files /\ req[r].todo \ {f} \subseteq Files
    BY DEF TypeOK, Request
  <2>3. [req[r] EXCEPT !.todo = @ \ {f}] \in Request
    BY <2>2 DEF TypeOK, Request
  <2>4. req' \in [Requests -> Request]
    BY <2>1, <2>3 DEF TypeOK
  <2> QED
    BY <1>5, <2>1, <2>2, <2>4 DEF CopyFile, TypeOK, Versions
<1>6. CASE Authorize(r)
  BY <1>1, <1>6, ReqType DEF Authorize, TypeOK, Versions
<1> QED
  BY <1>2, <1>3, <1>4, <1>5, <1>6 DEF FreezeStep

LEMMA TypeVersionDeletion ==
  ASSUME TypeOK, ArgumentsOK, NEW r \in Requests, VersionDeletionStep(r) PROVE TypeOK'
<1>1. {"nextDoc", "frozenCursor", "frozenGet", "frozenDelete", "checkFrozen", "checkLive",
       "frozenRemove", "deauthorize", "mark", "fileCursor", "failed", "done"} \subseteq Labels
  BY DEF Labels
<1>2. CASE FindVersions(r)
  <2>1. [req[r] EXCEPT !.pc = "nextDoc", !.docs = Recorded] \in Request
    BY <1>1, RecordUpdate DEF TypeOK, Recorded
  <2>2. req' \in [Requests -> Request]
    BY <2>1, <1>2 DEF FindVersions, TypeOK
  <2> QED
    BY <1>2, <2>2 DEF FindVersions, TypeOK, stores
<1>3. CASE NextVersion(r)
  BY <1>3, NextVersionTakes DEF TypeOK, stores
<1>4. CASE NoMoreVersions(r)
  BY <1>1, <1>4, ReqType DEF NoMoreVersions, TypeOK, stores
<1>5. CASE OpenFrozenCursor(r)
  <2>1. [req[r] EXCEPT !.pc = "frozenGet", !.todo = CopiesOf(req[r].version)] \in Request
    BY <1>1, RecordUpdate DEF TypeOK, CopiesOf
  <2>2. req' \in [Requests -> Request]
    BY <2>1, <1>5 DEF OpenFrozenCursor, TypeOK
  <2> QED
    BY <1>5, <2>2 DEF OpenFrozenCursor, TypeOK, stores
<1>6. CASE NextFrozenFile(r)
  BY <1>6, NextFrozenFileTakes DEF Takes, TypeOK, stores
<1>7. CASE NoMoreFrozenFiles(r)
  BY <1>1, <1>7, ReqType DEF NoMoreFrozenFiles, TypeOK, stores
<1>8. CASE DeleteFrozenFile(r)
  BY <1>1, <1>8, ReqType DEF DeleteFrozenFile, TypeOK, stores
<1>9. CASE CheckFrozen(r)
  BY <1>1, <1>9, ReqType DEF CheckFrozen, TypeOK, stores
<1>10. CASE CheckLive(r)
  BY <1>1, <1>10, ReqType DEF CheckLive, TypeOK, stores
<1>11. CASE RemoveFrozenBytes(r)
  BY <1>1, <1>11, ReqType DEF RemoveFrozenBytes, TypeOK, stores
<1>12. CASE Deauthorize(r)
  BY <1>1, <1>12, ReqType DEF Deauthorize, TypeOK, stores
<1>13. CASE MarkDeleted(r)
  <2>1. req[req[r].version].n \in Nat \/ req[r].version \notin Versions
    BY DEF TypeOK, Request, Versions
  <2>2. num' \in [Versions -> Nat]
    BY <1>13, <2>1 DEF MarkDeleted, TypeOK
  <2>3. deleted' \subseteq Versions
    BY <1>13 DEF MarkDeleted, At, ArgumentsOK, TypeOK
  <2> QED
    BY <1>1, <2>2, <2>3, <1>13, ReqType DEF MarkDeleted, TypeOK
<1>14. CASE EraseVersion(r)
  BY <1>1, <1>14, ReqType DEF EraseVersion, TypeOK, stores
<1> QED
  BY <1>2, <1>3, <1>4, <1>5, <1>6, <1>7, <1>8, <1>9, <1>10, <1>11, <1>12, <1>13, <1>14 DEF VersionDeletionStep

LEMMA TypeFileDeletion ==
  ASSUME TypeOK, NEW r \in Requests, FileDeletionStep(r) PROVE TypeOK'
<1>1. {"fileGet", "fileDelete", "fileCheck", "fileRemove", "dropDataset", "failed", "done"} \subseteq Labels
  BY DEF Labels
<1>2. CASE OpenFileCursor(r)
  <2>1. (IF req[r].op = "DeleteFolder" THEN files \cap FolderOf ELSE files) \in SUBSET Files
    BY DEF TypeOK
  <2>2. [req[r] EXCEPT !.pc = "fileGet",
                       !.todo = IF req[r].op = "DeleteFolder" THEN files \cap FolderOf ELSE files] \in Request
    BY <1>1, <2>1, RecordUpdate DEF TypeOK
  <2>3. req' \in [Requests -> Request]
    BY <2>2, <1>2 DEF OpenFileCursor, TypeOK
  <2> QED
    BY <1>2, <2>3 DEF OpenFileCursor, TypeOK, stores
<1>3. CASE NextFile(r)
  BY <1>3, NextFileTakes DEF Takes, TypeOK, stores
<1>4. CASE DeleteFileEntry(r)
  BY <1>1, <1>4, ReqType DEF DeleteFileEntry, TypeOK, stores
<1>5. CASE CheckReleased(r)
  BY <1>1, <1>5, ReqType DEF CheckReleased, TypeOK, stores
<1>6. CASE RemoveBytes(r)
  BY <1>1, <1>6, ReqType DEF RemoveBytes, TypeOK, stores
<1>7. CASE NoMoreFiles(r)
  BY <1>1, <1>7, ReqType DEF NoMoreFiles, TypeOK, stores
<1>8. CASE DropDataset(r)
  BY <1>1, <1>8, ReqType DEF DropDataset, TypeOK, stores
<1>9. CASE LicenseMissing(r)
  BY <1>1, <1>9, ReqType DEF LicenseMissing, TypeOK, stores
<1> QED
  BY <1>2, <1>3, <1>4, <1>5, <1>6, <1>7, <1>8, <1>9 DEF FileDeletionStep

-----------------------------------------------------------------------------
\* What a handler leaves alone: the other handlers' local variables, what it was asked
\* for, and its history.
Frame(r) ==
    /\ \A q \in Requests : q # r => req'[q] = req[q]
    /\ req'[r].op = req[r].op /\ req'[r].pc # "idle"
    /\ req'[r].seen = req[r].seen
    /\ req'[r].present = req[r].present
    /\ req[r].revived \subseteq req'[r].revived
    /\ req[r].op \notin Deletions \cup {"PatchDataset"} => req'[r].file = req[r].file
    /\ req'[r].pc = "save" => req'[r].file \in files
    /\ req[r].op # "DeleteDataset" => req'[r].version = req[r].version
    /\ req[r].op # "Freeze" => req'[r].n = req[r].n
    /\ running' \subseteq running
    /\ overlapped' = overlapped

LEMMA FrameFileStep ==
  ASSUME TypeOK, NEW r \in Requests, FileStep(r) PROVE Frame(r)
<1> USE DEF Frame, At, Goto, Stop, Deletions, VersionDeletions, FileDeletions, TypeOK, Request
<1>1. CASE InsertFile(r)
  BY <1>1 DEF InsertFile
<1>2. CASE PutObject(r)
  BY <1>2 DEF PutObject
<1>3. CASE ReplaceFile(r)
  BY <1>3 DEF ReplaceFile
<1>4. CASE SaveFile(r)
  BY <1>4 DEF SaveFile
<1>5. CASE RemoveObject(r)
  BY <1>5 DEF RemoveObject
<1>6. CASE DeleteFileDoc(r)
  BY <1>6 DEF DeleteFileDoc
<1>7. CASE SaveDataset(r)
  BY <1>7 DEF SaveDataset
<1>8. CASE ListPatched(r)
  BY <1>8 DEF ListPatched
<1>9. CASE NextPatched(r)
  BY <1>9, NextPatchedTakes
<1>10. CASE NoMorePatched(r)
  BY <1>10 DEF NoMorePatched
<1> QED
  BY <1>1, <1>2, <1>3, <1>4, <1>5, <1>6, <1>7, <1>8, <1>9, <1>10 DEF FileStep

LEMMA FrameFreezeStep ==
  ASSUME TypeOK, NEW r \in Requests, FreezeStep(r) PROVE Frame(r)
<1> USE DEF Frame, At, Goto, Stop, Deletions, VersionDeletions, FileDeletions, TypeOK, Request
<1>1. CASE ReadLatest(r)
  BY <1>1 DEF ReadLatest
<1>2. CASE InsertVersion(r)
  BY <1>2 DEF InsertVersion
<1>3. CASE ListFiles(r)
  BY <1>3 DEF ListFiles
<1>4. CASE CopyFile(r)
  BY <1>4 DEF CopyFile
<1>5. CASE Authorize(r)
  BY <1>5 DEF Authorize
<1> QED
  BY <1>1, <1>2, <1>3, <1>4, <1>5 DEF FreezeStep

LEMMA FrameVersionDeletionStep ==
  ASSUME TypeOK, NEW r \in Requests, VersionDeletionStep(r) PROVE Frame(r)
<1> USE DEF Frame, At, Goto, Stop, Deletions, VersionDeletions, FileDeletions, TypeOK, Request
<1>1. CASE FindVersions(r)
  BY <1>1 DEF FindVersions
<1>2. CASE NextVersion(r)
  BY <1>2 DEF NextVersion
<1>3. CASE NoMoreVersions(r)
  BY <1>3 DEF NoMoreVersions
<1>4. CASE OpenFrozenCursor(r)
  BY <1>4 DEF OpenFrozenCursor
<1>5. CASE NextFrozenFile(r)
  BY <1>5, NextFrozenFileTakes DEF Takes
<1>6. CASE NoMoreFrozenFiles(r)
  BY <1>6 DEF NoMoreFrozenFiles
<1>7. CASE DeleteFrozenFile(r)
  BY <1>7 DEF DeleteFrozenFile
<1>8. CASE CheckFrozen(r)
  BY <1>8 DEF CheckFrozen
<1>9. CASE CheckLive(r)
  BY <1>9 DEF CheckLive
<1>10. CASE RemoveFrozenBytes(r)
  BY <1>10 DEF RemoveFrozenBytes
<1>11. CASE Deauthorize(r)
  BY <1>11 DEF Deauthorize
<1>12. CASE MarkDeleted(r)
  BY <1>12 DEF MarkDeleted
<1>13. CASE EraseVersion(r)
  BY <1>13 DEF EraseVersion
<1> QED
  BY <1>1, <1>2, <1>3, <1>4, <1>5, <1>6, <1>7, <1>8, <1>9, <1>10, <1>11, <1>12, <1>13 DEF VersionDeletionStep

LEMMA FrameFileDeletionStep ==
  ASSUME TypeOK, NEW r \in Requests, FileDeletionStep(r) PROVE Frame(r)
<1> USE DEF Frame, At, Goto, Stop, Deletions, VersionDeletions, FileDeletions, TypeOK, Request
<1>1. CASE OpenFileCursor(r)
  BY <1>1 DEF OpenFileCursor
<1>2. CASE NextFile(r)
  BY <1>2, NextFileTakes DEF Takes
<1>3. CASE DeleteFileEntry(r)
  BY <1>3 DEF DeleteFileEntry
<1>4. CASE CheckReleased(r)
  BY <1>4 DEF CheckReleased
<1>5. CASE RemoveBytes(r)
  BY <1>5 DEF RemoveBytes
<1>6. CASE NoMoreFiles(r)
  BY <1>6 DEF NoMoreFiles
<1>7. CASE DropDataset(r)
  BY <1>7 DEF DropDataset
<1>8. CASE LicenseMissing(r)
  BY <1>8 DEF LicenseMissing
<1> QED
  BY <1>1, <1>2, <1>3, <1>4, <1>5, <1>6, <1>7, <1>8 DEF FileDeletionStep

LEMMA FrameStep == ASSUME TypeOK, NEW r \in Requests, Step(r) PROVE Frame(r)
  BY FrameFileStep, FrameFreezeStep, FrameVersionDeletionStep, FrameFileDeletionStep DEF Step

LEMMA ArgumentsArrive ==
  ASSUME TypeOK, ArgumentsOK, NEW r \in Requests, Start(r) PROVE ArgumentsOK'
<1> USE DEF Arrive, TypeOK, ArgumentsOK
<1>1. CASE Upload(r) \/ Update(r) \/ PatchFile(r) \/ DeleteFile(r)
  BY <1>1 DEF Upload, Update, PatchFile, DeleteFile
<1>2. CASE DeleteFolder(r) \/ Freeze(r) \/ DeleteDataset(r) \/ PatchDataset(r)
  BY <1>2 DEF DeleteFolder, Freeze, DeleteDataset, PatchDataset
<1>3. CASE DeleteVersion(r)
  BY <1>3 DEF DeleteVersion, Recorded
<1> QED
  BY <1>1, <1>2, <1>3 DEF Start

TypeInv == TypeOK /\ ArgumentsOK

LEMMA TypeNext == TypeInv /\ [Next]_vars => TypeInv'
<1> SUFFICES ASSUME TypeInv, [Next]_vars PROVE TypeInv'
  OBVIOUS
<1>1. ASSUME NEW r \in Requests, Start(r) PROVE TypeInv'
  BY <1>1, TypeStart, ArgumentsArrive DEF TypeInv
<1>2. ASSUME NEW r \in Requests, Step(r) PROVE TypeInv'
  <2>1. TypeOK'
    BY <1>2, TypeFile, TypeFreeze, TypeVersionDeletion, TypeFileDeletion DEF Step, TypeInv
  <2>2. ArgumentsOK'
    <3>1. Frame(r)
      BY <1>2, FrameStep DEF TypeInv
    <3>2. files \subseteq Files
      BY DEF TypeInv, TypeOK
    <3>3. ASSUME NEW q \in Requests, q # r
          PROVE  /\ req'[q].op \in {"Upload", "Update", "PatchFile", "DeleteFile"} => req'[q].file \in Files
                 /\ req'[q].pc = "save" => req'[q].file \in Files
                 /\ req'[q].op = "DeleteVersion" => req'[q].version \in Versions
      BY <3>1, <3>3 DEF Frame, ArgumentsOK, TypeInv
    <3>4. /\ req'[r].op \in {"Upload", "Update", "PatchFile", "DeleteFile"} => req'[r].file \in Files
          /\ req'[r].pc = "save" => req'[r].file \in Files
          /\ req'[r].op = "DeleteVersion" => req'[r].version \in Versions
      BY <3>1, <3>2 DEF Frame, ArgumentsOK, TypeInv, Deletions, VersionDeletions, FileDeletions
    <3> QED
      BY <3>3, <3>4 DEF ArgumentsOK
  <2> QED
    BY <2>1, <2>2 DEF TypeInv
<1>3. ASSUME NEW r \in Requests, Crash(r) PROVE TypeInv'
  BY <1>3 DEF Crash, TypeInv, TypeOK, ArgumentsOK, stores
<1>4. CASE UNCHANGED vars
  BY <1>4 DEF vars, TypeInv, TypeOK, ArgumentsOK
<1> QED
  BY <1>1, <1>2, <1>3, <1>4 DEF Next

LEMMA TypeInvariant == Spec => []TypeInv
<1>1. Init => TypeInv
  BY TypeInit DEF Init, TypeInv, ArgumentsOK, NoRequest
<1> QED
  BY <1>1, TypeNext, PTL DEF Spec

\* A request that has not arrived asks for nothing and has saved nothing.
IdleOK == \A r \in Requests : req[r].pc = "idle" => req[r].op = "none" /\ req[r].revived = {}

LEMMA IdleInvariant == Spec => []IdleOK
<1>1. Init => IdleOK
  BY DEF Init, IdleOK, NoRequest
<1>2. TypeInv /\ IdleOK /\ [Next]_vars => IdleOK'
  <2> SUFFICES ASSUME TypeInv, IdleOK, [Next]_vars PROVE IdleOK'
    OBVIOUS
  <2>1. ASSUME NEW r \in Requests, Start(r) PROVE IdleOK'
    BY <2>1 DEF Start, Upload, Update, PatchFile, PatchDataset, DeleteFile, DeleteFolder,
                Freeze, DeleteVersion, DeleteDataset, Arrive, TypeInv, TypeOK, IdleOK
  <2>2. ASSUME NEW r \in Requests, Step(r) PROVE IdleOK'
    BY <2>2, FrameStep DEF Frame, TypeInv, IdleOK
  <2>3. ASSUME NEW r \in Requests, Crash(r) PROVE IdleOK'
    BY <2>3 DEF Crash, IdleOK
  <2>4. CASE UNCHANGED vars
    BY <2>4 DEF vars, IdleOK
  <2> QED
    BY <2>1, <2>2, <2>3, <2>4 DEF Next
<1> QED
  BY <1>1, <1>2, TypeInvariant, PTL DEF Spec

\* Every state has the types the handlers assume; in particular a released copy always
\* names a version of the dataset and a file.
THEOREM TypeCorrect == Spec => []TypeOK
<1>1. TypeInv => TypeOK
  BY DEF TypeInv
<1> QED
  BY <1>1, TypeInvariant, PTL

=============================================================================
