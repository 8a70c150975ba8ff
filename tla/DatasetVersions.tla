-------------------------- MODULE DatasetVersions --------------------------
(***************************************************************************)
(* The life of one Clowder dataset: its files, the released ("frozen")     *)
(* versions made of it, and the bytes in the object store that the live    *)
(* files and their released copies share.                                  *)
(*                                                                         *)
(* The API runs in many uvicorn workers over MongoDB and Minio without     *)
(* transactions, so a request handler is a sequence of store operations    *)
(* that interleave with those of every other request.  One action is one   *)
(* store operation; the label in pc names the operation a request is about *)
(* to make.  A request may stop between any two of them (Crash).           *)
(***************************************************************************)
EXTENDS Naturals, FiniteSets

CONSTANTS
    Files,      \* ids of FileDB documents
    InitFiles,  \* the files the dataset starts with, uploaded
    FolderOf,   \* the files that sit in the folder a DeleteFolder removes, which has no subfolders
    Requests,   \* requests; each is served once
    Ops,        \* the operations the requests may ask for
    MaxServed,  \* bound: requests served at the same time
    NoFile,     \* no file and no version, in the local variables of a handler
    NoVersion

AllOps == {"Upload", "Update", "PatchFile", "PatchDataset", "DeleteFile", "DeleteFolder",
           "Freeze", "DeleteVersion", "DeleteDataset"}

VersionDeletions == {"DeleteVersion", "DeleteDataset"}
FileDeletions == {"DeleteFolder", "DeleteDataset"}
Deletions == VersionDeletions \cup FileDeletions

ASSUME FilesAssumption == InitFiles \subseteq Files /\ FolderOf \subseteq Files
ASSUME NoneAssumption == NoFile \notin Files /\ NoVersion \notin Requests
ASSUME OpsAssumption == Ops \subseteq AllOps
ASSUME BoundAssumption == MaxServed \in Nat

VARIABLES
    dataset,      \* the DatasetDB document exists
    files,        \* FileDB documents
    num,          \* DatasetFreezeDB documents: their frozen_version_num, 0 if there is none
    deleted,      \* DatasetFreezeDB documents with deleted = True
    frozenFiles,  \* FileFreezeDB documents: <<dataset_id, origin_id>>
    owned,        \* released versions that have their OWNER authorization
    bytes,        \* Minio objects, named by the file id
    req,          \* what each request asks for and its local variables
    running,      \* the requests being served
    overlapped    \* history: a release and a deletion were once served at the same time

vars == <<dataset, files, num, deleted, frozenFiles, owned, bytes, req, running, overlapped>>
stores == <<dataset, files, num, deleted, frozenFiles, owned, bytes>>

\* A released version is made by exactly one Freeze request, which names it.
Versions == Requests

Labels == {"idle", "insert", "put", "replace", "saveDataset", "patchList", "patchGet",
           "save", "remove", "delete",
           "latest", "insertDoc", "list", "copy", "authorize",
           "docs", "nextDoc", "frozenCursor", "frozenGet", "frozenDelete",
           "checkFrozen", "checkLive", "frozenRemove", "deauthorize", "mark",
           "fileCursor", "fileGet", "fileDelete", "fileCheck", "fileRemove",
           "dropDataset", "done", "failed"}

\* The local variables of a handler.  Fields an operation does not use keep the
\* value they have here; seen, present and revived are read by the properties only.
Request ==
    [op      : AllOps \cup {"none"},
     pc      : Labels,
     file    : Files \cup {NoFile},
     version : Versions \cup {NoVersion},
     n       : Nat,                \* frozen_version_num read or to be written
     docs    : SUBSET Versions,    \* what is left of the cursor over DatasetFreezeDB
     todo    : SUBSET Files,       \* what is left of the cursor over FileDB or FileFreezeDB
     seen    : SUBSET Nat,         \* history: the version numbers in use when the request arrived
     present : SUBSET Files,       \* history: the files of the dataset when the request arrived
     revived : SUBSET Files]       \* history: the files it saved that were gone

NoRequest ==
    [op |-> "none", pc |-> "idle", file |-> NoFile, version |-> NoVersion,
     n |-> 0, docs |-> {}, todo |-> {}, seen |-> {}, present |-> {},
     revived |-> {}]

-----------------------------------------------------------------------------
\* The DatasetFreezeDB documents of the dataset, and their numbers
Recorded == {v \in Versions : num[v] # 0}
Numbers == {num[v] : v \in Recorded}

\* find(origin_id == dataset).sort(frozen_version_num, DESCENDING).first_or_none()
\* gives the document numbered m; m = 0: it gives None
IsLatest(m) == m \in Numbers \cup {0} /\ \A k \in Numbers : k <= m

CopiesOf(v) == {f \in Files : <<v, f>> \in frozenFiles}
FrozenSomewhere(f) == \E v \in Versions : <<v, f>> \in frozenFiles

At(r, ops, label) == r \in running /\ req[r].op \in ops /\ req[r].pc = label
Goto(r, label) == /\ req' = [req EXCEPT ![r].pc = label]
                  /\ UNCHANGED <<running, overlapped>>
Stop(r, label) == /\ req' = [req EXCEPT ![r].pc = label]
                  /\ running' = running \ {r}
                  /\ UNCHANGED overlapped

\* A request arrives: the first read of its handler succeeds and fixes its arguments.
Arrive(r, op, label, f, v) ==
    /\ op \in Ops
    /\ req[r].pc = "idle"
    /\ Cardinality(running) < MaxServed
    /\ req' = [req EXCEPT ![r] =
           [op |-> op, pc |-> label, file |-> f, version |-> v, n |-> 0, docs |-> {},
            todo |-> {}, seen |-> Numbers, present |-> files, revived |-> {}]]
    /\ running' = running \cup {r}
    /\ overlapped' = (overlapped \/ \E q \in running :
                        \/ op = "Freeze" /\ req[q].op \in Deletions
                        \/ op \in Deletions /\ req[q].op = "Freeze")
    /\ UNCHANGED stores

-----------------------------------------------------------------------------
(* save_file and add_file_entry: insert the document, store the bytes,     *)
(* then replace the document, which raises when it is gone.                *)
Upload(r) == \E f \in Files \ InitFiles :
    /\ dataset
    /\ \A q \in Requests : req[q].op = "Upload" => req[q].file # f
    /\ Arrive(r, "Upload", "insert", f, NoVersion)

InsertFile(r) ==
    /\ At(r, {"Upload"}, "insert")
    /\ files' = files \cup {req[r].file}
    /\ Goto(r, "put")
    /\ UNCHANGED <<dataset, num, deleted, frozenFiles, owned, bytes>>

\* update_file: read the document, store the new bytes, replace the document
Update(r) == \E f \in files : Arrive(r, "Update", "put", f, NoVersion)

PutObject(r) ==
    /\ At(r, {"Upload", "Update"}, "put")
    /\ bytes' = bytes \cup {req[r].file}
    /\ Goto(r, "replace")
    /\ UNCHANGED <<dataset, files, num, deleted, frozenFiles, owned>>

ReplaceFile(r) ==
    /\ At(r, {"Upload", "Update"}, "replace")
    /\ Stop(r, IF req[r].file \in files THEN "done" ELSE "failed")
    /\ UNCHANGED stores

\* add_file_thumbnail: read the document, change it and save() it; save inserts the
\* document again when it is gone
PatchFile(r) == \E f \in files : Arrive(r, "PatchFile", "save", f, NoVersion)

\* patch_dataset: save() the dataset, which inserts it again when it is gone; with a new
\* status, read and save() each file of the dataset, too
PatchDataset(r) ==
    /\ dataset
    /\ Arrive(r, "PatchDataset", "saveDataset", NoFile, NoVersion)

SaveDataset(r) ==
    /\ At(r, {"PatchDataset"}, "saveDataset")
    /\ dataset' = TRUE
    /\ Goto(r, "patchList") \/ Stop(r, "done")
    /\ UNCHANGED <<files, num, deleted, frozenFiles, owned, bytes>>

ListPatched(r) ==
    /\ At(r, {"PatchDataset"}, "patchList")
    /\ req' = [req EXCEPT ![r] = [@ EXCEPT !.pc = "patchGet", !.todo = files]]
    /\ UNCHANGED <<stores, running, overlapped>>

NextPatched(r) ==
    /\ At(r, {"PatchDataset"}, "patchGet")
    /\ \E f \in req[r].todo :
         req' = [req EXCEPT ![r] = [@ EXCEPT !.pc = IF f \in files THEN "save" ELSE "patchGet",
                                             !.file = f, !.todo = req[r].todo \ {f}]]
    /\ UNCHANGED <<stores, running, overlapped>>

NoMorePatched(r) ==
    /\ At(r, {"PatchDataset"}, "patchGet")
    /\ req[r].todo = {}
    /\ Stop(r, "done")
    /\ UNCHANGED stores

SaveFile(r) ==
    /\ At(r, {"PatchFile", "PatchDataset"}, "save")
    /\ files' = files \cup {req[r].file}
    /\ req' = [req EXCEPT ![r] = [@ EXCEPT
           !.pc = IF req[r].op = "PatchFile" THEN "done" ELSE "patchGet",
           !.revived = req[r].revived \cup ({req[r].file} \ files)]]
    /\ running' = IF req[r].op = "PatchFile" THEN running \ {r} ELSE running
    /\ UNCHANGED <<dataset, num, deleted, frozenFiles, owned, bytes, overlapped>>

\* DELETE /files/{file_id}: remove the object, whoever refers to it, then the document
DeleteFile(r) == \E f \in files : Arrive(r, "DeleteFile", "remove", f, NoVersion)

RemoveObject(r) ==
    /\ At(r, {"DeleteFile"}, "remove")
    /\ bytes' = bytes \ {req[r].file}
    /\ Goto(r, "delete")
    /\ UNCHANGED <<dataset, files, num, deleted, frozenFiles, owned>>

DeleteFileDoc(r) ==
    /\ At(r, {"DeleteFile"}, "delete")
    /\ files' = files \ {req[r].file}
    /\ Stop(r, "done")
    /\ UNCHANGED <<dataset, num, deleted, frozenFiles, owned, bytes>>

-----------------------------------------------------------------------------
(* freeze_dataset: number the version, insert its document, copy the file  *)
(* documents one by one, and only then give the version its owner.         *)
Freeze(r) ==
    /\ dataset
    /\ Arrive(r, "Freeze", "latest", NoFile, NoVersion)

\* Seeded fault: a number is kept free for every request being served.
ReadLatestAndReserve(r) ==
    /\ At(r, {"Freeze"}, "latest")
    /\ \E m \in Numbers \cup {0} :
         /\ IsLatest(m)
         /\ req' = [req EXCEPT ![r] = [@ EXCEPT !.pc = "insertDoc", !.n = m + Cardinality(running)]]
    /\ UNCHANGED <<stores, running, overlapped>>

ReadLatest(r) ==
    /\ At(r, {"Freeze"}, "latest")
    /\ \E m \in Numbers \cup {0} :
         /\ IsLatest(m)
         /\ req' = [req EXCEPT ![r] = [@ EXCEPT !.pc = "insertDoc", !.n = m + 1]]
    /\ UNCHANGED <<stores, running, overlapped>>

InsertVersion(r) ==
    /\ At(r, {"Freeze"}, "insertDoc")
    /\ num' = [num EXCEPT ![r] = req[r].n]
    /\ Goto(r, "list")
    /\ UNCHANGED <<dataset, files, deleted, frozenFiles, owned, bytes>>

\* Seeded fault: only the files at the root of the dataset are listed.
ListRootFiles(r) ==
    /\ At(r, {"Freeze"}, "list")
    /\ req' = [req EXCEPT ![r] = [@ EXCEPT !.pc = "copy", !.todo = files \ FolderOf]]
    /\ UNCHANGED <<stores, running, overlapped>>

\* _freeze_files_folders_w_metadata_vis reads the whole list of files first
ListFiles(r) ==
    /\ At(r, {"Freeze"}, "list")
    /\ req' = [req EXCEPT ![r] = [@ EXCEPT !.pc = "copy", !.todo = files]]
    /\ UNCHANGED <<stores, running, overlapped>>

\* Seeded fault: the copy is stored with its two references swapped.
CopySwapped(r) ==
    /\ At(r, {"Freeze"}, "copy")
    /\ \E f \in req[r].todo :
         /\ frozenFiles' = frozenFiles \cup {<<f, r>>}
         /\ req' = [req EXCEPT ![r].todo = @ \ {f}]
    /\ UNCHANGED <<dataset, files, num, deleted, owned, bytes, running, overlapped>>

CopyFile(r) ==
    /\ At(r, {"Freeze"}, "copy")
    /\ \E f \in req[r].todo :
         /\ frozenFiles' = frozenFiles \cup {<<r, f>>}
         /\ req' = [req EXCEPT ![r].todo = @ \ {f}]
    /\ UNCHANGED <<dataset, files, num, deleted, owned, bytes, running, overlapped>>

\* Seeded fault: the release saves its own document once more when it is complete.
AuthorizeAndSave(r) ==
    /\ At(r, {"Freeze"}, "copy")
    /\ req[r].todo = {}
    /\ owned' = owned \cup {r}
    /\ num' = [num EXCEPT ![r] = req[r].n]
    /\ deleted' = deleted \ {r}
    /\ Stop(r, "done")
    /\ UNCHANGED <<dataset, files, frozenFiles, bytes>>

Authorize(r) ==
    /\ At(r, {"Freeze"}, "copy")
    /\ req[r].todo = {}
    /\ owned' = owned \cup {r}
    /\ Stop(r, "done")
    /\ UNCHANGED <<dataset, files, num, deleted, frozenFiles, bytes>>

-----------------------------------------------------------------------------
(* _delete_frozen_dataset, called by the two operations below for one      *)
(* version: its file copies, then its authorizations, then its document.   *)
DeleteVersion(r) == \E v \in Recorded :
    Arrive(r, "DeleteVersion", "frozenCursor", NoFile, v)

DeleteDataset(r) ==
    /\ dataset
    /\ Arrive(r, "DeleteDataset", "docs", NoFile, NoVersion)

FindVersions(r) ==
    /\ At(r, {"DeleteDataset"}, "docs")
    /\ req' = [req EXCEPT ![r] = [@ EXCEPT !.pc = "nextDoc", !.docs = Recorded]]
    /\ UNCHANGED <<stores, running, overlapped>>

NextVersion(r) ==
    /\ At(r, {"DeleteDataset"}, "nextDoc")
    /\ \E v \in req[r].docs :
         req' = [req EXCEPT ![r] = [@ EXCEPT !.pc = "frozenCursor", !.version = v, !.docs = req[r].docs \ {v}]]
    /\ UNCHANGED <<stores, running, overlapped>>

NoMoreVersions(r) ==
    /\ At(r, {"DeleteDataset"}, "nextDoc")
    /\ req[r].docs = {}
    /\ Goto(r, "fileCursor")
    /\ UNCHANGED stores

OpenFrozenCursor(r) ==
    /\ At(r, VersionDeletions, "frozenCursor")
    /\ req' = [req EXCEPT ![r] = [@ EXCEPT !.pc = "frozenGet", !.todo = CopiesOf(req[r].version)]]
    /\ UNCHANGED <<stores, running, overlapped>>

\* remove_frozen_file_entry reads the copy again and raises 404 when it is gone
NextFrozenFile(r) ==
    /\ At(r, VersionDeletions, "frozenGet")
    /\ \E f \in req[r].todo :
         IF <<req[r].version, f>> \in frozenFiles
         THEN /\ req' = [req EXCEPT ![r] = [@ EXCEPT !.pc = "frozenDelete", !.file = f, !.todo = req[r].todo \ {f}]]
              /\ UNCHANGED <<running, overlapped>>
         ELSE Stop(r, "failed")
    /\ UNCHANGED stores

\* Seeded fault: the authorizations of the version are left behind.
NoMoreFrozenFilesMark(r) ==
    /\ At(r, VersionDeletions, "frozenGet")
    /\ req[r].todo = {}
    /\ Goto(r, "mark")
    /\ UNCHANGED stores

NoMoreFrozenFiles(r) ==
    /\ At(r, VersionDeletions, "frozenGet")
    /\ req[r].todo = {}
    /\ Goto(r, "deauthorize")
    /\ UNCHANGED stores

DeleteFrozenFile(r) ==
    /\ At(r, VersionDeletions, "frozenDelete")
    /\ frozenFiles' = frozenFiles \ {<<req[r].version, req[r].file>>}
    /\ Goto(r, "checkFrozen")
    /\ UNCHANGED <<dataset, files, num, deleted, owned, bytes>>

\* Seeded fault: any version of the dataset counts, not any copy of the file.
CheckAnyVersion(r) ==
    /\ At(r, VersionDeletions, "checkFrozen")
    /\ Goto(r, IF Recorded # {} THEN "frozenGet" ELSE "checkLive")
    /\ UNCHANGED stores

CheckFrozen(r) ==
    /\ At(r, VersionDeletions, "checkFrozen")
    /\ Goto(r, IF FrozenSomewhere(req[r].file) THEN "frozenGet" ELSE "checkLive")
    /\ UNCHANGED stores

\* Seeded fault: the file itself is not looked up.
CheckLiveSkipped(r) ==
    /\ At(r, VersionDeletions, "checkLive")
    /\ Goto(r, "frozenRemove")
    /\ UNCHANGED stores

CheckLive(r) ==
    /\ At(r, VersionDeletions, "checkLive")
    /\ Goto(r, IF req[r].file \in files THEN "frozenGet" ELSE "frozenRemove")
    /\ UNCHANGED stores

RemoveFrozenBytes(r) ==
    /\ At(r, VersionDeletions, "frozenRemove")
    /\ bytes' = bytes \ {req[r].file}
    /\ Goto(r, "frozenGet")
    /\ UNCHANGED <<dataset, files, num, deleted, frozenFiles, owned>>

Deauthorize(r) ==
    /\ At(r, VersionDeletions, "deauthorize")
    /\ owned' = owned \ {req[r].version}
    /\ Goto(r, "mark")
    /\ UNCHANGED <<dataset, files, num, deleted, frozenFiles, bytes>>

\* Seeded fault: the document is deleted, not marked.
MarkErased(r) ==
    /\ At(r, {"DeleteVersion"}, "mark")
    /\ num' = [num EXCEPT ![req[r].version] = 0]
    /\ Stop(r, "done")
    /\ UNCHANGED <<dataset, files, deleted, frozenFiles, owned, bytes>>

\* hard_delete = False: save() the document that was read when the request arrived;
\* save inserts it again when another request has deleted it
MarkDeleted(r) ==
    /\ At(r, {"DeleteVersion"}, "mark")
    /\ LET v == req[r].version
       IN /\ num' = [num EXCEPT ![v] = req[v].n]
          /\ deleted' = deleted \cup {v}
    /\ Stop(r, "done")
    /\ UNCHANGED <<dataset, files, frozenFiles, owned, bytes>>

\* hard_delete = True
EraseVersion(r) ==
    /\ At(r, {"DeleteDataset"}, "mark")
    /\ num' = [num EXCEPT ![req[r].version] = 0]
    /\ deleted' = deleted \ {req[r].version}
    /\ Goto(r, "nextDoc")
    /\ UNCHANGED <<dataset, files, frozenFiles, owned, bytes>>

-----------------------------------------------------------------------------
(* delete_folder, of a folder without subfolders, and the second half of   *)
(* delete_dataset: remove_file_entry for each file, the dataset last.      *)
(* (FolderTree has the folders.)                                           *)
DeleteFolder(r) ==
    /\ dataset
    /\ Arrive(r, "DeleteFolder", "fileCursor", NoFile, NoVersion)

OpenFileCursor(r) ==
    /\ At(r, FileDeletions, "fileCursor")
    /\ req' = [req EXCEPT ![r] = [@ EXCEPT
           !.pc = "fileGet",
           !.todo = IF req[r].op = "DeleteFolder" THEN files \cap FolderOf ELSE files]]
    /\ UNCHANGED <<stores, running, overlapped>>

\* remove_file_entry reads the file again and raises 404 when it is gone
NextFile(r) ==
    /\ At(r, FileDeletions, "fileGet")
    /\ \E f \in req[r].todo :
         IF f \in files
         THEN /\ req' = [req EXCEPT ![r] = [@ EXCEPT !.pc = "fileDelete", !.file = f, !.todo = req[r].todo \ {f}]]
              /\ UNCHANGED <<running, overlapped>>
         ELSE Stop(r, "failed")
    /\ UNCHANGED stores

DeleteFileEntry(r) ==
    /\ At(r, FileDeletions, "fileDelete")
    /\ files' = files \ {req[r].file}
    /\ Goto(r, "fileCheck")
    /\ UNCHANGED <<dataset, num, deleted, frozenFiles, owned, bytes>>

\* Seeded fault: the released copies are not looked up.
CheckReleasedSkipped(r) ==
    /\ At(r, FileDeletions, "fileCheck")
    /\ Goto(r, "fileRemove")
    /\ UNCHANGED stores

CheckReleased(r) ==
    /\ At(r, FileDeletions, "fileCheck")
    /\ Goto(r, IF FrozenSomewhere(req[r].file) THEN "fileGet" ELSE "fileRemove")
    /\ UNCHANGED stores

RemoveBytes(r) ==
    /\ At(r, FileDeletions, "fileRemove")
    /\ bytes' = bytes \ {req[r].file}
    /\ Goto(r, "fileGet")
    /\ UNCHANGED <<dataset, files, num, deleted, frozenFiles, owned>>

NoMoreFiles(r) ==
    /\ At(r, FileDeletions, "fileGet")
    /\ req[r].todo = {}
    /\ IF req[r].op = "DeleteFolder" THEN Stop(r, "done") ELSE Goto(r, "dropDataset")
    /\ UNCHANGED stores

DropDataset(r) ==
    /\ At(r, {"DeleteDataset"}, "dropDataset")
    /\ dataset' = FALSE
    /\ Stop(r, "done")
    /\ UNCHANGED <<files, num, deleted, frozenFiles, owned, bytes>>

\* delete_license raises 404 when the dataset's own license is no longer there
LicenseMissing(r) ==
    /\ At(r, {"DeleteDataset"}, "dropDataset")
    /\ Stop(r, "failed")
    /\ UNCHANGED stores

-----------------------------------------------------------------------------
\* The worker dies or a store call raises: what was stored stays.
Crash(r) ==
    /\ r \in running
    /\ running' = running \ {r}
    /\ UNCHANGED <<stores, req, overlapped>>

Start(r) ==
    \/ Upload(r) \/ Update(r) \/ PatchFile(r) \/ PatchDataset(r) \/ DeleteFile(r)
    \/ DeleteFolder(r) \/ Freeze(r) \/ DeleteVersion(r) \/ DeleteDataset(r)

FileStep(r) ==
    \/ InsertFile(r) \/ PutObject(r) \/ ReplaceFile(r) \/ SaveFile(r)
    \/ SaveDataset(r) \/ ListPatched(r) \/ NextPatched(r) \/ NoMorePatched(r)
    \/ RemoveObject(r) \/ DeleteFileDoc(r)

FreezeStep(r) ==
    \/ ReadLatest(r) \/ InsertVersion(r) \/ ListFiles(r) \/ CopyFile(r) \/ Authorize(r)

VersionDeletionStep(r) ==
    \/ FindVersions(r) \/ NextVersion(r) \/ NoMoreVersions(r)
    \/ OpenFrozenCursor(r) \/ NextFrozenFile(r) \/ NoMoreFrozenFiles(r)
    \/ DeleteFrozenFile(r) \/ CheckFrozen(r) \/ CheckLive(r) \/ RemoveFrozenBytes(r)
    \/ Deauthorize(r) \/ MarkDeleted(r) \/ EraseVersion(r)

FileDeletionStep(r) ==
    \/ OpenFileCursor(r) \/ NextFile(r) \/ DeleteFileEntry(r) \/ CheckReleased(r)
    \/ RemoveBytes(r) \/ NoMoreFiles(r) \/ DropDataset(r) \/ LicenseMissing(r)

Step(r) == FileStep(r) \/ FreezeStep(r) \/ VersionDeletionStep(r) \/ FileDeletionStep(r)

Init ==
    /\ dataset = TRUE
    /\ files = InitFiles
    /\ num = [v \in Versions |-> 0]
    /\ deleted = {}
    /\ frozenFiles = {}
    /\ owned = {}
    /\ bytes = InitFiles
    /\ req = [r \in Requests |-> NoRequest]
    /\ running = {}
    /\ overlapped = FALSE

Next == \E r \in Requests : Start(r) \/ Step(r) \/ Crash(r)

Spec == Init /\ [][Next]_vars

-----------------------------------------------------------------------------
TypeOK ==
    /\ dataset \in BOOLEAN
    /\ files \subseteq Files
    /\ num \in [Versions -> Nat]
    /\ deleted \subseteq Versions
    /\ frozenFiles \subseteq Versions \X Files
    /\ owned \subseteq Versions
    /\ bytes \subseteq Files
    /\ req \in [Requests -> Request]
    /\ running \subseteq Requests
    /\ overlapped \in BOOLEAN

\* Somebody asked for this operation on file f.
Asked(ops, f) == \E r \in Requests : req[r].op \in ops /\ req[r].file = f

\* A save() brought f back after it was deleted.
Revived(f) == \E r \in Requests : f \in req[r].revived

\* The bytes of f have not been stored yet, or the upload died before it stored them.
NotStored(f) == \E r \in Requests :
    req[r].op = "Upload" /\ req[r].file = f /\ req[r].pc \in {"insert", "put"}

\* remove_file_entry, _delete_file and _delete_frozen_file never take the bytes away
\* from a file that is still in the dataset, however many deletions, releases and
\* crashes interleave.  Only DELETE /files/{id}, which removes the object first, and a
\* save() that brings a deleted document back can leave a file without bytes.
LiveFileHasBytes == \A f \in files :
    f \in bytes \/ NotStored(f) \/ Asked({"DeleteFile"}, f) \/ Revived(f)

\* The copy a released version keeps of a file has its bytes, also after the file, its
\* folder or another version was deleted ("raw bytes only if not used in other released
\* versions or the latest dataset"), as long as no release ran at the same time as a
\* deletion and nobody used DELETE /files/{id}.
ReleasedFileHasBytes == overlapped \/ \A v \in Versions : \A f \in CopiesOf(v) :
    f \in bytes \/ NotStored(f) \/ Asked({"DeleteFile"}, f) \/ Revived(f)

\* Bytes nobody refers to are on their way out: a handler that deleted the last
\* reference still has to check or remove them, unless it died on the way or an upload
\* stored them after the file was gone.
NoUnreferencedBytes == \A f \in bytes :
    \/ f \in files
    \/ FrozenSomewhere(f)
    \/ Asked({"Upload", "Update", "DeleteFile"}, f)
    \/ \E r \in Requests : /\ req[r].file = f
                           /\ req[r].pc \in {"checkFrozen", "checkLive", "frozenRemove",
                                             "fileCheck", "fileRemove"}

\* A version released after another one was recorded gets a higher number, also when the
\* earlier one has been deleted since: a number, and what was cited under it, is never
\* given to later content.  (Deleting the whole dataset forgets its versions.)
LaterReleaseHigherNumber ==
    \/ \E r \in Requests : req[r].op = "DeleteDataset"
    \/ \A v \in Recorded : \A k \in req[v].seen : num[v] > k

\* The version numbers of a dataset are 1, 2, .. without a gap, whatever was deleted and
\* whichever releases failed half-way.
NumbersWithoutGap ==
    \/ \E r \in Requests : req[r].op = "DeleteDataset"
    \/ \A v \in Recorded : 1 .. num[v] \subseteq Numbers

\* A release that succeeded holds a copy of every file that was in the dataset all the
\* time it took, until somebody deletes that version.
ReleaseIsComplete == \A r \in Requests :
    (req[r].op = "Freeze" /\ req[r].pc = "done") =>
        \/ \A f \in req[r].present \cap files : f \in CopiesOf(r) \/ Revived(f)
        \/ \E q \in Requests : \/ req[q].op = "DeleteDataset"
                               \/ req[q].op = "DeleteVersion" /\ req[q].version = r

\* A version has its OWNER authorization from the end of its release until it is deleted,
\* whatever dies: a deleted or erased version never keeps one (unless its release was still
\* under way), and a released one is without it only where a deletion took it away and is
\* about to mark the version, or died there.
OwnersFollowReleases == \A v \in Versions :
    /\ v \in owned => overlapped \/ v \in Recorded \ deleted
    /\ (v \in Recorded \ deleted /\ req[v].pc = "done") =>
         \/ v \in owned
         \/ \E q \in Requests : req[q].version = v /\ req[q].pc = "mark"

\* What the documentation promises and the handlers do not keep.

\* "Ensure Data Integrity": the files of a version that was released and is not deleted
\* can be read.
ReleasedVersionReadable == \A r \in Recorded \ deleted :
    req[r].pc = "done" => CopiesOf(r) \subseteq bytes

\* "frozen_version_num: incremental integer indicating the version number": no two
\* released versions have the same one.
VersionNumbersDistinct == \A v, w \in Recorded : num[v] = num[w] => v = w

\* The detailed design keeps the promise of the version list (module VersionList).
Numbered(r) == req[r].op = "Freeze" /\ req[r].pc \in {"list", "copy", "done"}
VersionNumberOf(r) == IF Numbered(r) THEN req[r].n ELSE 0
VersionState(r) ==
    IF num[r] = 0 THEN "absent" ELSE IF r \in deleted THEN "deleted" ELSE "released"

Versioning == INSTANCE VersionList WITH
    Ids <- Requests,
    number <- [r \in Requests |-> VersionNumberOf(r)],
    state <- [r \in Requests |-> VersionState(r)]
KeepsVersionList == Versioning!Spec

=============================================================================
