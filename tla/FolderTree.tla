----------------------------- MODULE FolderTree -----------------------------
(***************************************************************************)
(* The folders of one Clowder dataset: a tree in which every folder names  *)
(* its parent and every file its folder, kept by handlers that add, move   *)
(* and rename folders, upload files and delete a folder with all it holds. *)
(*                                                                         *)
(* As in DatasetVersions an action is one store operation and the label in *)
(* pc is the operation a request is about to make.  The recursion of       *)
(* delete_folder is a stack of the folders it is in, each with the rest of *)
(* the cursor over its subfolders.                                         *)
(***************************************************************************)
EXTENDS Naturals, Sequences, FiniteSets, TLC, Functions

CONSTANTS
    Folders,    \* ids of FolderDB documents
    Root,       \* no folder: where the outermost folders and files are
    Files,      \* ids of FileDB documents
    InitParent, \* the folders the dataset starts with, each with its parent
    InitFolder, \* the files the dataset starts with, each with its folder
    Requests,   \* requests; each is served once
    Ops,        \* the operations each request may ask for
    MaxDepth,   \* the nesting at which Python's recursion limit stops delete_folder
    NoFolder,   \* no folder and no file, in the local variables of a handler
    NoFile

AllOps == {"AddFolder", "PatchFolder", "Upload", "DeleteFolder"}

ASSUME TreeAssumption ==
    /\ DOMAIN InitParent \subseteq Folders /\ DOMAIN InitFolder \subseteq Files
    /\ \A f \in DOMAIN InitParent : InitParent[f] \in DOMAIN InitParent \cup {Root}
    /\ \A x \in DOMAIN InitFolder : InitFolder[x] \in DOMAIN InitParent \cup {Root}
ASSUME NoneAssumption == {Root, NoFolder} \cap Folders = {} /\ NoFile \notin Files
ASSUME OpsAssumption == Ops \in [Requests -> SUBSET AllOps]
ASSUME DepthAssumption == MaxDepth \in Nat \ {0}

VARIABLES
    parentOf,   \* FolderDB documents: the parent_folder of each
    folderOf,   \* FileDB documents: the folder_id of each
    req,        \* what each request asks for and its local variables
    running     \* the requests being served

vars == <<parentOf, folderOf, req, running>>
stores == <<parentOf, folderOf>>

Labels == {"idle", "insertFolder", "checkParent", "saveFolder", "insertFile",
           "fileCursor", "fileGet", "fileDelete", "findChild", "childCursor", "nextChild",
           "dropFolder", "done", "failed"}

\* One call of the recursion: the folder it deletes, the rest of its cursor over subfolders
Frame == [folder : Folders, left : SUBSET Folders]

\* The local variables of a handler; missed and below are read by the properties only.
Request ==
    [op     : AllOps \cup {"none"},
     pc     : Labels,
     folder : Folders \cup {NoFolder},
     parent : Folders \cup {Root, NoFolder},  \* to be written
     target : Folders \cup {NoFolder},        \* the parent_folder a PATCH asks for
     file   : Files \cup {NoFile},
     path   : Seq(Frame),                     \* the innermost call last
     todo   : SUBSET Files,                   \* the rest of the cursor over files
     missed : BOOLEAN,                        \* history: see Overlooked
     below  : SUBSET Folders,                 \* history: the folders to be deleted, ..
     inside : SUBSET Files]                   \* .. and the files in them, when it arrived

NoRequest ==
    [op |-> "none", pc |-> "idle", folder |-> NoFolder, parent |-> NoFolder,
     target |-> NoFolder, file |-> NoFile, path |-> << >>, todo |-> {},
     missed |-> FALSE, below |-> {}, inside |-> {}]

-----------------------------------------------------------------------------
Existing == DOMAIN parentOf
Uploaded == DOMAIN folderOf
ChildrenOf(f) == {s \in Existing : parentOf[s] = f}
FilesIn(f) == {x \in Uploaded : folderOf[x] = f}
Without(fn, x) == Restrict(fn, DOMAIN fn \ {x})

\* The folders that have f above them, f among them
Below(f) ==
    LET levels[n \in 0 .. Cardinality(Folders)] ==
            IF n = 0 THEN {f}
            ELSE levels[n - 1] \cup {s \in Existing : parentOf[s] \in levels[n - 1]}
    IN  levels[Cardinality(Folders)]

At(r, op, label) == r \in running /\ req[r].op = op /\ req[r].pc = label
Goto(r, label) == req' = [req EXCEPT ![r].pc = label] /\ UNCHANGED running
Stop(r, label) == req' = [req EXCEPT ![r].pc = label] /\ running' = running \ {r}

\* A request arrives: the first reads of its handler succeed and fix its arguments.
Arrive(r, fields) ==
    /\ req[r].pc = "idle"
    /\ fields.op \in Ops[r]
    /\ req' = [req EXCEPT ![r] = fields @@ NoRequest]
    /\ running' = running \cup {r}
    /\ UNCHANGED stores

Top(r) == req[r].path[Len(req[r].path)]

\* Deletions that have looked for the last time at the subfolders or the files of folder f
LastLookAtFolders(f) == \E q \in running :
    At(q, "DeleteFolder", "dropFolder") /\ Top(q).folder = f
LastLookAtFiles(f) == \E q \in running : \E i \in 1 .. Len(req[q].path) :
    /\ req[q].path[i].folder = f
    /\ ~ (i = Len(req[q].path) /\ req[q].pc = "fileCursor")

-----------------------------------------------------------------------------
(* add_folder and save_file look for the parent when the request arrives,  *)
(* and insert their document later.                                        *)
Places == Existing \cup {Root}

AddFolder(r) == \E f \in Folders \ DOMAIN InitParent, p \in Places :
    /\ \A q \in Requests : req[q].op = "AddFolder" => req[q].folder # f
    /\ Arrive(r, [op |-> "AddFolder", pc |-> "insertFolder", folder |-> f, parent |-> p])

InsertFolder(r) ==
    /\ At(r, "AddFolder", "insertFolder")
    /\ LET f == req[r].folder
           p == req[r].parent
       IN /\ parentOf' = (f :> p) @@ parentOf
          /\ req' = [req EXCEPT ![r].pc = "done",
                                ![r].missed = p \notin Places \/ LastLookAtFolders(p)]
    /\ running' = running \ {r}
    /\ UNCHANGED folderOf

Upload(r) == \E x \in Files \ DOMAIN InitFolder, p \in Places :
    /\ \A q \in Requests : req[q].op = "Upload" => req[q].file # x
    /\ Arrive(r, [op |-> "Upload", pc |-> "insertFile", file |-> x, parent |-> p])

InsertFile(r) ==
    /\ At(r, "Upload", "insertFile")
    /\ LET x == req[r].file
           p == req[r].parent
       IN /\ folderOf' = (x :> p) @@ folderOf
          /\ req' = [req EXCEPT ![r].pc = "done",
                                ![r].missed = p \notin Places \/ LastLookAtFiles(p)]
    /\ running' = running \ {r}
    /\ UNCHANGED parentOf

-----------------------------------------------------------------------------
(* patch_folder reads the folder, looks for the new parent if it is asked  *)
(* to move, and saves the whole document, which inserts it again when it   *)
(* is gone.  Whether the new parent is below the folder is not looked at.  *)
\* Seeded fault: parent_folder is taken from the request although it has none.
PatchFolderUnasked(r) == \E f \in Existing, t \in Existing \cup {NoFolder} :
    Arrive(r, [op |-> "PatchFolder", folder |-> f, parent |-> t, target |-> t,
               pc |-> IF t = NoFolder THEN "saveFolder" ELSE "checkParent"])

PatchFolder(r) == \E f \in Existing, t \in Existing \cup {NoFolder} :
    Arrive(r, [op |-> "PatchFolder", folder |-> f, parent |-> parentOf[f], target |-> t,
               pc |-> IF t = NoFolder THEN "saveFolder" ELSE "checkParent"])

\* A parent that is not there is not an error: the folder stays where it was read.
CheckParent(r) ==
    /\ At(r, "PatchFolder", "checkParent")
    /\ req' = [req EXCEPT ![r].pc = "saveFolder",
                          ![r].parent = IF req[r].target \in Existing THEN req[r].target ELSE @]
    /\ UNCHANGED <<stores, running>>

SaveFolder(r) ==
    /\ At(r, "PatchFolder", "saveFolder")
    /\ LET f == req[r].folder
           p == req[r].parent
       IN /\ parentOf' = (f :> p) @@ parentOf
          /\ req' = [req EXCEPT ![r].pc = "done",
                                ![r].missed = p \notin Places \/ LastLookAtFolders(p)]
    /\ running' = running \ {r}
    /\ UNCHANGED folderOf

-----------------------------------------------------------------------------
(* delete_folder: the files of the folder; then, while a subfolder is      *)
(* found, the same for each subfolder of a cursor; then the folder itself. *)
DeleteFolder(r) == \E f \in Existing :
    Arrive(r, [op |-> "DeleteFolder", pc |-> "fileCursor", folder |-> f,
               path |-> <<[folder |-> f, left |-> {}]>>,
               below |-> Below(f), inside |-> UNION {FilesIn(s) : s \in Below(f)}])

\* Seeded fault: only the files of the folder itself are deleted.
OpenFileCursorOnce(r) ==
    /\ At(r, "DeleteFolder", "fileCursor")
    /\ req' = [req EXCEPT ![r].pc = "fileGet",
                          ![r].todo = IF Len(req[r].path) = 1 THEN FilesIn(Top(r).folder) ELSE {}]
    /\ UNCHANGED <<stores, running>>

OpenFileCursor(r) ==
    /\ At(r, "DeleteFolder", "fileCursor")
    /\ req' = [req EXCEPT ![r].pc = "fileGet", ![r].todo = FilesIn(Top(r).folder)]
    /\ UNCHANGED <<stores, running>>

\* remove_file_entry reads the file again and raises 404 when it is gone
NextFile(r) ==
    /\ At(r, "DeleteFolder", "fileGet")
    /\ \E x \in req[r].todo :
         IF x \in Uploaded
         THEN /\ req' = [req EXCEPT ![r].pc = "fileDelete", ![r].file = x, ![r].todo = @ \ {x}]
              /\ UNCHANGED running
         ELSE Stop(r, "failed")
    /\ UNCHANGED stores

DeleteFileEntry(r) ==
    /\ At(r, "DeleteFolder", "fileDelete")
    /\ folderOf' = Without(folderOf, req[r].file)
    /\ Goto(r, "fileGet")
    /\ UNCHANGED parentOf

\* The call for the subfolders: RecursionError when there are too many calls already
NoMoreFiles(r) ==
    /\ At(r, "DeleteFolder", "fileGet")
    /\ req[r].todo = {}
    /\ IF Len(req[r].path) > MaxDepth THEN Stop(r, "failed") ELSE Goto(r, "findChild")
    /\ UNCHANGED stores

FindChild(r) ==
    /\ At(r, "DeleteFolder", "findChild")
    /\ Goto(r, IF ChildrenOf(Top(r).folder) # {} THEN "childCursor" ELSE "dropFolder")
    /\ UNCHANGED stores

OpenChildCursor(r) ==
    /\ At(r, "DeleteFolder", "childCursor")
    /\ req' = [req EXCEPT ![r].pc = "nextChild",
                          ![r].path[Len(req[r].path)].left = ChildrenOf(Top(r).folder)]
    /\ UNCHANGED <<stores, running>>

NextChild(r) ==
    /\ At(r, "DeleteFolder", "nextChild")
    /\ \E s \in Top(r).left :
         LET calls == [req[r].path EXCEPT ![Len(req[r].path)].left = @ \ {s}]
         IN  req' = [req EXCEPT ![r].pc = "fileCursor",
                                ![r].path = Append(calls, [folder |-> s, left |-> {}])]
    /\ UNCHANGED <<stores, running>>

\* Seeded fault: the subfolders are listed once, not as long as there are some.
NoMoreChildrenOnce(r) ==
    /\ At(r, "DeleteFolder", "nextChild")
    /\ Top(r).left = {}
    /\ Goto(r, "dropFolder")
    /\ UNCHANGED stores

NoMoreChildren(r) ==
    /\ At(r, "DeleteFolder", "nextChild")
    /\ Top(r).left = {}
    /\ Goto(r, "findChild")
    /\ UNCHANGED stores

\* The innermost call returns and its folder is deleted; deleting a document that is
\* already gone is not an error.
Return(r) ==
    LET calls == SubSeq(req[r].path, 1, Len(req[r].path) - 1)
    IN  IF calls = << >>
        THEN Stop(r, "done")
        ELSE /\ req' = [req EXCEPT ![r].pc = "nextChild", ![r].path = calls]
             /\ UNCHANGED running

\* Seeded fault: the subfolders themselves are not deleted.
DropFolderOuter(r) ==
    /\ At(r, "DeleteFolder", "dropFolder")
    /\ parentOf' = IF Len(req[r].path) = 1 THEN Without(parentOf, Top(r).folder) ELSE parentOf
    /\ Return(r)
    /\ UNCHANGED folderOf

DropFolder(r) ==
    /\ At(r, "DeleteFolder", "dropFolder")
    /\ parentOf' = Without(parentOf, Top(r).folder)
    /\ Return(r)
    /\ UNCHANGED folderOf

-----------------------------------------------------------------------------
\* The worker dies or a store call raises: what was stored stays.
Crash(r) ==
    /\ r \in running
    /\ running' = running \ {r}
    /\ UNCHANGED <<stores, req>>

Start(r) == AddFolder(r) \/ Upload(r) \/ PatchFolder(r) \/ DeleteFolder(r)

Step(r) ==
    \/ InsertFolder(r) \/ InsertFile(r) \/ CheckParent(r) \/ SaveFolder(r)
    \/ OpenFileCursor(r) \/ NextFile(r) \/ DeleteFileEntry(r) \/ NoMoreFiles(r)
    \/ FindChild(r) \/ OpenChildCursor(r) \/ NextChild(r) \/ NoMoreChildren(r)
    \/ DropFolder(r)

Init ==
    /\ parentOf = InitParent
    /\ folderOf = InitFolder
    /\ req = [r \in Requests |-> NoRequest]
    /\ running = {}

Next == \E r \in Requests : Start(r) \/ Step(r) \/ Crash(r)

\* A worker goes on with a handler it serves.
Fairness == \A r \in Requests : WF_vars(Step(r))

Spec == Init /\ [][Next]_vars
FairSpec == Spec /\ Fairness

-----------------------------------------------------------------------------
TypeOK ==
    /\ Existing \subseteq Folders /\ \A f \in Existing : parentOf[f] \in Folders \cup {Root}
    /\ Uploaded \subseteq Files /\ \A x \in Uploaded : folderOf[x] \in Folders \cup {Root}
    /\ req \in [Requests -> Request]
    /\ running \subseteq Requests
    /\ \A r \in running : req[r].op = "DeleteFolder" => req[r].path # << >>

\* Folders, and files, that were written when the last deletion of their parent had already
\* looked for the last time, or when the parent was already gone
OverlookedFolder(f) == \E r \in Requests :
    req[r].op \in {"AddFolder", "PatchFolder"} /\ req[r].folder = f /\ req[r].missed
OverlookedFile(x) == \E r \in Requests : req[r].op = "Upload" /\ req[r].file = x /\ req[r].missed

\* No folder loses its parent and no file its folder, whichever additions, moves, deletions
\* and crashes overlap: what is added to a folder while it is being deleted is deleted with
\* it ("while a child is found"), unless it is written after the deletion looked for the
\* last time, where two more store operations remain.
NothingOrphaned ==
    /\ \A f \in Existing : parentOf[f] \in Places \/ OverlookedFolder(f)
    /\ \A x \in Uploaded : folderOf[x] \in Places \/ OverlookedFile(x)

\* Folders somebody saved or overlooked, with all that is below them
Astray == UNION {Below(f) : f \in {g \in Folders :
    OverlookedFolder(g) \/ \E r \in Requests : req[r].op = "PatchFolder" /\ req[r].folder = g}}

\* A deletion that reports success has deleted the whole subtree that was there when it
\* arrived, also when others delete parts of it, upload into it or die half-way.  Only
\* what was overlooked before stays, and what a PATCH moved out or brought back.
DeletedWithContents == \A r \in Requests :
    (req[r].op = "DeleteFolder" /\ req[r].pc = "done") =>
        /\ req[r].below \cap Existing \subseteq Astray
        /\ \A x \in req[r].inside \cap Uploaded : OverlookedFile(x) \/ folderOf[x] \in Astray

\* A deletion ends, although it goes on while it finds a subfolder and follows subfolders
\* to any depth: with each round it deletes what it found, and a folder that was moved
\* below itself ends in Python's recursion limit.  (Requests that add folders are finitely
\* many here; one who never stops adding to the folder keeps the loop going.)
EveryDeletionEnds == \A r \in Requests :
    req[r].op = "DeleteFolder" ~> r \notin running

=============================================================================
