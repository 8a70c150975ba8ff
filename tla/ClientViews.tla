---------------------------- MODULE ClientViews ----------------------------
(***************************************************************************)
(* The components of the web interface (src/frontend/src/components) as    *)
(* programs: the controls a user moves, the effects React runs when a      *)
(* control or a slice of the store changes, and the handlers of the user's *)
(* actions. A control is at its first value or not; a dialog or a tab is   *)
(* open or not. What is only drawn is left out, and so is what a handler   *)
(* does to nothing but a form.                                             *)
(***************************************************************************)
EXTENDS ClientActions, Sequences

Step(do, what) == [do |-> do, what |-> what, with |-> {}, when |-> {}, unless |-> {}, then |-> <<>>]
Do(thunk) == Step("dispatch", thunk)
Ask(thunk, with) == [Do(thunk) EXCEPT !.with = with]         \* with: the controls it passes on
Await(thunk, then) == [Do(thunk) EXCEPT !.then = then]       \* the steps after an await
Choose(control) == Step("choose", control)                   \* the user moves it
Open(control) == Step("open", control)
Reset(control) == Step("reset", control)                     \* back to its first value
Tab(control) == Step("tab", control)                         \* and closes the others; "": the first one
Go(to) == Step("go", to)                                 \* navigate()
When(what, step) == [step EXCEPT !.when = @ \cup {what}]     \* a control that is moved, a slice that is set
Unless(what, step) == [step EXCEPT !.unless = @ \cup {what}]
Effect(on, run) == [on |-> on, run |-> run]
Mount(run) == Effect({}, run)                                \* runs once, as every effect does at first
NoControls == <<>>

\* shows: [slice the component draws -> the controls the user reads it by]; timer: what it repeats;
\* it is there while what it is inside is open, and nothing it is outside of.
Component(shows, effects, handlers) ==
    [shows |-> shows, effects |-> effects, handlers |-> handlers, timer |-> <<>>, inside |-> {}, outside |-> {}]
In(control, part) == [part EXCEPT !.inside = {control}]

(***************************************************************************)
(* The frame around every private page, and lists of datasets.             *)
(***************************************************************************)
Layout ==
    Component(NoControls,
        <<Mount(<<Do("fetchUserProfile"), Do("getAdminModeStatus")>>),
          Effect({"datasetId", "fileId", "folderId", "firstPage"}, <<Do("fetchUserProfile")>>)>>,
        [adminMode |-> <<Do("toggleAdminMode")>>])
\* PrivateRoute around the pages with an id: the user's role there. (That it asks again when an
\* error is dismissed is left out, as the errors are.)
DatasetRoute ==
    Component([datasetRole |-> {"datasetId"}],
        <<Effect({"datasetId"}, <<Ask("fetchDatasetRole", {"datasetId"})>>)>>, NoControls)
FileRoute ==
    Component([fileRole |-> {"fileId"}], <<Effect({"fileId"}, <<Ask("fetchFileRole", {"fileId"})>>)>>, NoControls)
Explore ==
    Component([datasets |-> {"skip", "mine"}],
        <<Effect({"adminMode", "deletedDataset", "mine", "skip"}, <<Ask("fetchDatasets", {"skip", "mine"})>>)>>,
        [tab |-> <<Choose("mine"), Reset("skip")>>,
         page |-> <<Choose("skip"), Ask("fetchDatasets", {"skip", "mine"})>>])
Public ==
    Component([publicDatasets |-> {"skip"}],
        <<Mount(<<Ask("fetchPublicDatasets", {"skip"})>>)>>,
        [page |-> <<Choose("skip"), Ask("fetchPublicDatasets", {"skip"})>>])

(***************************************************************************)
(* Groups.                                                                 *)
(***************************************************************************)
GroupList ==
    Component([groups |-> {"skip", "searchTerm"}],
        <<Effect({"adminMode", "deletedGroup"}, <<Ask("fetchGroups", {"skip"})>>),
          Effect({"searchTerm"}, <<Reset("skip"), When("searchTerm", Ask("searchGroups", {"searchTerm"})),
                                   Unless("searchTerm", Do("fetchGroups"))>>)>>,
        [search |-> <<Choose("searchTerm")>>,
         enter |-> <<Ask("searchGroups", {"searchTerm", "skip"})>>,
         page |-> <<Choose("skip"), When("searchTerm", Ask("searchGroups", {"searchTerm", "skip"})),
                    Unless("searchTerm", Ask("fetchGroups", {"skip"}))>>,
         create |-> <<Open("createGroup")>>])
CreateGroup ==
    In("createGroup", Component(NoControls,
        <<Effect({"newGroup"}, <<When("newGroup", Do("resetGroupCreation")), When("newGroup", Go("Group"))>>)>>,
        [submit |-> <<Do("createGroup"), Reset("createGroup")>>, cancel |-> <<Reset("createGroup")>>]))
DeleteGroupModal ==
    Component(NoControls, <<>>, [delete |-> <<Do("deleteGroup"), Go("GroupList")>>])
\* A variant that asks again whenever there is an answer.
GroupReloading ==
    Component([groupAbout |-> {}, role |-> {}],
        <<Effect({"adminMode", "groupAbout"}, <<Do("fetchGroupAbout"), Do("fetchGroupRole")>>)>>, NoControls)
Group ==
    Component([groupAbout |-> {}, role |-> {}],
        <<Effect({"adminMode", "deletedGroupMember"}, <<Do("fetchGroupAbout"), Do("fetchGroupRole")>>)>>, NoControls)
AddMemberModal ==
    Component([users |-> {"prefix"}],
        <<Mount(<<Do("prefixSearchAllUsers")>>), Effect({"prefix"}, <<Ask("prefixSearchAllUsers", {"prefix"})>>)>>,
        [email |-> <<Choose("prefix")>>, add |-> <<Do("addGroupMember"), Reset("prefix")>>])
MembersTable == Component(NoControls, <<>>, [remove |-> <<Do("deleteGroupMember")>>])
MembersTableUserEntry == Component(NoControls, <<>>, [role |-> <<Do("assignGroupMemberRole")>>])
EditGroupName == Component(NoControls, <<>>, [save |-> <<Do("updateGroup")>>])
EditGroupDescription == Component(NoControls, <<>>, [save |-> <<Do("updateGroup")>>])

(***************************************************************************)
(* Users and their API keys.                                               *)
(***************************************************************************)
ManageUsers ==
    Component([users |-> {"skip", "prefix"}],
        <<Mount(<<Do("fetchAllUsers"), Do("fetchUserProfile")>>),
          Effect({"prefix"}, <<Reset("skip"), When("prefix", Ask("prefixSearchAllUsers", {"prefix"})),
                               Unless("prefix", Do("fetchAllUsers"))>>)>>,
        [search |-> <<Choose("prefix")>>,
         enter |-> <<Ask("prefixSearchAllUsers", {"prefix", "skip"})>>,
         page |-> <<Choose("skip"), When("prefix", Ask("prefixSearchAllUsers", {"prefix", "skip"})),
                    Unless("prefix", Ask("fetchAllUsers", {"skip"}))>>,
         setAdmin |-> <<Do("setAdmin")>>, revokeAdmin |-> <<Do("revokeAdmin")>>,
         enableReadOnly |-> <<Do("enableReadOnly")>>, disableReadOnly |-> <<Do("disableReadOnly")>>])
Profile == Component([profile |-> {}], <<Mount(<<Do("fetchUserProfile")>>)>>, NoControls)
\* A variant whose list does not notice a deletion.
ApiKeysOnce ==
    Component([apiKeys |-> {"skip"}], <<Effect({"hashedKey"}, <<Ask("listApiKeys", {"skip"})>>)>>,
        [page |-> <<Choose("skip"), Ask("listApiKeys", {"skip"})>>, delete |-> <<Do("deleteApiKey")>>])
ApiKeys ==
    Component([apiKeys |-> {"skip"}],
        <<Effect({"deletedApiKey", "hashedKey"}, <<Ask("listApiKeys", {"skip"})>>)>>,
        [page |-> <<Choose("skip"), Ask("listApiKeys", {"skip"})>>, delete |-> <<Do("deleteApiKey")>>])
CreateApiKeyModal ==
    Component(NoControls, <<>>,
        [generate |-> <<Do("generateApiKey")>>,
         close |-> <<Ask("listApiKeys", {"skip"}), Do("resetApiKey")>>])

(***************************************************************************)
(* Listeners, their feeds and jobs.                                        *)
(***************************************************************************)
AskListeners == Ask("fetchListeners", {"category", "label", "aliveOnly"})   \* from the first one on
AllListeners ==
    [Component([listeners |-> {"skip", "category", "label", "aliveOnly", "text"}],
        <<Effect({"adminMode"}, <<Ask("fetchListeners", {"aliveOnly"}),
                                  Do("fetchListenerCategories"), Do("fetchListenerLabels")>>),
          Effect({"text", "adminMode"}, <<Reset("skip"), Reset("category"),
                                          When("text", Ask("queryListeners", {"text"})), Unless("text", AskListeners)>>),
          Effect({"aliveOnly", "adminMode"}, <<Reset("skip"), Reset("text"), AskListeners>>)>>,
        [search |-> <<Choose("text")>>,
         enter |-> <<Reset("category"), Ask("queryListeners", {"text", "skip"})>>,
         category |-> <<Choose("category"), Reset("text"), AskListeners>>,
         label |-> <<Choose("label"), Reset("text"), AskListeners>>,
         alive |-> <<Choose("aliveOnly")>>,
         page |-> <<Choose("skip"), When("text", Ask("queryListeners", {"text", "skip"})),
                    Unless("text", Ask("fetchListeners", {"skip", "aliveOnly"}))>>,
         enable |-> <<Do("enableListener")>>, disable |-> <<Do("disableListener")>>])
     EXCEPT !.timer = <<When("text", Reset("category")), When("text", Ask("queryListeners", {"text", "skip"})),
                        Unless("text", Ask("fetchListeners", {"skip", "category", "label", "aliveOnly"}))>>]
\* Listeners.tsx is the same inside a dataset or a file; it cannot switch a listener on or off.
ListenersTab == [AllListeners EXCEPT !.inside = {"listenersTab"},
    !.handlers = [h \in DOMAIN AllListeners.handlers \ {"enable", "disable"} |-> AllListeners.handlers[h]]]
\* A variant: a search stays on the page it was entered on.
FeedListKeepingPage ==
    Component([feeds |-> {"skip", "searchTerm"}],
        <<Effect({"createFeed", "deletedFeed", "adminMode"}, <<Ask("fetchFeeds", {"searchTerm", "skip"})>>),
          Effect({"searchTerm", "adminMode"}, <<Ask("fetchFeeds", {"searchTerm"})>>)>>,
        [search |-> <<Choose("searchTerm")>>, enter |-> <<Ask("fetchFeeds", {"searchTerm", "skip"})>>,
         page |-> <<Choose("skip"), Ask("fetchFeeds", {"searchTerm", "skip"})>>, create |-> <<Open("createFeed")>>])
FeedList ==
    Component([feeds |-> {"skip", "searchTerm"}],
        <<Effect({"createFeed", "deletedFeed", "adminMode"}, <<Ask("fetchFeeds", {"searchTerm", "skip"})>>),
          Effect({"searchTerm", "adminMode"}, <<Reset("skip"), Ask("fetchFeeds", {"searchTerm"})>>)>>,
        [search |-> <<Choose("searchTerm")>>,
         enter |-> <<Ask("fetchFeeds", {"searchTerm", "skip"})>>,
         page |-> <<Choose("skip"), Ask("fetchFeeds", {"searchTerm", "skip"})>>,
         create |-> <<Open("createFeed")>>])
CreateFeedModal ==
    In("createFeed", Component(NoControls, <<Mount(<<Do("fetchListeners")>>)>>,
        [submit |-> <<Do("createFeed"), Reset("createFeed")>>, cancel |-> <<Reset("createFeed")>>]))
DeleteFeedModal == Component(NoControls, <<>>, [delete |-> <<Do("deleteFeed"), Go("FeedList")>>])
FeedEntry ==
    Component([feed |-> {}], <<Mount(<<Do("fetchFeed"), Do("fetchListeners")>>)>>, [edit |-> <<Open("editFeed")>>])
EditFeedModal ==
    In("editFeed", Component(NoControls, <<Mount(<<Do("fetchListeners")>>)>>,
        [submit |-> <<Do("updateFeed"), Reset("editFeed")>>, cancel |-> <<Reset("editFeed")>>]))
ExtractionHistory ==
    Component([listeners |-> {"skip", "aliveOnly"}],
        <<Mount(<<Ask("fetchListeners", {"aliveOnly"})>>),
          Effect({"adminMode"}, <<Ask("fetchListeners", {"skip", "aliveOnly"})>>)>>,
        [page |-> <<Choose("skip"), Ask("fetchListeners", {"skip", "aliveOnly"})>>,
         extractor |-> <<Choose("listenerId")>>])
\* filters: what a change of asks again; ids: the dataset or the file, a change of which does not.
JobsOf(filters, ids) ==
    LET asked == filters \cup ids IN
    Component([jobs |-> asked \cup {"jobsSkip", "limit"}],
        <<Effect(filters \cup {"adminMode", "limit"},
                 <<Reset("jobsSkip"), Ask("fetchListenerJobs", asked \cup {"limit"})>>)>>,
        [status |-> <<Choose("status")>>, created |-> <<Choose("created")>>,
         refresh |-> <<Ask("fetchListenerJobs", asked \cup {"jobsSkip", "limit"})>>,
         page |-> <<Choose("jobsSkip"), Ask("fetchListenerJobs", asked \cup {"jobsSkip", "limit"})>>,
         rows |-> <<Choose("limit"), Reset("jobsSkip"), Ask("fetchListenerJobs", asked \cup {"limit"})>>,
         job |-> <<Choose("jobId"), Open("extractorStatus")>>,
         closeJob |-> <<Reset("extractorStatus")>>])
ExtractionJobs == JobsOf({"listenerId", "status", "created"}, {})
JobsOfResource(id) == In("historyTab", JobsOf({"status", "created"}, {id}))
DatasetJobs == JobsOfResource("datasetId")
FileJobs == JobsOfResource("fileId")
\* The tab around them asks as well, for the first hundred.
ExtractionHistoryTab(id) ==
    In("historyTab", Component(NoControls,
        <<Effect({"status", "created"}, <<Ask("fetchListenerJobs", {"status", "created", id})>>)>>, NoControls))
DatasetHistoryTab == ExtractionHistoryTab("datasetId")
FileHistoryTab == ExtractionHistoryTab("fileId")
StatusOf(id, polls) ==
    [In("extractorStatus", Component([currJobSummary |-> {id}, currJobUpdates |-> {id}],
        <<Effect({id}, <<Do("resetJobSummary"), Do("resetJobUpdates")>> \o polls)>>, NoControls))
     EXCEPT !.timer = polls]
ExtractorStatus == StatusOf("jobId", <<Ask("fetchJobSummary", {"jobId"}), Ask("fetchJobUpdates", {"jobId"})>>)
StatusInTab == [ExtractorStatus EXCEPT !.inside = @ \cup {"historyTab"}]
\* After a submission, of the job in the store: the one before, until the new one has an id.
SubmittedStatus ==
    LET polls == <<When("currJobId", Ask("fetchJobSummary", {"currJobId"})),
                   When("currJobId", Ask("fetchJobUpdates", {"currJobId"}))>>
    IN  [StatusOf("currJobId", polls) EXCEPT !.inside = {"listenersTab", "submitted"}]
SubmitExtraction(thunk) ==
    In("listenersTab", Component(NoControls, <<>>,
        [submit |-> <<Do(thunk), Open("submitted")>>, close |-> <<Reset("submitted")>>]))
SubmitDatasetExtraction == SubmitExtraction("submitDatasetExtractionAction")
SubmitFileExtraction == SubmitExtraction("submitFileExtractionAction")

(***************************************************************************)
(* Metadata and its definitions.                                           *)
(***************************************************************************)
MetadataDefinitions ==
    Component([metadataDefinitionList |-> {"skip", "searchTerm"}],
        <<Mount(<<Do("fetchMetadataDefinitions"), Do("fetchUserProfile")>>),
          Effect({"adminMode", "deletedMetadataDefinition"}, <<Ask("fetchMetadataDefinitions", {"skip"})>>),
          Effect({"searchTerm"}, <<Reset("skip"), When("searchTerm", Ask("searchMetadataDefinitions", {"searchTerm"})),
                                   Unless("searchTerm", Do("fetchMetadataDefinitions"))>>)>>,
        [search |-> <<Choose("searchTerm")>>,
         enter |-> <<Ask("searchMetadataDefinitions", {"searchTerm", "skip"})>>,
         page |-> <<Choose("skip"), When("searchTerm", Ask("searchMetadataDefinitions", {"searchTerm", "skip"})),
                    Unless("searchTerm", Ask("fetchMetadataDefinitions", {"skip"}))>>,
         create |-> <<Open("createDefinition")>>])
CreateMetadataDefinition ==
    In("createDefinition", Component(NoControls,
        <<Effect({"newMetadataDefinition"}, <<When("newMetadataDefinition", Do("resetPostMetadataDefinitions")),
                                              When("newMetadataDefinition", Go("MetadataDefinitionEntry"))>>)>>,
        [submit |-> <<Do("postMetadataDefinition"), Reset("createDefinition")>>,
         cancel |-> <<Reset("createDefinition")>>]))
DeleteMetadataDefinitionModal ==
    Component(NoControls, <<>>, [delete |-> <<Do("deleteMetadataDefinition"), Go("MetadataDefinitions")>>])
MetadataDefinitionEntry ==
    Component([metadataDefinition |-> {}],
        <<Mount(<<Do("fetchMetadataDefinition"), Do("fetchUserProfile")>>)>>, [edit |-> <<Open("editDefinition")>>])
EditMetadataDefinitionModal ==
    In("editDefinition", Component(NoControls, <<>>,
        [save |-> <<Do("updateMetadataDefinition"), Reset("editDefinition")>>]))

\* What is entered for a dataset or a file; kind: "Dataset" or "File", id: the control it goes by.
Shown(lists, id, definitions, list) ==
    Component(lists, <<Effect({id}, <<Do(definitions), Ask(list, {id})>>)>>, NoControls)
DisplayMetadata(lists, id, list, patch, delete) ==
    LET part == In("metadataTab", Shown(lists, id, "fetchMetadataDefinitions", list)) IN
    [part EXCEPT !.outside = {"addMetadata"},
                 !.handlers = [update |-> <<Do(patch)>>, delete |-> <<Do(delete)>>, add |-> <<Open("addMetadata")>>]]
DisplayPublicMetadata(lists, id, list) ==
    In("metadataTab", Shown(lists, id, "fetchPublicMetadataDefinitions", list))
DisplayListenerMetadata(lists, id, definitions, list) ==
    In("listenerMetadataTab",
       Component(lists, <<Mount(<<Do(definitions)>>), Effect({id, "version"}, <<Ask(list, {id})>>)>>, NoControls))
\* The form, with one entry changed and one new; handleMetadataUpdateFinish of the page saves it.
EditMetadata(lists, id, list, patch, post) ==
    [In("metadataTab",
        Component(lists, <<Mount(<<Do("fetchMetadataDefinitions")>>), Effect({id}, <<Ask(list, {id})>>)>>,
                  [finish |-> <<Do(patch), Do(post), Ask(list, {id}), Reset("addMetadata")>>]))
     EXCEPT !.inside = @ \cup {"addMetadata"}]
CreateMetadata == Component(NoControls, <<Mount(<<Do("fetchMetadataDefinitions")>>)>>, NoControls)

DatasetLists == [datasetMetadataList |-> {"datasetId"}]
PublicDatasetLists == [publicDatasetMetadataList |-> {"datasetId"}]
FileLists == [fileMetadataList |-> {"fileId"}]
PublicFileLists == [publicFileMetadataList |-> {"fileId"}]
DatasetMetadata ==
    DisplayMetadata(DatasetLists, "datasetId", "fetchDatasetMetadata", "patchDatasetMetadata", "deleteDatasetMetadata")
FileMetadata == DisplayMetadata(FileLists, "fileId", "fetchFileMetadata", "patchFileMetadata", "deleteFileMetadata")
EditDatasetMetadata ==
    EditMetadata(DatasetLists, "datasetId", "fetchDatasetMetadata", "patchDatasetMetadata", "postDatasetMetadata")
EditFileMetadata ==
    [EditMetadata(FileLists, "fileId", "fetchFileMetadata", "patchFileMetadata", "postFileMetadata")
     EXCEPT !.handlers = @ @@ [cancel |-> <<Reset("addMetadata")>>]]
PublicDatasetMetadata == DisplayPublicMetadata(PublicDatasetLists, "datasetId", "fetchPublicDatasetMetadata")
PublicFileMetadata == DisplayPublicMetadata(PublicFileLists, "fileId", "fetchPublicFileMetadata")
DatasetListenerMetadata ==
    DisplayListenerMetadata(DatasetLists, "datasetId", "fetchMetadataDefinitions", "fetchDatasetMetadata")
FileListenerMetadata == DisplayListenerMetadata(FileLists, "fileId", "fetchMetadataDefinitions", "fetchFileMetadata")
PublicDatasetListenerMetadata ==
    DisplayListenerMetadata(PublicDatasetLists, "datasetId", "fetchPublicMetadataDefinitions",
                            "fetchPublicDatasetMetadata")
PublicFileListenerMetadata ==
    DisplayListenerMetadata(PublicFileLists, "fileId", "fetchPublicMetadataDefinitions", "fetchPublicFileMetadata")

(***************************************************************************)
(* A dataset.                                                              *)
(***************************************************************************)
DatasetTabs == {"metadataTab", "listenerMetadataTab", "listenersTab", "historyTab", "visTab", "sharingTab"}
FolderView == {"datasetId", "folderId", "filesSkip"}
AskFolder == Ask("fetchFoldersFilesInDataset", FolderView)
\* fetchFolderPath does nothing without a folder.
AskPath(thunk) == When("folderId", Ask(thunk, {"folderId"}))
Dataset ==
    Component([about |-> {"datasetId"}, foldersAndFiles |-> FolderView, folderPath |-> {"folderId"}, license |-> {}],
        <<Effect({"datasetId", "folderId", "firstPage", "adminMode", "licenseId", "newFiles", "deletedFile",
                  "deletedFolder"},
                 <<AskFolder, Ask("fetchDatasetAbout", {"datasetId"}), When("about", Do("fetchDatasetLicense")),
                   AskPath("fetchFolderPath"), Do("fetchMetadataDefinitions")>>)>>,
        [page |-> <<Choose("filesSkip"), AskFolder>>,
         breadcrumb |-> <<When("folderId", Choose("folderId"))>>,
         files |-> <<Tab("")>>, metadata |-> <<Tab("metadataTab")>>, sharing |-> <<Tab("sharingTab")>>,
         listenerMetadata |-> <<Tab("listenerMetadataTab")>>, listeners |-> <<Tab("listenersTab")>>,
         history |-> <<Tab("historyTab")>>, visualizations |-> <<Tab("visTab")>>,
         license |-> <<Open("editLicense")>>])
PublicDataset ==
    Component([publicAbout |-> {"datasetId"}, publicFoldersAndFiles |-> FolderView,
               publicFolderPath |-> {"folderId"}],
        <<Effect({"datasetId", "folderId", "firstPage"},
                 <<Ask("fetchPublicFoldersFilesInDataset", FolderView), Ask("fetchPublicDatasetAbout", {"datasetId"}),
                   AskPath("fetchPublicFolderPath"), Do("fetchPublicMetadataDefinitions")>>)>>,
        [page |-> <<Choose("filesSkip"), Ask("fetchPublicFoldersFilesInDataset", FolderView)>>,
         breadcrumb |-> <<When("folderId", Choose("folderId"))>>,
         files |-> <<Tab("")>>, metadata |-> <<Tab("metadataTab")>>,
         listenerMetadata |-> <<Tab("listenerMetadataTab")>>, visualizations |-> <<Tab("visTab")>>])
InFiles(handlers) == [Component(NoControls, <<>>, handlers) EXCEPT !.outside = DatasetTabs]
FilesOf(filePage) == InFiles([folder |-> <<Choose("folderId"), Reset("filesSkip")>>, file |-> <<Go(filePage)>>])
FilesTable == FilesOf("File")
PublicFilesTable == FilesOf("PublicFile")
FileMenu == InFiles([delete |-> <<Do("fileDeleted")>>, update |-> <<Open("updateFile")>>])
FolderMenu == InFiles([delete |-> <<Do("folderDeleted")>>])
EditFolderName == InFiles([save |-> <<Do("updateFolder")>>])
EditLicenseModal ==
    In("editLicense", Component(NoControls, <<>>,
        [save |-> <<Do("updateDatasetLicense"), Reset("editLicense")>>]))
\* firstPage: the page of the versions is named in the address, and is the first one.
AtFirstPage == Effect({"firstPage"}, <<When("firstPage", Reset("versionsSkip"))>>)
DatasetVersions ==
    Component([frozenDatasets |-> {"versionsSkip"}],
        <<AtFirstPage,
          Effect({"about", "deletedFrozenDataset", "latestFrozenVersionNum", "versionsSkip"},
                 <<When("about", Ask("getFreezeDatasets", {"versionsSkip"}))>>)>>,
        [version |-> <<Unless("datasetId", Choose("datasetId")), Reset("folderId"), Open("firstPage")>>,
         live |-> <<When("datasetId", Choose("datasetId")), Reset("folderId"), Unless("versionsSkip", Open("firstPage")),
                    When("versionsSkip", Reset("firstPage"))>>,
         page |-> <<Choose("versionsSkip"), Ask("getFreezeDatasets", {"versionsSkip"})>>,
         delete |-> <<Do("deleteFreezeDataset"), Reset("datasetId"), Reset("folderId"), Open("firstPage")>>])
PublicDatasetVersions ==
    Component([publicFrozenDatasets |-> {"versionsSkip"}],
        <<AtFirstPage,
          Effect({"publicAbout", "versionsSkip"},
                 <<When("publicAbout", Ask("getPublicFreezeDatasets", {"versionsSkip"}))>>)>>,
        [live |-> <<When("datasetId", Choose("datasetId")), Reset("folderId"), Open("firstPage")>>,
         version |-> <<Unless("datasetId", Choose("datasetId")), Reset("folderId"),
                       Unless("versionsSkip", Open("firstPage")), When("versionsSkip", Reset("firstPage"))>>,
         page |-> <<Choose("versionsSkip"), Ask("getPublicFreezeDatasets", {"versionsSkip"})>>])
OtherMenu ==
    Component(NoControls, <<Mount(<<Do("fetchGroups")>>)>>,
        [delete |-> <<Do("datasetDeleted"), Go("Explore")>>, freeze |-> <<Do("freezeDataset")>>])
ShareMenu ==
    Component(NoControls, <<Mount(<<Do("fetchGroups")>>)>>,
        [share |-> <<Open("shareDataset")>>, shareGroup |-> <<Open("shareGroup")>>])
NewMenu ==
    Component(NoControls, <<>>, [upload |-> <<Open("dragDropFiles")>>])
\* Always there, its dialog open or not: the folder of the store is opened whenever it changes.
CreateFolder ==
    Component(NoControls, <<Effect({"newFolder"}, <<When("newFolder", Step("renew", "folderId"))>>)>>,
        [save |-> <<Do("folderAdded")>>])
EditNameModal == Component(NoControls, <<>>, [save |-> <<Do("updateDataset")>>])
EditDescriptionModal == Component(NoControls, <<>>, [save |-> <<Do("updateDataset")>>])
EditStatusModal == Component(NoControls, <<>>, [save |-> <<Do("updateDataset")>>])
DatasetName == Component(NoControls, <<>>, [save |-> <<Do("updateDataset")>>])
\* A dataset is made with its metadata, once it has an id.
CreateDataset ==
    Component(NoControls,
        <<Mount(<<Do("fetchMetadataDefinitions")>>),
          Effect({"newDataset"}, <<When("newDataset", Do("postDatasetMetadata")),
                                   When("newDataset", Do("resetDatsetCreated")), When("newDataset", Go("Dataset"))>>)>>,
        [finish |-> <<Do("datasetCreated")>>])

(***************************************************************************)
(* Who may do what with a dataset.                                         *)
(***************************************************************************)
GetRoles == Do("fetchDatasetRoles")
SharingTab == In("sharingTab", Component([roles |-> {}], <<Mount(<<GetRoles>>)>>, NoControls))
ShareDatasetModal ==
    In("shareDataset", Component([users |-> {"prefix"}],
        <<Mount(<<Do("prefixSearchAllUsers"), GetRoles>>),
          Effect({"prefix"}, <<Ask("prefixSearchAllUsers", {"prefix"})>>)>>,
        [email |-> <<Choose("prefix")>>,
         share |-> <<Await("setDatasetUserRole", <<GetRoles>>)>>,
         close |-> <<Reset("shareDataset")>>]))
ShareGroupDatasetModal ==
    In("shareGroup", Component(NoControls, <<Mount(<<Do("fetchGroups")>>)>>,
        [share |-> <<Await("setDatasetGroupRole", <<GetRoles>>)>>, close |-> <<Reset("shareGroup")>>]))
InSharing(handlers) == In("sharingTab", Component(NoControls, <<>>, handlers))
ChangeDatasetRoleModal == InSharing([save |-> <<Do("setDatasetUserRole")>>])
ChangeGroupDatasetRoleModal == InSharing([save |-> <<Do("setDatasetGroupRole")>>])
UserAndRoleTableEntry ==
    InSharing([save |-> <<Do("setDatasetUserRole")>>, delete |-> <<Await("removeDatasetUserRole", <<GetRoles>>)>>])
GroupAndRoleTableEntry ==
    InSharing([save |-> <<Do("setDatasetGroupRole")>>, delete |-> <<Await("removeDatasetGroupRole", <<GetRoles>>)>>])

(***************************************************************************)
(* Files.                                                                  *)
(***************************************************************************)
UploadFileDragAndDrop ==
    In("dragDropFiles", Component(NoControls,
        <<Mount(<<Do("fetchMetadataDefinitions")>>),
          Effect({"newFiles"}, <<When("newFiles", Do("postFileMetadata")), When("newFiles", Do("resetFilesCreated")),
                                 When("newFiles", Reset("dragDropFiles"))>>)>>,
        [finish |-> <<Do("createFiles")>>]))
UpdateFile ==
    In("updateFile", Component(NoControls,
        <<Mount(<<Ask("fetchFileMetadata", {"fileId"})>>),
          Effect({"fileVersions"}, <<When("fileVersions", When("fileMetadataList", Do("postFileMetadata")))>>)>>,
        [save |-> <<Await("updateFile", <<Reset("updateFile"), Ask("fetchFileVersions", {"fileId"})>>)>>,
         close |-> <<Reset("updateFile")>>]))
UpdateFileInTable == [UpdateFile EXCEPT !.outside = DatasetTabs]
FileActionsMenu ==
    Component(NoControls, <<>>,
        [delete |-> <<Do("fileDeleted"), Go("Dataset")>>, update |-> <<Open("updateFile")>>,
         share |-> <<Do("generateFilePresignedUrl")>>])
FileTabs == {"metadataTab", "listenerMetadataTab", "listenersTab", "historyTab"}
File ==
    Component([fileSummary |-> {"fileId"}, fileVersions |-> {"fileId"}, about |-> {}],
        <<Effect({"adminMode", "fileId"},
                 <<Ask("fetchFileSummary", {"fileId"}), Ask("fetchFileVersions", {"fileId"}), Do("fetchDatasetAbout"),
                   Do("fetchFolderPath")>>)>>,
        [visualizations |-> <<Tab("")>>, metadata |-> <<Tab("metadataTab")>>, listeners |-> <<Tab("listenersTab")>>,
         listenerMetadata |-> <<Tab("listenerMetadataTab")>>, history |-> <<Tab("historyTab")>>])
PublicFile ==
    Component([publicFileSummary |-> {"fileId"}, publicFileVersions |-> {"fileId"}, publicAbout |-> {}],
        <<Effect({"fileId"},
                 <<Ask("fetchPublicFileSummary", {"fileId"}), Ask("fetchPublicFileVersions", {"fileId"}),
                   Do("fetchPublicDatasetAbout"), Do("fetchPublicFolderPath")>>)>>,
        [visualizations |-> <<Tab("")>>, metadata |-> <<Tab("metadataTab")>>,
         listenerMetadata |-> <<Tab("listenerMetadataTab")>>])

(***************************************************************************)
(* Visualizations.                                                         *)
(***************************************************************************)
VisualizationOf(slices, id, run) == Component(slices, <<Effect({id}, run)>>, NoControls)
DatasetVisualization ==
    In("visTab", VisualizationOf([visConfig |-> {"datasetId"}], "datasetId", <<Ask("getVisConfig", {"datasetId"})>>))
PublicDatasetVisualization ==
    In("visTab", VisualizationOf([publicVisConfig |-> {"datasetId"}], "datasetId",
                                <<Ask("getPublicVisConfig", {"datasetId"})>>))
FileVisualization ==
    [VisualizationOf([visConfig |-> {"fileId"}], "fileId",
                    <<Ask("fetchFileSummary", {"fileId"}), Ask("getVisConfig", {"fileId"})>>)
     EXCEPT !.outside = FileTabs]
PublicFileVisualization ==
    [VisualizationOf([publicVisConfig |-> {"fileId"}], "fileId",
                    <<Ask("fetchPublicFileSummary", {"fileId"}), Ask("getPublicVisConfig", {"fileId"})>>)
     EXCEPT !.outside = FileTabs]
VisualizationCard == Component(NoControls, <<>>, [share |-> <<Do("generateVisPresignedUrl")>>])
PublicVisualizationCard == Component(NoControls, <<>>, [share |-> <<Do("generatePublicVisPresignedUrl")>>])

(***************************************************************************)
(* The pages (routes.tsx): their parts, each after the parts it contains.  *)
(***************************************************************************)
Components ==
    [Layout |-> Layout, DatasetRoute |-> DatasetRoute, FileRoute |-> FileRoute,
     Explore |-> Explore, Public |-> Public, GroupList |-> GroupList,
     CreateGroup |-> CreateGroup, DeleteGroupModal |-> DeleteGroupModal, Group |-> Group,
     AddMemberModal |-> AddMemberModal, MembersTable |-> MembersTable,
     MembersTableUserEntry |-> MembersTableUserEntry, EditGroupName |-> EditGroupName,
     EditGroupDescription |-> EditGroupDescription, ManageUsers |-> ManageUsers,
     Profile |-> Profile, ApiKeys |-> ApiKeys, CreateApiKeyModal |-> CreateApiKeyModal,
     AllListeners |-> AllListeners, ListenersTab |-> ListenersTab, FeedList |-> FeedList,
     CreateFeedModal |-> CreateFeedModal, DeleteFeedModal |-> DeleteFeedModal,
     FeedEntry |-> FeedEntry, EditFeedModal |-> EditFeedModal,
     ExtractionHistory |-> ExtractionHistory, ExtractionJobs |-> ExtractionJobs,
     DatasetHistoryTab |-> DatasetHistoryTab, FileHistoryTab |-> FileHistoryTab, DatasetJobs |-> DatasetJobs,
     FileJobs |-> FileJobs, StatusInTab |-> StatusInTab, ExtractorStatus |-> ExtractorStatus,
     SubmittedStatus |-> SubmittedStatus, SubmitDatasetExtraction |-> SubmitDatasetExtraction,
     SubmitFileExtraction |-> SubmitFileExtraction, MetadataDefinitions |-> MetadataDefinitions,
     CreateMetadataDefinition |-> CreateMetadataDefinition,
     DeleteMetadataDefinitionModal |-> DeleteMetadataDefinitionModal,
     MetadataDefinitionEntry |-> MetadataDefinitionEntry,
     EditMetadataDefinitionModal |-> EditMetadataDefinitionModal,
     CreateMetadata |-> CreateMetadata, DatasetMetadata |-> DatasetMetadata,
     FileMetadata |-> FileMetadata, EditDatasetMetadata |-> EditDatasetMetadata,
     EditFileMetadata |-> EditFileMetadata, PublicDatasetMetadata |-> PublicDatasetMetadata,
     PublicFileMetadata |-> PublicFileMetadata,
     DatasetListenerMetadata |-> DatasetListenerMetadata,
     FileListenerMetadata |-> FileListenerMetadata,
     PublicDatasetListenerMetadata |-> PublicDatasetListenerMetadata,
     PublicFileListenerMetadata |-> PublicFileListenerMetadata, Dataset |-> Dataset,
     PublicDataset |-> PublicDataset, FilesTable |-> FilesTable,
     PublicFilesTable |-> PublicFilesTable, FileMenu |-> FileMenu, FolderMenu |-> FolderMenu,
     EditFolderName |-> EditFolderName, EditLicenseModal |-> EditLicenseModal,
     DatasetVersions |-> DatasetVersions, PublicDatasetVersions |-> PublicDatasetVersions,
     OtherMenu |-> OtherMenu, ShareMenu |-> ShareMenu, NewMenu |-> NewMenu,
     CreateFolder |-> CreateFolder, EditNameModal |-> EditNameModal,
     EditDescriptionModal |-> EditDescriptionModal, EditStatusModal |-> EditStatusModal,
     DatasetName |-> DatasetName, CreateDataset |-> CreateDataset, SharingTab |-> SharingTab,
     ShareDatasetModal |-> ShareDatasetModal, ShareGroupDatasetModal |-> ShareGroupDatasetModal,
     ChangeDatasetRoleModal |-> ChangeDatasetRoleModal,
     ChangeGroupDatasetRoleModal |-> ChangeGroupDatasetRoleModal,
     UserAndRoleTableEntry |-> UserAndRoleTableEntry,
     GroupAndRoleTableEntry |-> GroupAndRoleTableEntry,
     UploadFileDragAndDrop |-> UploadFileDragAndDrop, UpdateFile |-> UpdateFile,
     UpdateFileInTable |-> UpdateFileInTable,
     FileActionsMenu |-> FileActionsMenu, File |-> File, PublicFile |-> PublicFile,
     VisualizationCard |-> VisualizationCard, PublicVisualizationCard |-> PublicVisualizationCard,
     DatasetVisualization |-> DatasetVisualization, FileVisualization |-> FileVisualization,
     PublicDatasetVisualization |-> PublicDatasetVisualization,
     PublicFileVisualization |-> PublicFileVisualization]
DatasetParts ==
    <<"FilesTable", "UpdateFileInTable", "FileMenu", "FolderMenu", "EditFolderName", "EditDatasetMetadata",
      "DatasetMetadata",
      "DatasetListenerMetadata", "SubmittedStatus", "SubmitDatasetExtraction", "ListenersTab",
      "StatusInTab", "DatasetJobs", "DatasetHistoryTab",
      "DatasetVisualization", "ChangeDatasetRoleModal", "ChangeGroupDatasetRoleModal",
      "UserAndRoleTableEntry", "GroupAndRoleTableEntry", "SharingTab", "DatasetVersions", "EditLicenseModal",
      "UploadFileDragAndDrop", "CreateFolder", "NewMenu", "ShareDatasetModal", "ShareGroupDatasetModal",
      "ShareMenu", "EditNameModal", "EditDescriptionModal", "EditStatusModal", "DatasetName", "OtherMenu">>
FileParts ==
    <<"EditFileMetadata", "FileMetadata", "FileListenerMetadata", "SubmittedStatus", "SubmitFileExtraction",
      "ListenersTab", "StatusInTab", "FileJobs", "FileHistoryTab", "FileVisualization", "VisualizationCard",
      "UpdateFile", "FileActionsMenu">>
PrivatePages ==
    [Explore |-> <<>>, GroupList |-> <<"CreateGroup", "DeleteGroupModal">>,
     Group |-> <<"AddMemberModal", "MembersTableUserEntry", "MembersTable", "EditGroupName", "EditGroupDescription",
                 "DeleteGroupModal">>,
     ManageUsers |-> <<>>, Profile |-> <<>>, ApiKeys |-> <<"CreateApiKeyModal">>, AllListeners |-> <<>>,
     FeedList |-> <<"CreateFeedModal", "DeleteFeedModal">>, FeedEntry |-> <<"EditFeedModal", "DeleteFeedModal">>,
     ExtractionHistory |-> <<"ExtractorStatus", "ExtractionJobs">>,
     MetadataDefinitions |-> <<"CreateMetadataDefinition", "DeleteMetadataDefinitionModal">>,
     MetadataDefinitionEntry |-> <<"EditMetadataDefinitionModal", "DeleteMetadataDefinitionModal">>,
     Dataset |-> DatasetParts, File |-> FileParts, CreateDataset |-> <<"CreateMetadata">>]
PublicPages ==
    [Public |-> <<"Public">>,
     PublicDataset |-> <<"PublicFilesTable", "PublicDatasetMetadata", "PublicDatasetListenerMetadata",
                         "PublicDatasetVisualization", "PublicDatasetVersions", "PublicDataset">>,
     PublicFile |-> <<"PublicFileMetadata", "PublicFileListenerMetadata", "PublicFileVisualization",
                      "PublicVisualizationCard", "PublicFile">>]
Routes == [Dataset |-> <<"DatasetRoute">>, File |-> <<"FileRoute">>]
Pages ==
    [p \in DOMAIN PrivatePages |->
        PrivatePages[p] \o <<"Layout", p>> \o (IF p \in DOMAIN Routes THEN Routes[p] ELSE <<>>)]
    @@ PublicPages @@ [Blank |-> <<>>]

Tabs == DatasetTabs \cup FileTabs
\* What is inside a dialog stays until the dialog has faded out.
Dialogs == {"createGroup", "createDefinition", "dragDropFiles", "updateFile", "shareDataset"}
\* What appears with the first value of a slice: the id of the license, the version_num of the file.
FirstOf == [about |-> "licenseId", fileSummary |-> "version", publicFileSummary |-> "version"]

(***************************************************************************)
(* The tables fit the API: what a component passes on is a parameter of    *)
(* the operation, under the name the control has there.                    *)
(***************************************************************************)
ParametersOf(control) ==
    CASE control \in {"filesSkip", "jobsSkip", "versionsSkip"} -> {"skip"}
      [] control = "currJobId" -> {"jobId"}
      [] control \in {"datasetId", "fileId"} -> {control, "resourceId"}
      [] OTHER -> {control}
RangeOf(f) == {f[x] : x \in DOMAIN f}
StepsOf(part) ==
    UNION {RangeOf(run) : run \in {e.run : e \in RangeOf(part.effects)} \cup RangeOf(part.handlers) \cup {part.timer}}
ASSUME AsksAreParameters ==
    \A c \in DOMAIN Components : \A step \in {st \in StepsOf(Components[c]) : st.do = "dispatch"} :
        \A control \in step.with : ParametersOf(control) \cap Operation(Thunks[step.what].op).asks # {}
=============================================================================
