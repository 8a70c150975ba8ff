--------------------------- MODULE ClientActions ---------------------------
(***************************************************************************)
(* The redux half of the web interface, as tables: the fields every action *)
(* carries (types/action.ts), what the reducers do with them               *)
(* (src/frontend/src/reducers) and the thunks that call the server         *)
(* (src/frontend/src/actions). The thunks are JavaScript, unchecked against*)
(* the typed actions: a row says so where a thunk departs from its type.   *)
(***************************************************************************)
EXTENDS ClientApi, FiniteSets

Fields1 ==
    [RECEIVE_FILES_IN_DATASET |-> {"files"}, UPDATE_FILE |-> {"file"},
    DELETE_FILE |-> {"file"}, RECEIVE_DATASET_ABOUT |-> {"about"},
    INCREMENT_DATASET_DOWNLOADS |-> {}, RECEIVE_DATASET_LICENSE |-> {"license"},
    UPDATE_DATASET_LICENSE |-> {"license"}, RECEIVE_DATASET_ROLE |-> {"role"},
    RECEIVE_DATASET_ROLES |-> {"roles"}, RECEIVE_FILE_ROLE |-> {"role"},
    RECEIVE_DATASETS |-> {"datasets"}, RECEIVE_MY_DATASETS |-> {"myDatasets"},
    RECEIVE_PUBLIC_DATASETS |-> {"publicDatasets"},
    RECEIVE_PUBLIC_DATASET_ABOUT |-> {"publicAbout"}, INCREMENT_PUBLIC_DATASET_DOWNLOADS |-> {},
    RECEIVE_FILES_IN_PUBLIC_DATASET |-> {"publicFiles"}, DELETE_DATASET |-> {"dataset"},
    RECEIVE_FILE_EXTRACTED_METADATA |-> {"extractedMetadata"},
    RECEIVE_PUBLIC_FILE_EXTRACTED_METADATA |-> {"publicExtractedMetadata"},
    RECEIVE_FILE_METADATA_JSONLD |-> {"metadataJsonld"},
    RECEIVE_PUBLIC_FILE_METADATA_JSONLD |-> {"publicMetadataJsonld"},
    RECEIVE_PREVIEWS |-> {"previews"}, RECEIVE_PUBLIC_PREVIEWS |-> {"publicPreviews"},
    RECEIVE_VERSIONS |-> {"fileVersions"}, RECEIVE_PUBLIC_VERSIONS |-> {"publicFileVersions"},
    CHANGE_SELECTED_VERSION |-> {"selected_version"},
    CHANGE_PUBLIC_SELECTED_VERSION |-> {"publicSelected_version_num"},
    SET_USER |-> {"Authorization"}, TOGGLE_ADMIN_MODE |-> {"adminMode"},
    GET_ADMIN_MODE_STATUS |-> {"adminMode"}]
Fields2 ==
    [LOGIN_ERROR |-> {"errorMsg"}, LOGOUT |-> {"loggedOut"},
    RESET_LOGOUT |-> {"loggedOut"}, REGISTER_ERROR |-> {"errorMsg"}, REGISTER_USER |-> {},
    LIST_API_KEYS |-> {"apiKeys"}, DELETE_API_KEY |-> {"apiKey"},
    GENERATE_API_KEY |-> {"hashedKey", "apiKey"}, RESET_API_KEY |-> {"apiKey"},
    RECEIVE_USER_PROFILE |-> {"profile"}, CREATE_DATASET |-> {"dataset"},
    UPDATE_DATASET |-> {"about"}, RESET_CREATE_DATASET |-> {}, CREATE_FILE |-> {"file"},
    CREATE_FILES |-> {"files"}, RESET_CREATE_FILE |-> {}, RESET_CREATE_FILES |-> {},
    FAILED |-> {"stack", "reason"}, FAILED_INLINE |-> {"stack", "reason"},
    NOT_FOUND |-> {"stack", "reason"}, NOT_FOUND_INLINE |-> {"stack", "reason"},
    RESET_FAILED |-> {"reason"}, RESET_FAILED_INLINE |-> {"reason"}, FOLDER_ADDED |-> {"folder"},
    RECEIVE_FILE_SUMMARY |-> {"fileSummary"}, INCREMENT_FILE_DOWNLOADS |-> {},
    RECEIVE_PUBLIC_FILE_SUMMARY |-> {"publicFileSummary"}, INCREMENT_PUBLIC_FILE_DOWNLOADS |-> {}]
Fields3 ==
    [RECEIVE_DATASET_METADATA |-> {"metadataList"},
    RECEIVE_PUBLIC_DATASET_METADATA |-> {"publicDatasetMetadataList"},
    RECEIVE_FILE_METADATA |-> {"metadataList"},
    RECEIVE_PUBLIC_FILE_METADATA |-> {"publicFileMetadataList"},
    RECEIVE_FOLDERS_IN_DATASET |-> {"folders"},
    RECEIVE_FOLDERS_IN_PUBLIC_DATASET |-> {"publicFolders"},
    UPDATE_DATASET_METADATA |-> {"metadata"}, UPDATE_FILE_METADATA |-> {"metadata"},
    POST_DATASET_METADATA |-> {"metadata"}, POST_FILE_METADATA |-> {"metadata"},
    RECEIVE_METADATA_DEFINITIONS |-> {"metadataDefinitionList"},
    RECEIVE_PUBLIC_METADATA_DEFINITIONS |-> {"publicMetadataDefinitionList"},
    RECEIVE_METADATA_DEFINITION |-> {"metadataDefinition"},
    SEARCH_METADATA_DEFINITIONS |-> {"metadataDefinitionList"},
    DELETE_METADATA_DEFINITION |-> {"metadataDefinition"},
    EDIT_METADATA_DEFINITION |-> {"metadataDefinition"},
    SAVE_METADATA_DEFINITION |-> {"metadataDefinition"}, RESET_SAVE_METADATA_DEFINITIONS |-> {},
    DOWNLOAD_FILE |-> {"blob"}, RECEIVE_FILE_PRESIGNED_URL |-> {"presignedUrl"},
    RESET_FILE_PRESIGNED_URL |-> {"preSignedUrl"}, DELETE_DATASET_METADATA |-> {"metadata"},
    DELETE_FILE_METADATA |-> {"metadata"}, FOLDER_DELETED |-> {"folder"},
    GET_FOLDER_PATH |-> {"folderPath"}, GET_PUBLIC_FOLDER_PATH |-> {"publicFolderPath"},
    RECEIVE_LISTENERS |-> {"listeners"}, TOGGLE_ACTIVE_FLAG_LISTENER |-> {"listener"},
    SEARCH_LISTENERS |-> {"listeners"}, RECEIVE_LISTENER_CATEGORIES |-> {"categories"}]
Fields4 ==
    [RECEIVE_LISTENER_LABELS |-> {"labels"}, RECEIVE_LISTENER_JOBS |-> {"jobs"},
    SUBMIT_FILE_EXTRACTION |-> {"job_id"}, SUBMIT_DATASET_EXTRACTION |-> {"job_id"},
    FETCH_JOB_SUMMARY |-> {"currJobSummary"}, RESET_JOB_SUMMARY |-> {"currJobSummary"},
    FETCH_JOB_UPDATES |-> {"currJobUpdates"}, RESET_JOB_UPDATES |-> {"currJobUpdates"},
    CREATE_GROUP |-> {"about"}, RESET_CREATE_GROUP |-> {}, UPDATE_GROUP |-> {"about"},
    RECEIVE_GROUPS |-> {"groups"}, SEARCH_GROUPS |-> {"groups"}, DELETE_GROUP |-> {"about"},
    RECEIVE_GROUP_ABOUT |-> {"about"}, RECEIVE_GROUP_ROLE |-> {"role"},
    DELETE_GROUP_MEMBER |-> {"about"}, ADD_GROUP_MEMBER |-> {"about"}, LIST_USERS |-> {"users"},
    PREFIX_SEARCH_USERS |-> {"users"}, ASSIGN_GROUP_MEMBER_ROLE |-> {"about"},
    GET_VIS_DATA |-> {"visData"}, GET_VIS_CONFIG |-> {"visConfig"}, DOWNLOAD_VIS_DATA |-> {"blob"},
    GET_VIS_DATA_PRESIGNED_URL |-> {"presignedUrl"},
    RESET_VIS_DATA_PRESIGNED_URL |-> {"preSignedUrl"}, SET_ADMIN |-> {"profile"},
    REVOKE_ADMIN |-> {"profile"}, SET_READONLY |-> {"profile"}, ENABLE_READONLY |-> {"profile"}]
Fields5 ==
    [DISABLE_READONLY |-> {"profile"}, GET_PUBLIC_VIS_DATA |-> {"publicVisData"},
    GET_PUBLIC_VIS_CONFIG |-> {"publicVisConfig"}, DOWNLOAD_PUBLIC_VIS_DATA |-> {"publicBlob"},
    GET_PUBLIC_VIS_DATA_PRESIGNED_URL |-> {"publicPresignedUrl"},
    RESET_PUBLIC_VIS_DATA_PRESIGNED_URL |-> {"publicPreSignedUrl"},
    RECEIVE_FOLDERS_FILES_IN_DATASET |-> {"foldersAndFiles"},
    RECEIVE_PUBLIC_FOLDERS_FILES_IN_DATASET |-> {"publicFoldersAndFiles"},
    FOLDER_UPDATED |-> {"folder"}, FREEZE_DATASET |-> {"newFrozenDataset"},
    GET_FREEZE_DATASET_LATEST_VERSION_NUM |-> {"latestFrozenVersionNum"},
    GET_FREEZE_DATASET |-> {"frozenDataset"}, DELETE_FREEZE_DATASET |-> {"frozenDataset"},
    GET_FREEZE_DATASETS |-> {"frozenDatasets"},
    GET_PUBLIC_FREEZE_DATASETS |-> {"publicFrozenDatasets"}, CREATE_FEED |-> {"feed"},
    EDIT_FEED |-> {"feed"}, RECEIVE_FEEDS |-> {"feeds"}, RECEIVE_FEED |-> {"feed"},
    DELETE_FEED |-> {"feed"}]
ActionFields == Fields1 @@ Fields2 @@ Fields3 @@ Fields4 @@ Fields5

(***************************************************************************)
(* Reducers: for each action, what happens to which slice of the store,    *)
(* and the field of the action it is taken from.                           *)
(***************************************************************************)
Does(how, name, field) == {[how |-> how, slice |-> name, field |-> field]}
Sets(name, field) == Does("put", name, field)
Puts(field) == Sets(field, field)
Maps(name, field) == Does("map", name, field)          \* replaces the item of the same id
Filters(name, field) == Does("filter", name, field)    \* removes the item of that id
Appends(name, field) == Does("append", name, field)
Clears(name) == Does("clear", name, "")
Raises(name) == Does("raise", name, "")                  \* puts true
Counts(name) == Does("increment", name, "")            \* one download more
Nothing == {}

DatasetReducer1 ==
    [RECEIVE_FOLDERS_FILES_IN_DATASET |-> Puts("foldersAndFiles"),
     DELETE_FILE |-> Sets("deletedFile", "file"),
     CREATE_FILE |-> Sets("newFile", "file"), CREATE_FILES |-> Sets("newFiles", "files"),
     RESET_CREATE_FILE |-> Clears("newFile"), RESET_CREATE_FILES |-> Clears("newFiles"),
     SET_DATASET_GROUP_ROLE |-> Nothing, SET_DATASET_USER_ROLE |-> Nothing,
     REMOVE_DATASET_GROUP_ROLE |-> Nothing, REMOVE_DATASET_USER_ROLE |-> Nothing,
     UPDATE_FILE |-> Maps("foldersAndFiles", "file"),
     RECEIVE_DATASET_ABOUT |-> Puts("about"), INCREMENT_DATASET_DOWNLOADS |-> Counts("about"),
     RECEIVE_DATASET_LICENSE |-> Puts("license"), UPDATE_DATASET_LICENSE |-> Puts("license")]
DatasetReducer2 ==
    [RECEIVE_DATASET_ROLE |-> Sets("datasetRole", "role"), RECEIVE_DATASET_ROLES |-> Puts("roles"),
     UPDATE_DATASET |-> Puts("about"),
     FREEZE_DATASET |-> Puts("newFrozenDataset")
                        \cup Sets("latestFrozenVersionNum", "newFrozenDataset"),
     GET_FREEZE_DATASET |-> Puts("frozenDataset"),
     DELETE_FREEZE_DATASET |-> Sets("deletedFrozenDataset", "frozenDataset"),
     GET_FREEZE_DATASETS |-> Puts("frozenDatasets"),
     RECEIVE_DATASETS |-> Puts("datasets"), RECEIVE_MY_DATASETS |-> Puts("myDatasets"),
     CREATE_DATASET |-> Sets("newDataset", "dataset"), RESET_CREATE_DATASET |-> Clears("newDataset"),
     DELETE_DATASET |-> Sets("deletedDataset", "dataset"),
     FOLDER_DELETED |-> Sets("deletedFolder", "folder"), FOLDER_ADDED |-> Sets("newFolder", "folder"),
     FOLDER_UPDATED |-> Maps("foldersAndFiles", "folder")]
ErrorReducer ==
    [FAILED |-> Puts("reason"), FAILED_INLINE |-> Sets("reasonInline", "reason"),
     NOT_FOUND |-> Puts("reason"), NOT_FOUND_INLINE |-> Sets("reasonInline", "reason"),
     NOT_AUTHORIZED |-> Puts("reason"), RESET_FAILED |-> Clears("reason"),
     RESET_FAILED_INLINE |-> Clears("reasonInline"), LOGOUT |-> Raises("loggedOut"),
     RESET_LOGOUT |-> Clears("loggedOut")]
FeedsReducer ==
    [CREATE_FEED |-> Appends("feeds", "feed"), EDIT_FEED |-> Puts("feed") \cup Maps("feeds", "feed"),
     RECEIVE_FEED |-> Puts("feed"), RECEIVE_FEEDS |-> Puts("feeds"),
     DELETE_FEED |-> Sets("deletedFeed", "feed")]
FileReducer ==
    [RECEIVE_FILE_SUMMARY |-> Puts("fileSummary"), INCREMENT_FILE_DOWNLOADS |-> Counts("fileSummary"),
     RECEIVE_FILE_ROLE |-> Sets("fileRole", "role"),
     RECEIVE_FILE_EXTRACTED_METADATA |-> Puts("extractedMetadata"),
     RECEIVE_FILE_METADATA_JSONLD |-> Puts("metadataJsonld"), RECEIVE_PREVIEWS |-> Puts("previews"),
     CHANGE_SELECTED_VERSION |-> Sets("selected_version_num", "selected_version"),
     RECEIVE_VERSIONS |-> Puts("fileVersions"), DOWNLOAD_FILE |-> Puts("blob"),
     RECEIVE_FILE_PRESIGNED_URL |-> Puts("presignedUrl"),
     RESET_FILE_PRESIGNED_URL |-> Clears("presignedUrl")]
FolderReducer ==
    [GET_FOLDER_PATH |-> Puts("folderPath"), GET_PUBLIC_FOLDER_PATH |-> Puts("publicFolderPath"),
     RECEIVE_FOLDERS_IN_PUBLIC_DATASET |-> Puts("publicFolders")]
GroupReducer ==
    [CREATE_GROUP |-> Sets("newGroup", "about"), RESET_CREATE_GROUP |-> Clears("newGroup"),
     RECEIVE_GROUPS |-> Puts("groups"), SEARCH_GROUPS |-> Puts("groups"),
     RECEIVE_GROUP_ABOUT |-> Sets("groupAbout", "about"), RECEIVE_GROUP_ROLE |-> Puts("role"),
     DELETE_GROUP_MEMBER |-> Sets("deletedGroupMember", "about"),
     UPDATE_GROUP |-> Sets("groupAbout", "about"), ADD_GROUP_MEMBER |-> Sets("groupAbout", "about"),
     ASSIGN_GROUP_MEMBER_ROLE |-> Sets("groupAbout", "about"),
     DELETE_GROUP |-> Sets("deletedGroup", "about"),
     LIST_USERS |-> Puts("users"), PREFIX_SEARCH_USERS |-> Puts("users"),
     SET_ADMIN |-> Maps("users", "profile"), REVOKE_ADMIN |-> Maps("users", "profile"),
     ENABLE_READONLY |-> Maps("users", "profile"), DISABLE_READONLY |-> Maps("users", "profile")]
ListenersReducer ==
    [RECEIVE_LISTENERS |-> Puts("listeners"), SEARCH_LISTENERS |-> Puts("listeners"),
     TOGGLE_ACTIVE_FLAG_LISTENER |-> Maps("listeners", "listener"),
     RECEIVE_LISTENER_CATEGORIES |-> Puts("categories"), RECEIVE_LISTENER_LABELS |-> Puts("labels"),
     RECEIVE_LISTENER_JOBS |-> Puts("jobs"), FETCH_JOB_SUMMARY |-> Puts("currJobSummary"),
     RESET_JOB_SUMMARY |-> Clears("currJobSummary"), FETCH_JOB_UPDATES |-> Puts("currJobUpdates"),
     RESET_JOB_UPDATES |-> Puts("currJobUpdates"),
     SUBMIT_DATASET_EXTRACTION |-> Sets("currJobId", "job_id"),
     SUBMIT_FILE_EXTRACTION |-> Sets("currJobId", "job_id")]
MetadataReducer ==
    [RECEIVE_METADATA_DEFINITIONS |-> Puts("metadataDefinitionList"),
     RECEIVE_PUBLIC_METADATA_DEFINITIONS |-> Puts("publicMetadataDefinitionList"),
     RECEIVE_METADATA_DEFINITION |-> Puts("metadataDefinition"),
     SEARCH_METADATA_DEFINITIONS |-> Puts("metadataDefinitionList"),
     DELETE_METADATA_DEFINITION |-> Sets("deletedMetadataDefinition", "metadataDefinition"),
     SAVE_METADATA_DEFINITION |-> Sets("newMetadataDefinition", "metadataDefinition"),
     EDIT_METADATA_DEFINITION |-> Puts("metadataDefinition"),
     RESET_SAVE_METADATA_DEFINITIONS |-> Clears("newMetadataDefinition"),
     RECEIVE_DATASET_METADATA |-> Sets("datasetMetadataList", "metadataList"),
     RECEIVE_PUBLIC_DATASET_METADATA |-> Puts("publicDatasetMetadataList"),
     RECEIVE_FILE_METADATA |-> Sets("fileMetadataList", "metadataList"),
     RECEIVE_PUBLIC_FILE_METADATA |-> Puts("publicFileMetadataList"),
     UPDATE_DATASET_METADATA |-> Maps("datasetMetadataList", "metadata"),
     DELETE_DATASET_METADATA |-> Filters("datasetMetadataList", "metadata"),
     POST_DATASET_METADATA |-> Appends("datasetMetadataList", "metadata"),
     UPDATE_FILE_METADATA |-> Maps("fileMetadataList", "metadata"),
     DELETE_FILE_METADATA |-> Filters("fileMetadataList", "metadata"),
     POST_FILE_METADATA |-> Appends("fileMetadataList", "metadata")]
PublicDatasetReducer ==
    [RECEIVE_PUBLIC_FOLDERS_FILES_IN_DATASET |-> Puts("publicFoldersAndFiles"),
     RECEIVE_FILES_IN_PUBLIC_DATASET |-> Puts("publicFiles"),
     RECEIVE_PUBLIC_DATASET_ABOUT |-> Puts("publicAbout"),
     INCREMENT_PUBLIC_DATASET_DOWNLOADS |-> Counts("publicAbout"),
     RECEIVE_PUBLIC_DATASETS |-> Puts("publicDatasets"),
     GET_PUBLIC_FREEZE_DATASETS |-> Puts("publicFrozenDatasets")]
PublicFileReducer ==
    [RECEIVE_PUBLIC_FILE_SUMMARY |-> Puts("publicFileSummary"),
     INCREMENT_PUBLIC_FILE_DOWNLOADS |-> Counts("publicFileSummary"),
     RECEIVE_PUBLIC_PREVIEWS |-> Puts("publicPreviews"),
     CHANGE_PUBLIC_SELECTED_VERSION |->
         Sets("publicSelected_version_num", "publicSelected_version_num"),
     RECEIVE_PUBLIC_VERSIONS |-> Puts("publicFileVersions"), DOWNLOAD_PUBLIC_FILE |-> Puts("publicBlob")]
VisualizationReducer ==
    [GET_VIS_DATA |-> Puts("visData"), GET_VIS_CONFIG |-> Puts("visConfig"),
     DOWNLOAD_VIS_DATA |-> Sets("visBlob", "blob"),
     GET_VIS_DATA_PRESIGNED_URL |-> Sets("visPresignedUrl", "presignedUrl"),
     RESET_VIS_DATA_PRESIGNED_URL |-> Clears("visPresignedUrl")]
PublicVisualizationReducer ==
    [GET_PUBLIC_VIS_DATA |-> Puts("publicVisData"), GET_PUBLIC_VIS_CONFIG |-> Puts("publicVisConfig"),
     DOWNLOAD_PUBLIC_VIS_DATA |-> Sets("publicVisBlob", "publicBlob"),
     GET_PUBLIC_VIS_DATA_PRESIGNED_URL |-> Puts("publicPresignedUrl"),
     RESET_PUBLIC_VIS_DATA_PRESIGNED_URL |-> Clears("publicPresignedUrl")]
UserReducer ==
    [TOGGLE_ADMIN_MODE |-> Puts("adminMode"), GET_ADMIN_MODE_STATUS |-> Puts("adminMode"),
     SET_USER |-> Puts("Authorization"), RECEIVE_USER_PROFILE |-> Puts("profile"),
     LOGIN_ERROR |-> Puts("errorMsg") \cup Clears("Authorization"), REGISTER_USER |-> Nothing,
     REGISTER_ERROR |-> Puts("errorMsg"), LIST_API_KEYS |-> Puts("apiKeys"),
     DELETE_API_KEY |-> Sets("deletedApiKey", "apiKey"), GENERATE_API_KEY |-> Puts("hashedKey"),
     RESET_API_KEY |-> Clears("hashedKey")]
\* reducers/index.ts: combineReducers; an action no reducer has a case for changes nothing.
Reducers ==
    DatasetReducer1 @@ DatasetReducer2 @@ ErrorReducer @@ FeedsReducer @@ FileReducer
    @@ FolderReducer @@ GroupReducer @@ ListenersReducer @@ MetadataReducer @@ PublicDatasetReducer
    @@ PublicFileReducer @@ VisualizationReducer @@ PublicVisualizationReducer @@ UserReducer
EffectsOf(type) == IF type \in DOMAIN Reducers THEN Reducers[type] ELSE Nothing
Slices == {e.slice : e \in UNION {Reducers[type] : type \in DOMAIN Reducers}}

(***************************************************************************)
(* Thunks. via: who handles a failure; op: what is asked of the server;    *)
(* type: the action the answer is dispatched in; again: the thunk that is  *)
(* dispatched after a 401 and a refresh ("same": this one), and the        *)
(* parameters it loses there.                                              *)
(***************************************************************************)
\* What the thunks ask without the generated client: by fetch(), or not at all.
AskedByHand ==
    [aboutFile |-> Get({"fileId"}), fileVersion |-> Get({"fileId", "version"}),
     visualization |-> Get({"visualizationId"}), nothing |-> [method |-> "none", asks |-> {}]]
Operation(op) == (Services @@ [ByHand |-> AskedByHand])[op[1]][op[2]]
Thunk(via, op, type) == [via |-> via, op |-> op, type |-> type, again |-> "same", loses |-> {}]
Modal(op, type) == Thunk("handleErrors", op, type)
Inline(op, type) == Thunk("handleErrorsInline", op, type)
Auth(op, type) == Thunk("handleErrorsAuthorization", op, type)
Endless(op, type) == Thunk("itself", op, type)          \* dispatches itself on any failure
Download(what, type) == Thunk("downloads", <<"ByHand", what>>, type)   \* handleErrors, but not of a lost call
ByHand(what, type) == Modal(<<"ByHand", what>>, type)
Local(type) == Thunk("nobody", <<"ByHand", "nothing">>, type)
Losing(thunk, asks) == [thunk EXCEPT !.loses = asks]
Instead(thunk, other) == [thunk EXCEPT !.again = other]

AuthorizationThunks ==
    [fetchDatasetRole |-> Auth(<<"Authorization", "getDatasetRole">>, "RECEIVE_DATASET_ROLE"),
     fetchFileRole |-> Auth(<<"Authorization", "getFileRole">>, "RECEIVE_FILE_ROLE"),
     fetchGroupRole |-> Auth(<<"Authorization", "getGroupRole">>, "RECEIVE_GROUP_ROLE")]
DatasetThunks1 ==
    [setDatasetGroupRole |-> Modal(<<"Authorization", "setDatasetGroupRole">>, "SET_DATASET_GROUP_ROLE"),
     setDatasetUserRole |-> Inline(<<"Authorization", "setDatasetUserRole">>, "SET_DATASET_USER_ROLE"),
     removeDatasetGroupRole |->
         Modal(<<"Authorization", "removeDatasetGroupRole">>, "REMOVE_DATASET_GROUP_ROLE"),
     removeDatasetUserRole |->
         Modal(<<"Authorization", "removeDatasetUserRole">>, "REMOVE_DATASET_GROUP_ROLE"),
     fetchFoldersFilesInDataset |->
         Modal(<<"Datasets", "getDatasetFoldersAndFiles">>, "RECEIVE_FOLDERS_FILES_IN_DATASET")]
DatasetThunks2 ==
    [submitDatasetExtractionAction |-> Modal(<<"Datasets", "getDatasetExtract">>, "SUBMIT_DATASET_EXTRACTION"),
     updateDataset |-> Modal(<<"Datasets", "patchDataset">>, "UPDATE_DATASET"),
     freezeDataset |-> Auth(<<"Datasets", "freezeDataset">>, "FREEZE_DATASET"),
     getFreezeDatasetLatest |-> Auth(<<"Datasets", "getFreezeDatasetLastestVersionNum">>,
                                     "GET_FREEZE_DATASET_LATEST_VERSION_NUM"),
     getFreezeDataset |-> Auth(<<"Datasets", "getFreezeDatasetVersion">>, "GET_FREEZE_DATASET")]
DatasetThunks3 ==
    [getFreezeDatasets |-> Auth(<<"Datasets", "getFreezeDatasets">>, "GET_FREEZE_DATASETS"),
     fetchDatasetAbout |-> Modal(<<"Datasets", "getDataset">>, "RECEIVE_DATASET_ABOUT"),
     deleteFreezeDataset |-> Auth(<<"Datasets", "deleteFreezeDatasetVersion">>, "DELETE_FREEZE_DATASET"),
     fetchDatasetLicense |-> Modal(<<"Licenses", "getLicense">>, "RECEIVE_DATASET_LICENSE"),
     updateDatasetLicense |-> Modal(<<"Licenses", "editLicense">>, "UPDATE_DATASET_LICENSE"),
     fetchDatasets |-> Modal(<<"Datasets", "getDatasets">>, "RECEIVE_DATASETS")]
DatasetThunks4 ==
    [fetchMyDatasets |-> Modal(<<"Datasets", "getDatasets">>, "RECEIVE_MY_DATASETS"),
     datasetCreated |-> Modal(<<"Datasets", "saveDataset">>, "CREATE_DATASET"),
     resetDatsetCreated |-> Local("RESET_CREATE_DATASET"),
     datasetDeleted |-> Modal(<<"Datasets", "deleteDataset">>, "DELETE_DATASET"),
     folderAdded |-> Modal(<<"Datasets", "addFolder">>, "FOLDER_ADDED")]
DatasetThunks5 ==
    [updateFolder |-> Modal(<<"Datasets", "patchFolder">>, "FOLDER_UPDATED"),
     getFolder |-> Modal(<<"Datasets", "getFolder">>, "GET_FOLDER"),
     fetchDatasetRoles |-> Auth(<<"Authorization", "getDatasetRoles">>, "RECEIVE_DATASET_ROLES")]
FileThunks1 ==
    [fetchFileExtractedMetadata |-> ByHand("aboutFile", "RECEIVE_FILE_EXTRACTED_METADATA"),
     fetchFileSummary |-> Modal(<<"Files", "getFileSummary">>, "RECEIVE_FILE_SUMMARY"),
     fetchFileMetadataJsonld |-> ByHand("aboutFile", "RECEIVE_FILE_METADATA_JSONLD"),
     fetchFilePreviews |-> ByHand("aboutFile", "RECEIVE_PREVIEWS"),
     fileDeleted |-> Modal(<<"Files", "deleteFile">>, "DELETE_FILE"),
     createFile |-> Modal(<<"Datasets", "saveFile">>, "CREATE_FILE")]
FileThunks2 ==
    [createFiles |-> Modal(<<"Datasets", "saveFiles">>, "CREATE_FILES"),
     resetFileCreated |-> Local("RESET_CREATE_FILE"), resetFilesCreated |-> Local("RESET_CREATE_FILES"),
     changeSelectedVersion |-> Local("CHANGE_SELECTED_VERSION"),
     updateFile |-> Modal(<<"Files", "updateFile">>, "UPDATE_FILE"),
     fetchFileVersions |-> Modal(<<"Files", "getFileVersions">>, "RECEIVE_VERSIONS")]
FileThunks3 ==
    [fileDownloaded |-> Download("fileVersion", "DOWNLOAD_FILE"),
     generateFilePresignedUrl |-> Modal(<<"Files", "downloadFileUrl">>, "RECEIVE_FILE_PRESIGNED_URL"),
     \* the retry passes a null before datasetId: the dataset's id arrives as the request body
     submitFileExtractionAction |->
         Losing(Modal(<<"Files", "postFileExtract">>, "SUBMIT_FILE_EXTRACTION"), {"requestBody"})]
\* components import these two from folder.js; the namesake in dataset.js also clears the path
FolderThunks ==
    [fetchFolderPath |-> Modal(<<"Folders", "downloadFolder">>, "GET_FOLDER_PATH"),
     fetchPublicFolderPath |-> Modal(<<"PublicFolders", "downloadFolder">>, "GET_PUBLIC_FOLDER_PATH"),
     folderDeleted |-> Modal(<<"Datasets", "deleteFolder">>, "FOLDER_DELETED")]
GroupThunks1 ==
    [createGroup |-> Modal(<<"Groups", "saveGroup">>, "CREATE_GROUP"),
     resetGroupCreation |-> Local("RESET_CREATE_GROUP"),
     fetchGroups |-> Modal(<<"Groups", "getGroups">>, "RECEIVE_GROUPS"),
     deleteGroup |-> Modal(<<"Groups", "deleteGroup">>, "DELETE_GROUP"),
     searchGroups |-> Modal(<<"Groups", "searchGroup">>, "SEARCH_GROUPS"),
     fetchGroupAbout |-> Modal(<<"Groups", "getGroup">>, "RECEIVE_GROUP_ABOUT"),
     deleteGroupMember |-> Modal(<<"Groups", "removeMember">>, "DELETE_GROUP_MEMBER")]
GroupThunks2 ==
    [addGroupMember |-> Inline(<<"Groups", "addMember">>, "ADD_GROUP_MEMBER"),
     assignGroupMemberRole |-> Modal(<<"Groups", "updateMember">>, "ASSIGN_GROUP_MEMBER_ROLE"),
     updateGroup |-> Modal(<<"Groups", "editGroup">>, "UPDATE_GROUP")]
ListenerThunks1 ==
    [fetchListeners |-> Losing(Modal(<<"Listeners", "getListeners">>, "RECEIVE_LISTENERS"), {"all"}),
     enableListener |-> Modal(<<"Listeners", "enableListener">>, "TOGGLE_ACTIVE_FLAG_LISTENER"),
     disableListener |-> Modal(<<"Listeners", "disableListener">>, "TOGGLE_ACTIVE_FLAG_LISTENER"),
     queryListeners |-> Modal(<<"Listeners", "searchListeners">>, "SEARCH_LISTENERS")]
ListenerThunks2 ==
    [fetchListenerCategories |-> Modal(<<"Listeners", "listCategories">>, "RECEIVE_LISTENER_CATEGORIES"),
     fetchListenerLabels |-> Modal(<<"Listeners", "listDefaultLabels">>, "RECEIVE_LISTENER_LABELS"),
     fetchListenerJobs |->
         Instead(Modal(<<"Jobs", "getAllJobSummary">>, "RECEIVE_LISTENER_JOBS"), "fetchListenerLabels"),
     fetchJobSummary |-> Instead(Modal(<<"Jobs", "getJobSummary">>, "FETCH_JOB_SUMMARY"), "fetchListenerLabels"),
     fetchJobUpdates |-> Instead(Modal(<<"Jobs", "getJobUpdates">>, "FETCH_JOB_UPDATES"), "fetchListenerLabels"),
     resetJobSummary |-> Local("RESET_JOB_SUMMARY"), resetJobUpdates |-> Local("RESET_JOB_UPDATES")]
ListenerThunks3 ==
    [fetchFeeds |->                                      \* the retry passes skip as the name
         Losing(Modal(<<"Feeds", "getFeeds">>, "RECEIVE_FEEDS"), {"searchTerm", "skip", "limit"}),
     fetchFeed |-> Modal(<<"Feeds", "getFeed">>, "RECEIVE_FEED"),
     createFeed |-> Modal(<<"Feeds", "saveFeed">>, "CREATE_FEED"),
     updateFeed |-> Modal(<<"Feeds", "editFeed">>, "EDIT_FEED"),
     deleteFeed |-> Modal(<<"Feeds", "deleteFeed">>, "DELETE_FEED")]
MetadataThunks1 ==
    [fetchPublicMetadataDefinitions |->
         Modal(<<"PublicMetadata", "getMetadataDefinitionList">>, "RECEIVE_PUBLIC_METADATA_DEFINITIONS"),
     fetchMetadataDefinitions |->
         Modal(<<"Metadata", "getMetadataDefinitionList">>, "RECEIVE_METADATA_DEFINITIONS"),
     fetchMetadataDefinition |-> Modal(<<"Metadata", "getMetadataDefinition">>, "RECEIVE_METADATA_DEFINITION"),
     postMetadataDefinition |-> Modal(<<"Metadata", "saveMetadataDefinition">>, "SAVE_METADATA_DEFINITION"),
     updateMetadataDefinition |->
         Modal(<<"Metadata", "updateMetadataDefinition">>, "EDIT_METADATA_DEFINITION")]
MetadataThunks2 ==
    [resetPostMetadataDefinitions |-> Local("RESET_SAVE_METADATA_DEFINITIONS"),
     deleteMetadataDefinition |->
         Modal(<<"Metadata", "deleteMetadataDefinition">>, "DELETE_METADATA_DEFINITION"),
     searchMetadataDefinitions |->
         Modal(<<"Metadata", "searchMetadataDefinition">>, "SEARCH_METADATA_DEFINITIONS"),
     fetchDatasetMetadata |-> Modal(<<"Metadata", "getDatasetMetadata">>, "RECEIVE_DATASET_METADATA"),
     fetchPublicDatasetMetadata |->
         Modal(<<"PublicDatasets", "getDatasetMetadata">>, "RECEIVE_PUBLIC_DATASET_METADATA"),
     fetchFileMetadata |-> Modal(<<"Metadata", "getFileMetadata">>, "RECEIVE_FILE_METADATA"),
     fetchPublicFileMetadata |->
         Modal(<<"PublicFiles", "getFileMetadata">>, "RECEIVE_PUBLIC_FILE_METADATA")]
MetadataThunks3 ==
    [postDatasetMetadata |-> Modal(<<"Metadata", "addDatasetMetadata">>, "POST_DATASET_METADATA"),
     postFileMetadata |-> Modal(<<"Metadata", "addFileMetadata">>, "POST_FILE_METADATA"),
     deleteDatasetMetadata |-> Modal(<<"Metadata", "deleteDatasetMetadata">>, "DELETE_DATASET_METADATA"),
     deleteFileMetadata |-> Modal(<<"Metadata", "deleteFileMetadata">>, "DELETE_FILE_METADATA"),
     patchDatasetMetadata |-> Modal(<<"Metadata", "updateDatasetMetadata">>, "UPDATE_DATASET_METADATA"),
     patchFileMetadata |-> Modal(<<"Metadata", "updateFileMetadata">>, "UPDATE_FILE_METADATA")]
PublicDatasetThunks1 ==
    [fetchFilesInPublicDataset |->
         Modal(<<"PublicDatasets", "getDatasetFiles">>, "RECEIVE_FILES_IN_PUBLIC_DATASET"),
     fetchFoldersInPublicDataset |->
         Modal(<<"PublicDatasets", "getDatasetFolders">>, "RECEIVE_FOLDERS_IN_PUBLIC_DATASET"),
     fetchPublicDatasetAbout |-> Modal(<<"PublicDatasets", "getDataset">>, "RECEIVE_PUBLIC_DATASET_ABOUT"),
     fetchPublicDatasets |-> Modal(<<"PublicDatasets", "getDatasets">>, "RECEIVE_PUBLIC_DATASETS")]
PublicDatasetThunks2 ==
    [fetchPublicFoldersFilesInDataset |-> Modal(<<"PublicDatasets", "getDatasetFoldersAndFiles">>,
                                                "RECEIVE_PUBLIC_FOLDERS_FILES_IN_DATASET"),
     getPublicFreezeDatasets |-> Auth(<<"PublicDatasets", "getFreezeDatasets">>, "GET_PUBLIC_FREEZE_DATASETS")]
PublicFileThunks1 ==
    [fetchPublicFileSummary |-> Modal(<<"PublicFiles", "getFileSummary">>, "RECEIVE_PUBLIC_FILE_SUMMARY"),
     fetchPublicFilePreviews |-> ByHand("aboutFile", "RECEIVE_PUBLIC_PREVIEWS"),
     fetchPublicFileVersions |->
         Losing(Modal(<<"PublicFiles", "getFileVersions">>, "RECEIVE_PUBLIC_VERSIONS"), {"skip", "limit"}),
     changePublicSelectedVersion |->
         Local("CHANGE_PUBLIC_SELECTED_VERSION")]
PublicFileThunks2 ==
    [filePublicDownloaded |->                            \* an action types/action.ts does not declare
         Download("fileVersion", "DOWNLOAD_PUBLIC_FILE")]
UserThunks1 ==
    [fetchAllUsers |-> Endless(<<"Users", "getUsers">>, "LIST_USERS"),
     toggleAdminMode |-> Endless(<<"Login", "setAdminMode">>, "TOGGLE_ADMIN_MODE"),
     getAdminModeStatus |-> Endless(<<"Login", "getAdminMode">>, "GET_ADMIN_MODE_STATUS"),
     prefixSearchAllUsers |-> Endless(<<"Users", "searchUsersPrefix">>, "PREFIX_SEARCH_USERS"),
     listApiKeys |-> Modal(<<"Users", "getUserApiKeys">>, "LIST_API_KEYS"),
     generateApiKey |-> Modal(<<"Users", "generateUserApiKey">>, "GENERATE_API_KEY")]
UserThunks2 ==
    [resetApiKey |-> Local("RESET_API_KEY"),
     deleteApiKey |-> Modal(<<"Users", "deleteUserApiKey">>, "DELETE_API_KEY"),
     fetchUserProfile |-> Modal(<<"Users", "getProfile">>, "RECEIVE_USER_PROFILE"),
     setAdmin |-> Modal(<<"Login", "setAdmin">>, "SET_ADMIN"),
     revokeAdmin |-> Modal(<<"Login", "revokeAdmin">>, "REVOKE_ADMIN"),
     enableReadOnly |-> Modal(<<"Login", "enableReadonlyUser">>, "ENABLE_READONLY"),
     disableReadOnly |-> Modal(<<"Login", "disableReadonlyUser">>, "DISABLE_READONLY")]
VisualizationThunks ==
    [getVisConfig |-> Modal(<<"Visualizations", "getResourceVisconfig">>, "GET_VIS_CONFIG"),
     getVisData |-> Modal(<<"Visualizations", "getVisualization">>, "GET_VIS_DATA"),
     downloadVisData |-> Download("visualization", "DOWNLOAD_VIS_DATA"),
     generateVisPresignedUrl |->
         Modal(<<"Visualizations", "downloadVisualizationUrl">>, "GET_VIS_DATA_PRESIGNED_URL")]
PublicVisualizationThunks ==
    [getPublicVisConfig |-> Modal(<<"PublicVisualizations", "getResourceVisconfig">>, "GET_PUBLIC_VIS_CONFIG"),
     getPublicVisData |-> Modal(<<"PublicVisualizations", "getVisualization">>, "GET_PUBLIC_VIS_DATA"),
     downloadPublicVisData |-> Download("visualization", "DOWNLOAD_PUBLIC_VIS_DATA"),
     generatePublicVisPresignedUrl |-> Modal(<<"PublicVisualizations", "downloadVisualizationUrl">>,
                                             "GET_PUBLIC_VIS_DATA_PRESIGNED_URL")]
Thunks ==
    AuthorizationThunks @@ DatasetThunks1 @@ DatasetThunks2 @@ DatasetThunks3 @@ DatasetThunks4
    @@ DatasetThunks5 @@ FileThunks1 @@ FileThunks2 @@ FileThunks3 @@ FolderThunks
    @@ GroupThunks1 @@ GroupThunks2 @@ ListenerThunks1 @@ ListenerThunks2 @@ ListenerThunks3
    @@ MetadataThunks1 @@ MetadataThunks2 @@ MetadataThunks3 @@ PublicDatasetThunks1
    @@ PublicDatasetThunks2 @@ PublicFileThunks1 @@ PublicFileThunks2 @@ UserThunks1 @@ UserThunks2
    @@ VisualizationThunks @@ PublicVisualizationThunks

\* What its action carries: the fields of its type, but for the thunks that name them otherwise.
OtherFields ==
    [fetchMyDatasets |-> {"datasets"}, changeSelectedVersion |-> {"version"},
     changePublicSelectedVersion |-> {"publicVersion"}, filePublicDownloaded |-> {"publicBlob"}]
Carries(t) ==
    CASE t \in DOMAIN OtherFields -> OtherFields[t]
      [] t \notin DOMAIN OtherFields /\ Thunks[t].type \in DOMAIN ActionFields -> ActionFields[Thunks[t].type]
      [] OTHER -> {}
\* The thunk a 401 leads to.
Again(t) == IF Thunks[t].again = "same" THEN t ELSE Thunks[t].again

(***************************************************************************)
(* The tables fit each other, but for the two actions no reducer knows and *)
(* the three thunks that put their answer in a field the reducer does not  *)
(* read: the slice becomes undefined.                                      *)
(***************************************************************************)
Unhandled == {"GET_FOLDER", "GET_FREEZE_DATASET_LATEST_VERSION_NUM"}
Misnamed == {"fetchMyDatasets", "changeSelectedVersion", "changePublicSelectedVersion"}
ASSUME TablesFit ==
    /\ \A t \in DOMAIN Thunks : Thunks[t].type \in DOMAIN Reducers \cup Unhandled
    /\ \A t \in DOMAIN Thunks \ Misnamed :
           \A e \in EffectsOf(Thunks[t].type) : e.field \in Carries(t) \cup {""}
    /\ \A t \in DOMAIN Thunks : Thunks[t].again \in DOMAIN Thunks \cup {"same"}
=============================================================================
