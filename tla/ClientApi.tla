----------------------------- MODULE ClientApi -----------------------------
(***************************************************************************)
(* The operations of the generated client of the web interface             *)
(* (src/frontend/src/openapi/v2/services): what each asks of the server.   *)
(* A Get says what its answer depends on, the parameters of its path and   *)
(* its query; "enable_admin" is left out, no caller passes it.             *)
(* The other operations write; their parameters are left out.              *)
(***************************************************************************)
EXTENDS TLC

Get(asks) == [method |-> "GET", asks |-> asks]
Write(method) == [method |-> method, asks |-> {}]
Post == Write("POST")
Put == Write("PUT")
Patch == Write("PATCH")
Delete == Write("DELETE")

Authorization1 ==
    [saveAuthorization |-> Post, getDatasetRole |-> Get({"datasetId"}),
    getDatasetRoleViewer |-> Get({"datasetId"}), getDatasetRoleOwner |-> Get({"datasetId"}),
    getFileRole |-> Get({"fileId", "datasetId"})]
Authorization2 ==
    [getMetadataRole |-> Get({"metadataId", "datasetId"}),
    getGroupRole |-> Get({"groupId", "datasetId"}), setDatasetGroupRole |-> Post,
    setDatasetUserRole |-> Post, removeDatasetGroupRole |-> Delete]
Authorization3 ==
    [removeDatasetUserRole |-> Delete, getDatasetRoles |-> Get({"datasetId"})]
Authorization == Authorization1 @@ Authorization2 @@ Authorization3

Datasets1 ==
    [getDatasets |-> Get({"skip", "limit", "mine", "datasetId"}),
    saveDataset |-> Post, getDataset |-> Get({"datasetId"}), editDataset |-> Put,
    deleteDataset |-> Delete]
Datasets2 ==
    [patchDataset |-> Patch,
    getDatasetFiles |-> Get({"datasetId", "folderId", "skip", "limit"}), saveFile |-> Post,
    getFreezeDatasets |-> Get({"datasetId", "skip", "limit"}), freezeDataset |-> Post]
Datasets3 ==
    [getFreezeDatasetLastestVersionNum |-> Get({"datasetId"}),
    getFreezeDatasetVersion |-> Get({"datasetId", "frozenVersionNum"}),
    deleteFreezeDatasetVersion |-> Delete,
    getDatasetFolders |-> Get({"datasetId", "parentFolder", "skip", "limit"}), addFolder |-> Post]
Datasets4 ==
    [getDatasetFoldersAndFiles |-> Get({"datasetId", "folderId", "skip", "limit"}),
    getFolder |-> Get({"datasetId", "folderId"}), deleteFolder |-> Delete, patchFolder |-> Patch,
    saveFiles |-> Post]
Datasets5 ==
    [saveLocalFile |-> Post, createDatasetFromZip |-> Post,
    downloadDataset |-> Get({"datasetId"}), getDatasetExtract |-> Post,
    downloadDatasetThumbnail |-> Get({"datasetId"}), addDatasetThumbnail |-> Patch]
Datasets == Datasets1 @@ Datasets2 @@ Datasets3 @@ Datasets4 @@ Datasets5

Elasticsearch ==
    [search |-> Put, msearch |-> Post]

Feeds1 ==
    [getFeeds |-> Get({"searchTerm", "skip", "limit", "datasetId"}), saveFeed |-> Post,
    getFeed |-> Get({"feedId", "datasetId"}), editFeed |-> Put, deleteFeed |-> Delete]
Feeds2 ==
    [associateListener |-> Post, disassociateListener |-> Delete]
Feeds == Feeds1 @@ Feeds2

Files1 ==
    [downloadFile |-> Get({"fileId", "version", "increment", "datasetId"}),
    updateFile |-> Put, deleteFile |-> Delete,
    downloadFileUrl |-> Get({"fileId", "version", "expiresInSeconds", "increment", "datasetId"}),
    getFileSummary |-> Get({"fileId", "datasetId"})]
Files2 ==
    [getFileVersionDetails |-> Get({"fileId", "versionNum", "datasetId"}),
    getFileVersions |-> Get({"fileId", "skip", "limit", "datasetId"}), postFileExtract |-> Post,
    resubmitFileExtractions |-> Post]
Files3 ==
    [downloadFileThumbnail |-> Get({"fileId", "datasetId"}), addFileThumbnail |-> Patch]
Files == Files1 @@ Files2 @@ Files3

Folders ==
    [downloadFolder |-> Get({"folderId"})]

Groups1 ==
    [getGroups |-> Get({"skip", "limit", "datasetId"}), saveGroup |-> Post,
    searchGroup |-> Get({"searchTerm", "skip", "limit", "datasetId"}),
    getGroup |-> Get({"groupId", "datasetId"}), editGroup |-> Put]
Groups2 ==
    [deleteGroup |-> Delete, addMember |-> Post, removeMember |-> Post,
    updateMember |-> Put]
Groups == Groups1 @@ Groups2

Jobs ==
    [
    getAllJobSummary |-> Get({"listenerId", "status", "userId", "fileId", "datasetId", "created", "skip", "limit"}),
    getJobSummary |-> Get({"jobId"}), getJobUpdates |-> Get({"jobId"})]

Licenses ==
    [saveLicense |-> Post, getLicense |-> Get({"licenseId"}), editLicense |-> Put,
    deleteLicense |-> Delete, getStandardLicenses |-> Get({}),
    getStandardLicenseUrl |-> Get({"licenseId"})]

Listeners1 ==
    [getInstanceId |-> Get({}),
    getListeners |-> Get({"skip", "limit", "heartbeatInterval", "category", "label", "aliveOnly", "process",
                           "datasetId", "all"}),
    saveListener |-> Post,
    searchListeners |-> Get({"text", "skip", "limit", "heartbeatInterval", "process", "datasetId"}),
    listCategories |-> Get({})]
Listeners2 ==
    [listDefaultLabels |-> Get({}), getListener |-> Get({"listenerId", "datasetId"}),
    editListener |-> Put, deleteListener |-> Delete,
    checkListenerLivelihood |-> Get({"listenerId", "heartbeatInterval", "datasetId"})]
Listeners3 ==
    [enableListener |-> Put, disableListener |-> Put, addUserPermission |-> Post,
    removeUserPermission |-> Delete, addGroupPermission |-> Post]
Listeners4 ==
    [removeGroupPermission |-> Delete, addDatasetPermission |-> Post,
    removeDatasetPermission |-> Delete]
Listeners == Listeners1 @@ Listeners2 @@ Listeners3 @@ Listeners4

Login1 ==
    [saveUser |-> Post, login |-> Post, updateCurrentUser |-> Patch,
    getAdmin |-> Get({"datasetId"}), getAdminMode |-> Get({}), setAdminMode |-> Post,
    setAdmin |-> Post]
Login2 ==
    [revokeAdmin |-> Post, enableReadonlyUser |-> Post, disableReadonlyUser |-> Post,
    userEnable |-> Post, userDisable |-> Post]
Login == Login1 @@ Login2

Metadata1 ==
    [getMetadataDefinitionList |-> Get({"name", "skip", "limit"}),
    saveMetadataDefinition |-> Post, getMetadataDefinition |-> Get({"metadataDefinitionId"}),
    updateMetadataDefinition |-> Put, deleteMetadataDefinition |-> Delete,
    searchMetadataDefinition |-> Get({"searchTerm", "skip", "limit"})]
Metadata2 ==
    [deleteMetadata |-> Delete, updateMetadata |-> Patch,
    getFileMetadata |-> Get({"fileId", "version", "allVersions", "datasetId"}),
    replaceFileMetadata |-> Put]
Metadata3 ==
    [addFileMetadata |-> Post, deleteFileMetadata |-> Delete,
    updateFileMetadata |-> Patch, getDatasetMetadata |-> Get({"datasetId"})]
Metadata4 ==
    [replaceDatasetMetadata |-> Put, addDatasetMetadata |-> Post,
    deleteDatasetMetadata |-> Delete, updateDatasetMetadata |-> Patch]
Metadata == Metadata1 @@ Metadata2 @@ Metadata3 @@ Metadata4

PublicDatasets1 ==
    [getDatasets |-> Get({"skip", "limit"}), getDataset |-> Get({"datasetId"}),
    getDatasetFiles |-> Get({"datasetId", "folderId", "skip", "limit"}),
    getDatasetFolders |-> Get({"datasetId", "parentFolder", "skip", "limit"}),
    getDatasetFoldersAndFiles |-> Get({"datasetId", "folderId", "skip", "limit"}),
    getDatasetMetadata |-> Get({"datasetId"})]
PublicDatasets2 ==
    [downloadDataset |-> Get({"datasetId"}),
    getFreezeDatasets |-> Get({"datasetId", "skip", "limit"})]
PublicDatasets == PublicDatasets1 @@ PublicDatasets2

PublicElasticsearch ==
    [search |-> Put, msearch |-> Post]

PublicFiles ==
    [getFileSummary |-> Get({"fileId"}),
    getFileVersionDetails |-> Get({"fileId", "versionNum"}),
    getFileVersions |-> Get({"fileId", "skip", "limit"}),
    downloadFile |-> Get({"fileId", "version", "increment"}),
    downloadFileThumbnail |-> Get({"fileId"}),
    getFileMetadata |-> Get({"fileId", "version", "allVersions"})]

PublicFolders ==
    [downloadFolder |-> Get({"folderId"})]

PublicLicenses ==
    [getLicense |-> Get({"licenseId"}), getStandardLicenses |-> Get({}),
    getStandardLicenseUrl |-> Get({"licenseId"})]

PublicMetadata ==
    [getMetadataDefinitionList |-> Get({"name", "skip", "limit"}),
    getMetadataDefinition |-> Get({"metadataDefinitionId"}),
    searchMetadataDefinition |-> Get({"searchTerm", "skip", "limit"})]

PublicThumbnails ==
    [downloadThumbnail |-> Get({"thumbnailId", "increment"})]

PublicVisualizations ==
    [getVisualization |-> Get({"visualizationId"}),
    downloadVisualization |-> Get({"visualizationId"}),
    downloadVisualizationUrl |-> Get({"visualizationId", "expiresInSeconds"}),
    getResourceVisconfig |-> Get({"resourceId"}), getVisconfig |-> Get({"configId"}),
    getVisdataFromVisconfig |-> Get({"configId"})]

Thumbnails ==
    [addThumbnail |-> Post, downloadThumbnail |-> Get({"thumbnailId", "increment"}),
    removeThumbnail |-> Delete]

Users1 ==
    [getUsers |-> Get({"skip", "limit"}), getUserApiKeys |-> Get({"skip", "limit"}),
    generateUserApiKey |-> Post, deleteUserApiKey |-> Delete,
    searchUsers |-> Get({"text", "skip", "limit"})]
Users2 ==
    [searchUsersPrefix |-> Get({"prefix", "skip", "limit"}), getProfile |-> Get({}),
    getUser |-> Get({"userId"}), getUserByName |-> Get({"username"})]
Users == Users1 @@ Users2

Visualizations1 ==
    [addVisualization |-> Post, getVisualization |-> Get({"visualizationId"}),
    removeVisualization |-> Delete, downloadVisualization |-> Get({"visualizationId"}),
    downloadVisualizationUrl |-> Get({"visualizationId", "expiresInSeconds"}),
    saveVisualizationConfig |-> Post]
Visualizations2 ==
    [getResourceVisconfig |-> Get({"resourceId"}),
    getVisconfig |-> Get({"configId"}), deleteVisconfig |-> Delete,
    getVisdataFromVisconfig |-> Get({"configId"})]
Visualizations == Visualizations1 @@ Visualizations2
Services ==
    [Authorization |-> Authorization, Datasets |-> Datasets, Elasticsearch |-> Elasticsearch,
     Feeds |-> Feeds, Files |-> Files, Folders |-> Folders, Groups |-> Groups, Jobs |-> Jobs,
     Licenses |-> Licenses, Listeners |-> Listeners, Login |-> Login, Metadata |-> Metadata,
     PublicDatasets |-> PublicDatasets, PublicElasticsearch |-> PublicElasticsearch,
     PublicFiles |-> PublicFiles, PublicFolders |-> PublicFolders,
     PublicLicenses |-> PublicLicenses, PublicMetadata |-> PublicMetadata,
     PublicThumbnails |-> PublicThumbnails, PublicVisualizations |-> PublicVisualizations,
     Thumbnails |-> Thumbnails, Users |-> Users, Visualizations |-> Visualizations]
=============================================================================
