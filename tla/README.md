# Clowder 2: a TLA+ verification project

This directory holds TLA+ models of the Clowder 2 backend and of its web client, the TLC
configurations that check them on small instances, and theorems that hold for every instance with proofs
checked by TLAPS. Paths of the code are relative to `src/`.

## The system

Clowder is a research data management system. A FastAPI application
(`backend/app`, started as many uvicorn workers, `backend/Dockerfile:35`) keeps its
documents in MongoDB through beanie, the bytes of files in one Minio bucket with
versioning on, a search index in Elasticsearch, users in Keycloak, and sends work to
extractors over RabbitMQ. Two further processes read what the extractors answer:
`backend/message_listener.py` and `backend/heartbeat_listener.py`. A React client
(`frontend/src`) keeps a redux store of API answers and talks to the API through a
generated library.

**There are no transactions and no locks.** A request handler is a sequence of store
operations, each atomic, with an `await` (or a blocking call while other workers run)
between any two. Everything that is hard in this code comes from that: what another
handler does between two operations, and what is left when a handler dies or raises
between two of them. The client adds a second kind of concurrency: one event loop per tab,
calls under way whose answers come in any order, effects that React runs again when what they
depend on changed, and a cookie that all tabs share.

### Inventory

| Component | State | Operations | Interacts with | What makes it correct |
|---|---|---|---|---|
| Dataset versions (`routers/datasets.py`, `db/dataset/version.py`) | DatasetDB, DatasetFreezeDB (number, deleted), FileFreezeDB | freeze, list, delete one version, delete the dataset | files and bytes, authorization, folders, metadata, thumbnails | numbers grow and are never given again; a release holds all files; bytes live as long as something refers to them |
| Files (`routers/files.py`) | FileDB, FileVersionDB, Minio objects | upload, update, delete, download, thumbnail | versions, jobs (resubmission, feeds), index | a file has its bytes; version numbers match objects |
| Folders (`routers/datasets.py`, `db/folder`) | FolderDB, FolderFreezeDB | add, move, delete with contents, freeze | files, versions | the tree stays a tree; the frozen tree mirrors it |
| Extractor jobs (`rabbitmq/listeners.py`, `message_listener.py`, `routers/jobs.py`) | EventListenerJobDB, EventListenerJobUpdateDB, two queues | submit, reply, handle a reply | files, listeners, RabbitMQ | a final status stays; no reply is lost |
| Listeners and heartbeats (`heartbeat_listener.py`, `routers/listeners.py`) | EventListenerDB | register, heartbeat, activate, delete | feeds, jobs | one document per extractor; user settings survive heartbeats |
| Feeds (`routers/feeds.py`) | FeedDB | save, associate, match a new file | listeners, jobs, index | one job per listener and file |
| Authorization and groups (`routers/authorization.py`, `routers/groups.py`, `deps/authorization_deps.py`) | AuthorizationDB (users and groups), GroupDB | set and remove roles, add and remove members | every handler asks it first | `user_ids` is what groups and roles say |
| Users (`routers/authentication.py`, `routers/users.py`) | UserDB, API keys | sign up, admin, read-only, keys | Keycloak | there is an admin; nobody is admin and read-only |
| Metadata (`routers/metadata*.py`) | MetadataDB, MetadataDefinitionDB | add, replace, edit a definition | files, datasets, index | unique names; a definition in use is not edited |
| Thumbnails and visualizations | ThumbnailDB, VisualizationConfigDB, VisualizationDataDB and their frozen copies, Minio objects | add, delete, freeze | files, versions | bytes live as long as something refers to them |
| Search index (`search/`) | Elasticsearch documents | index, update, delete | every writer | catches up with the documents |
| Licenses, public routers, status, start-up | LicenseDB, counters | | | |
| Web client: session (`actions/common.js`, `actions/user.js`, `routes.tsx`, `openapi/v2/core`) | the Authorization cookie, the token of each tab, calls under way | sign in and out, refresh, retry after a 401 | every thunk; Keycloak | a click is done once; a logout stays; retrying ends |
| Web client: store (`actions`, `reducers`) | slices of answers | a thunk per operation of the API, a reducer per action | the API, the pages | tables of thunks, actions and reducers that fit each other |
| Web client: pages (`components`, `routes.tsx`) | the controls of each component | effects, handlers, timers | the store | effects come to rest; what is shown is what was asked for; own writes are seen |
| Deployment, JupyterHub | | | the API | not modelled |

The behaviours that are hard in each of them are listed, at their lines, under `hazards`
in `PROJECT.json`.

## Modules

The order is by what a user loses when it goes wrong.

1. **DatasetVersions** and its abstract specification **VersionList**: released
   versions, files and bytes. **FolderTree**: the folders of a dataset and the deletion of a subtree.
2. **ExtractorJobs**: the two queues, replies handled at the same time by one listener,
   redelivery after a crash.
3. **ClientApi**: the operations of the generated library, as tables. **ClientActions**, on top of
   it: the actions, the reducers and the thunks.
4. **ClientSession**, on ClientActions: tabs, cookie, tokens, refused calls.
5. **ClientViews**, on ClientActions: the components as programs of effects and handlers.
   **ClientPages**, on ClientViews: the pages at work.
6. **GroupAccess**: groups, their members, and who has which role on a dataset.

1, 2, 3 to 5 and 6 share no state that the properties need: the client sees the backend as something
that answers. 4 and 5 look at the same calls, 4 at their tokens and 5 at what they tell; a
refusal with its refresh is one step in 5, as 4 shows that it ends in a second call or none.

Each module has its instances in `MC<module>`, which only adds sets for the constants, and its
theorems in `<module>_proofs`. Larger proofs that rest on them are in modules of their own:
`DatasetNumbers_proofs`, `DatasetBytes_proofs`, `GroupRoles_proofs` and `MemberRoles_proofs`.
Definitions marked "Seeded fault" or "variant" are plausible bugs that nothing uses; putting one in the place
of the definition that follows it breaks a property, as `mutants` in `PROJECT.json` lists.

## Dataset versions: `DatasetVersions.tla`

One dataset, its files, its released versions, and the requests that change them.

| Variable | Code |
|---|---|
| `dataset` | the DatasetDB document exists |
| `files` | FileDB documents of the dataset |
| `num`, `deleted` | DatasetFreezeDB documents: `frozen_version_num` (0: no document) and `deleted` |
| `frozenFiles` | FileFreezeDB documents, pairs of the version and the file they point to (`origin_id`) |
| `owned` | versions with their OWNER entry in AuthorizationDB |
| `bytes` | Minio objects; a released copy has none of its own, it uses the object named by `origin_id` |
| `req`, `running` | the handlers being executed: operation, next store operation (`pc`), local variables |
| `overlapped` | history: a release and a deletion have been served at the same time |

The field `revived` of a handler is history, too: the files its `save()` brought back.

Each action is one store operation of one handler, and a deletion, a release or an
upload is the sequence of them that `pc` goes through:

* `Upload`: insert, put the object, replace the document (which raises when it is gone).
* `Update`: put the object, replace. `PatchFile` (a thumbnail is set): read, then `save()`, which *inserts* a
  document that is gone; beanie's `replace()` does not.
* `PatchDataset`: `save()` the dataset, which brings back one that was deleted meanwhile; when the status is new, list
  the files, and read and `save()` one after the other (`edit_dataset` and the thumbnail of a dataset are its first part).
* `DeleteFile` (`DELETE /files/{id}`): remove the object, then delete the document.
* `Freeze`: read the latest number, insert the version, list the files, copy them one by one,
  give the version its owner.
* `DeleteVersion` and the first half of `DeleteDataset`: for each file copy, read it, delete it,
  ask for other copies, ask for the live file, remove the object; then the authorizations; then
  mark (or, when the dataset goes, erase) the version.
* `DeleteFolder` and the second half of `DeleteDataset`: for each file, read it, delete it,
  ask for released copies, remove the object; then the dataset.
* `Crash`: the worker dies or a store call raises. What was stored stays.

What is abstracted: names, sizes and content of files; metadata, folders, thumbnails,
visualizations and index entries, which these handlers also read and write but which
decide nothing the properties say (an exception raised in one of these calls is a `Crash`);
who may call what (the caller is authorized). A version is named by the request that makes it.
The first read of a handler and its arrival are one step. A cursor over documents is a
snapshot of what it finds: the first batch of a Mongo cursor is 101 documents, and the copy loops call
`to_list()`. Minio keeps old object versions, but `remove_object` without a version puts a
delete marker on top and a plain download then fails: the object counts as gone. Local
(not object-store) files, whose bytes the code never removes, are not modelled.

`VersionList.tla` is what a user may rely on: a version gets 1 or the successor of a number given
before, keeps it for good, and is never released again once it was withdrawn or erased.
`DatasetVersions` implements it under the mapping at the end of the module: the number of a
version is the one its release has stored, its state is read off `num` and `deleted`.

### Properties

| Property | Says |
|---|---|
| `LiveFileHasBytes` | a file in the dataset has its bytes, however deletions and releases interleave. The exceptions are named in the formula: an upload that has not stored them, `DELETE /files/{id}`, which removes them first, and a `save()` that brings the document back |
| `ReleasedFileHasBytes` | so has the copy in a released version, unless a release and a deletion overlapped |
| `NoUnreferencedBytes` | bytes without a reference are about to be removed; only a handler that died, an upload or an update leaves some |
| `ReleaseIsComplete` | a finished release holds every file that was there all along |
| `LaterReleaseHigherNumber`, `NumbersWithoutGap` | numbers grow, are not reused after a deletion, leave no gap |
| `OwnersFollowReleases` | a version has its OWNER authorization from the end of its release until its deletion: none that is deleted has one (unless it met its release), none that is released lacks it but where a deletion is between its two store operations or died there |
| `KeepsVersionList` | the refinement |

Two further properties, `ReleasedVersionReadable` and `VersionNumbersDistinct`, state what the
documentation promises and the code does not keep; see Findings.

Nothing is said about the end of these handlers: all their loops run over what a cursor found, except the one of
`delete_folder`, which is the subject of the next module.

## Folders: `FolderTree.tla`

The folders of one dataset that stays, and the files in them. In DatasetVersions a file is in the folder or
it is not, and the folder itself is not looked at; here the bytes and the versions are not.

| Variable | Code |
|---|---|
| `parentOf` | FolderDB documents with their `parent_folder`; `Root` stands for None |
| `folderOf` | FileDB documents with their `folder_id` |
| `req`, `running` | the handlers, as in DatasetVersions; `path` is the stack of the calls of `_delete_nested_folders`, each with the folder it deletes and the rest of its cursor over subfolders |

* `AddFolder`, `InsertFolder` and `Upload`, `InsertFile`: `add_folder` and `save_file` look for the parent, and insert later.
* `PatchFolder`, `CheckParent`, `SaveFolder`: `patch_folder` reads the folder, looks whether the new parent is there, and
  `save()`s the folder, which inserts it when it is gone. It does not look whether the new parent is below the folder.
* `DeleteFolder` and what follows: the files of the folder (`OpenFileCursor`, `NextFile`, `DeleteFileEntry`); then, *while*
  a subfolder is found (`FindChild`), for each subfolder of a cursor (`OpenChildCursor`, `NextChild`) the same files and
  loop one call deeper, and the subfolder itself (`DropFolder`); then the folder. `remove_file_entry` raises on a file that is
  gone, and the deletion ends there (`failed`); deleting a folder that is gone is no error.
* `Crash`: the worker dies or a store call raises.

What is abstracted. `MaxDepth` stands for Python's recursion limit, which stops a deletion of folders that are
nested more deeply, or below themselves. Of the deletion of a file only the order of its two operations is kept: look for the
document, delete it. The deletion of the whole dataset drops its folders with one query, and a release copies the
folders; neither is modelled here.

| Property | Says |
|---|---|
| `NothingOrphaned` | no folder loses its parent and no file its folder, but for those written after the last look the deletion of that parent takes at its subfolders or its files (`Overlooked...`): what is added earlier is deleted with it |
| `DeletedWithContents` | a deletion that reports success has deleted the subtree that was there when it arrived, whatever others delete, add or die over; the exceptions are what a `patch_folder` moved or brought back, and what was overlooked |
| `EveryDeletionEnds` | the loop and the recursion of `delete_folder` end |

## Extractor jobs: `ExtractorJobs.tla`

A job goes through four hands: a worker of the API records it, makes sure there is a reply
queue and publishes a request; an extractor takes the request and sends replies; the broker keeps
both; the message listener turns replies into the status and the updates of the job.

| Variable | Code |
|---|---|
| `status`, `started`, `finished` | fields of EventListenerJobDB; a time is the number of the reply that carried it |
| `updates` | EventListenerJobUpdateDB documents, counted by reply |
| `ids`, `firstId` | ConfigEntryDB documents with the key `instance_id`, and the one `find_one` gives |
| `submitter`, `replyTo` | where `submit_file_job` or `submit_dataset_job` is, and the `reply_to` it publishes |
| `request` | the request: queued, with the extractor, done, or lost |
| `form`, `place` | what a reply says; whether it is queued, delivered, acknowledged, rejected or lost |
| `listener`, `listening`, `connection` | `listen_for_messages`: its start, the queue it consumes, its connections |
| `handler` | the coroutines of `callback`, one per delivery, with the status each has read |
| `stale` | history: a coroutine overwrote a final status that it had not seen |

* `Submit`, `FindReplyQueue`, `MakeReplyQueue`, `Publish`: the store and broker operations of a
  submission, in the order of the code. `SubmitDies` covers the calls between them
  (`get_user_job_key` among them) raising, too.
* `ListenerFindsId`, `ListenerMakesId`: the same find-or-create in the listener, then `consume`.
* `ReadJob`, `SetJob`, `InsertUpdate`, `Acknowledge`: `callback`, one action per store operation.
  What is decided between two awaits belongs to the action before or after: the status is
  read in `ReadJob` and decided on in `SetJob`. `RejectUnknownForm`: `parse_message_status`
  returns no dict, the subscript raises, `message.process()` rejects without requeue.
  `ReceiveFails`: the body cannot be read, or the first store call raises, with the same end; `CallbackFails`: a
  later store call raises.
* `ListenerDies`, `ConnectionLost`, `BrokerRestarts`: what was delivered and not settled is
  delivered again. After a lost connection the old coroutines go on, next to the
  new ones for the same replies, and what they acknowledge is lost.
* `Take`, `Reply`, `ExtractorDone`, `ExtractorDies`: an extractor, as the code uses it: STARTED,
  then anything, then one final status, all of it again when it dies before it acknowledged.

What is abstracted. No consumer sets a prefetch limit, so every reply of the queue may be in a
coroutine at once and these finish in any order: the order of the queue cannot be observed,
and `place` keeps none. The text of a message is its form; `duration`, `updated` and
`latest_message` are left out. There is one listener process, as in `docker-compose.yml` and the
Helm chart, and the queue of an id is bound when it is used. A reply is stamped with its
place among the replies to its job, as if the clocks of extractors never ran backwards; no
property compares two times.

| Property | Says |
|---|---|
| `LateReplyKeepsStatus` | the promise of `message_listener.py:116` as far as the code keeps it: a reply read after the final status was stored never changes it |
| `FinalIsTimed` | a final status has a time, and a final reply gave it, in any interleaving |
| `AckedIsRecorded` | the broker forgets a reply only after its update is stored |
| `ReplyFindsItsJob` | the document comes before the request: no reply meets an unknown job |
| `RepliesAreHeard` | with one instance id, replies go where the listener listens, whoever made the id |
| `DeliveredIsHandled` | the broker waits for the settlement of exactly the replies a coroutine of this connection has in its hands |
| `RepliesCountDown` | every step for a reply in the listener's queue, and every interruption, settles it or brings that nearer (`Remaining`): nothing comes back within a connection |
| `EveryReplyHandled` | no reply is delivered and put back for ever; a reply in a queue nobody consumes is the exception the formula names |

`FinalStatusKept` is the promise the code does not keep; see Findings.

## Groups and roles: `GroupAccess.tla`

AuthorizationDB holds the roles of a dataset as entries, each a role with `user_ids` and `group_ids`. The
checks of `deps/authorization_deps.py` look at `user_ids` only; the comment at `models/authorization.py:33` says the list "MUST be kept current",
so every handler that changes a group, or the role of a group, has to change the users of entries too. A
user stands in an entry as often as the lists of its groups name the user, and once
more for a role given by hand. Usually a list names a user once; but `edit_group` compares members with their
editor flag, and can leave *c* in a group both with and without the flag, and `user_ids` then takes *c* twice.

| Variable | Code |
|---|---|
| `alive`, `members` | GroupDB documents; `users` of each, in order, with the editor flag |
| `auth` | the AuthorizationDB documents of one dataset: `role`, `user_ids` as how often each user is in it, `group_ids` |
| `req`, `served` | the handlers: the call, the next store operation (`pc`), the group as read, the documents it is about to write |
| `asked`, `overlapped`, `died` | history: the calls made; two handlers were served at once; a handler died |

* `AddMember`, `UpdateMember`, `SaveMember`, `Push`: `add_member` and `update_member` of `routers/groups.py`.
* `RemoveMember`, `EditGroup`, `ReadEntries`, `TakeRole`, `DropMember`, `NewMembers`: `remove_member`, and `edit_group`, which
  does the same for each member that is not in the new list. As in the code, its loop runs over the list it
  removes from and so skips a member, it raises a `ValueError` at an entry without the user, and after the
  first new member is saved it fails on `user.email` (`AddMissing`). A member who is there takes the place of each
  member of the same user with another editor flag (`ChangeEditor`); that loop, too, goes over the list it changes
  (`Since`).
* `DeleteGroup`: `delete_group`, which leaves the users of the group in the entries.
* `SetGroupRole`, `RemoveGroupRole`, `FindGroupEntry`, `RemoveUserRole`, `SaveRemoved`: the removals of a role in
  `routers/authorization.py`, which are also the first half of setting one.
* `ShareWithGroup`, `InsertReaders`, `InsertRole`, `ShareWithUser`, `SaveRole`, `CountGroups`, `InsertUser`:
  `set_dataset_group_role` and `set_dataset_user_role`. Members who may only read get an entry as viewers. Users are
  added and taken off once for each place of the list that names them (`Times`), and counted so (`Occurrences`).
* `Crash`: the worker dies, or a call to the store or to the search index raises.

What is abstracted. `update_many` of `add_member` is one step, although MongoDB updates one document after the
other. There is one dataset, and it exists. `read_only_user` does not change. Search indexing decides
nothing. Groups are made before the first request, as `save_group` makes them. `POST /authorizations/datasets/{id}` is left out: it fails before it writes anything.

| Property | Says |
|---|---|
| `RolesWereAsked` | somebody asked for every role that is held, for the user or for a group the user was a member of at some time, in any interleaving |
| `NoRoleBeyondGroups` | nobody stands in an entry more often than its groups and a role given by hand account for, even when handlers die half way; unless two handlers ran at once, and but for an entry with a deleted group |
| `MembersHaveRole` | when all is quiet and nobody died, a member who may also write stands in every entry of a group, once for each place in the lists of its groups that names the user; left out are users with a role set or taken by hand, users one of whose groups was edited as a whole, and, in entries for viewers, users one of whose groups has members who may only read |

The exceptions are what the code does: handlers that run at the same time write back documents they read before
(`routers/groups.py:250`), taking a role by hand takes a membership's, and `edit_group` does not give its new
members the roles of the group. The last exception of `MembersHaveRole` is a trace TLC found: the members of a group
who may only read are put in an entry for viewers without the others (`InsertReaders`). Where groups *g* and *h* become
viewers, *g* has such a member and *b* is in both, *g* is in two entries, and *h* may be added to the one of the
readers, where *b* stands on account of *h* alone. Taking the role of *g* away finds one of the two entries
(`routers/authorization.py:363`), possibly this one, and takes *b* off it as a member of *g* (`:371`): the entry
has *h* but not its member *b*. The same happens after `edit_group` added *b* to *g*, since *b* stands in no entry
on account of *g*.

## Web client: `ClientApi.tla`, `ClientActions.tla`

These two modules hold tables and no behaviour. `ClientApi` has a row for each operation of
`openapi/v2/services`: its method and, for a GET, the parameters its answer depends on.
`ClientActions` has the fields of every action (`types/action.ts`), what every reducer does
with it to which slice of the store (replace, patch the item of the same id, remove it,
append, clear), and every thunk: the operation it asks for, the action it dispatches, who handles
its failure (`handleErrors` and its two variants, the thunk itself, nobody), which thunk is
dispatched after a 401 and which of its parameters get lost there. `TablesFit` and
`AsksAreParameters` check that the JavaScript, which the compiler does not check, agrees with itself:
every action of a thunk is known to a reducer and carries the field the reducer reads, and
components pass what the operation takes. What does not fit is listed there by name
(`Unhandled`, `Misnamed`, `OtherFields`).

## Web client: `ClientSession.tla`

| Variable | Code |
|---|---|
| `cookie`, `memory` | the Authorization cookie; `V2.OpenAPI.TOKEN` of each tab |
| `page`, `loggedOut` | where a tab is (private, public, login, logout), `state.error.loggedOut` |
| `calls` | the calls under way: thunk, token, where it is, its result, and how often it was done |
| `newest`, `session` | Keycloak: which access tokens are good, whether there is a refresh token |
| `signedOut` | history: how the user signed out last |

* `Dispatch`: a thunk, with the token of the cookie (`fetch()` by hand) or of the tab (the library).
* `Serve`, `ServeLogout`, `ServeRefresh`: the server. A call may be lost before or after it did what is asked.
* `ReceiveAnswer`, `ReceiveUnauthorized`, `Repeat`: what the thunk does with the answer.
* `RefreshGranted`, `RefreshIgnored`, `RefreshFailed`: `refreshToken` and its copy in
  `handleErrorsAuthorization`, which differ in what a refusal does.
* `RefreshAlone`, `Draw`, `Enter`: `PrivateRoute`. `SignOut`, `SignIn`: `RedirectLogout`, `Auth`.

| Property | Says |
|---|---|
| `ClickedOnce` | the server carries a click out once at most, though thunks are dispatched again after a 401 |
| `SignedOutStays` | after a logout with no refresh under way in any tab nothing brings the cookie back |
| `CallsCountDown` | every step of a call and every expiry lowers what the call has left (`Left`): a thunk sent again after a refresh is refused again only if another expiry came |
| `EveryCallEnds` | refreshing and retrying ends, in an answer, a failure or a logout |

Four thunks of `user.js` dispatch themselves on any failure and may repeat for ever and be done more than
once; `ClickedOnce`, `CallsCountDown` and `EveryCallEnds` name them. `SignOutIsFinal` is what the code does not keep; see Findings.

## Web client: `ClientViews.tla`, `ClientPages.tla`

`ClientViews` has a row for each component that asks the API for something: its effects (what they depend on,
what they dispatch with which controls), its handlers, its timer, the slices it draws with the
controls a user reads them by, and where in a page it is. `ClientPages` runs them.

| Variable | Code |
|---|---|
| `slice` | the slice of the store this behaviour looks at; it never changes |
| `page`, `ctl`, `fading` | the route; the controls that are not at their first value; dialogs that fade out |
| `store` | the slices that are set, on which effects depend |
| `calls`, `writes` | calls under way with what they asked for; what the user wrote, and how far it got |
| `shown` | what the slice holds: asked with which controls, with which writes in it |
| `restless` | what effects still had to run for when React would give up |

* `Move`, `Tick`, `Visit`, `Fade`: a handler, a timer, a link, the end of a transition. Each is one turn of
  the event loop: the handler, then effects until nothing changes (`React`).
* `Serve`, `Fail`: the server, in any order. `AnswerOk`, `AnswerFailed`, `Refuse`: the reducers and what
  waits for the call, then effects; a 401 dispatches the thunk again, without what it loses.

Slices are looked at one at a time, since a component reads and asks for each on its own; of the others only
whether they are set matters to an effect. `Telling` leaves out calls whose answers can tell the slice
nothing. A control is at its first value or not, an id is this one or the one after a
move.

| Property | Says |
|---|---|
| `EffectsSettle` | every turn ends with no effect left to run, and answers do not lead to the same calls again for ever |
| `NewestAsksForControls` | the newest read of what is on the screen was made for the page, search, filters and ids shown there |
| `OwnWriteShown` | when all is quiet, what the user wrote is on the screen, once |

Each speaks of everything but what `Lagging` and `Unshown` list by name: places where the code does not keep up
by its design. `LatestMetadataShown` is a promise the code does not keep; see Findings.

### Noticed in the client

Modelled as the code has it, and left out of a property where one would say the contrary:

* An older read that is answered last replaces a newer one (`stray` in the model).
* A 401 on a write that is awaited lets the steps after it run before the write is sent again. A refused
  refresh (`refreshToken`) drops the request without a word; a lost one deletes a good cookie. The
  timer's `refreshToken` has no `dispatch`. A logout with an expired token leaves the session of the backend.
* Paging or searching the extractors forgets the filters, group and definition lists drop
  the search after the admin toggle or a late delete, and a retried `fetchFeeds`
  passes `skip` as the name.
* `fileSummary` is not asked for after `UpdateFile`; the path of the root folder is never
  cleared; a dialog that was closed misses the answer that would redirect; `CreateFolder`
  redirects on every new `newFolder`; the status of the previous job is shown after a submission until
  the new id is there; `ExtractionHistoryTab` asks for a hundred jobs where the
  table inside it asks for a page.
* `removeDatasetUserRole` dispatches the action of the group role (no reducer tells them apart).
* `File.tsx` lists the metadata right after its writes as `Dataset.tsx` does.

## Runs

The runs of dataset versions use `MCDatasetVersions`. Two files, one uploaded at the start (f1, in the folder)
and one that may be uploaded (f2, at the root).

| Run | Instance | Shows |
|---|---|---|
| `DatasetLifecycle` | 3 requests of any of the 9 kinds, all at once, crashes; 1.2M states | the byte properties, completeness, the number properties, owners, the refinement |
| `ReleasedBytesLost`, `SameVersionNumber` | 2 requests | one finding each |

The run of folders uses `MCFolderTree`: a folder a, in it a folder b, in b a file, and one more folder and file to come.

| Run | Instance | Shows |
|---|---|---|
| `FolderDeletion` | a deletion, at the same time an addition or a move, and an upload or a second deletion; crashes, recursion limit 3, fairness; 487k states | `TypeOK`, `NothingOrphaned`, `DeletedWithContents`, `EveryDeletionEnds` |

The runs of jobs use `MCExtractorJobs`.

| Run | Instance | Shows |
|---|---|---|
| `Redelivery` | 1 job, 2 replies of 4 forms, 2 connections, fairness | the properties of jobs |
| `FinalStatusOverwritten` | 1 job with 2 replies | a finding |

The run of groups and roles uses `MCGroupAccess`.

| Run | Instance | Shows |
|---|---|---|
| `GroupRoles` | 2 users, one of them read-only, 2 groups, 2 roles, 4 lists; 3 requests, two at a time, with crashes; 892k states | the three properties of roles |

The runs of the client use `MCClientSession` and `MCClientPages`.

| Run | Instance | Shows |
|---|---|---|
| `Session` | 2 tabs, 2 calls, a thunk of each way to treat a failure, 1 expiry; 1.4M states | `TypeOK`, `ClickedOnce`, `SignedOutStays` |
| `CallsEnd` | 1 tab, 2 calls, 2 expiries, fairness; 57k states | `EveryCallEnds`, `CallsCountDown` |
| `SignedOut` | 2 tabs | a finding |
| `Pages` | every page and slice, 1 to 3 moves, 1 failure or refusal; 239k states | `TypeOK`, `EffectsSettle`, `NewestAsksForControls`, `OwnWriteShown` |
| `MetadataForm` | the metadata of a dataset | a finding |

Bounds of dataset versions. Every hazard of this module involves two handlers and the document they
disagree on; three requests add a state they start from (a release that a deletion and another
release then meet). The proofs about version numbers hold for any number of them. Two files show a handler between two turns of its loop. `MaxServed`
bounds how many handlers run at once. Requests are interchangeable, hence the symmetry sets.
Deadlock is not checked: when every request was served nothing happens.

Bounds of folders. With a tree of depth two and a folder to come a deletion is in a call within a call while others add, move
and delete at each level, and one that follows a cycle reaches the limit `MaxDepth` = 3. What each request may ask for is
fixed (`Ops`), so that every kind meets a deletion, and two deletions an addition or a move. No request adds to the tree
twice, so that additions end; the code has no such bound, and somebody who never stops adding subfolders keeps a
deletion busy. Deadlock is not checked, for the same reason as above.

Bounds of jobs. Jobs share only the instance id and the connection, so one job shows every
interleaving of replies. One job and the listener are the two kinds of makers of an id; that a
second job finds the id of the first is proved (`OneIdIsHeard`) for any number of jobs.
Two replies are a final one and another that comes late or early, in any order of
handling, with a form of each kind; that a third adds nothing to the safety properties is proved. With two connections every kind
of interruption happens once, between any two steps, and a delivery overlaps its repetition;
what a third adds is one more copy of the same coroutine. `MaxReplies` and
`MaxConnections` are the only bounds. Deadlock is not checked: with all replies settled
nothing happens.

Bounds of groups and roles. Two groups in one entry let a user stand in it twice, and lists that name a user
with and without the editor flag let one group do so; both users may be members of both groups. Three requests are a role for a group, a second one, and a change of a group or of a role; two at a time
interleave every pair of handlers. The lists keep, drop, reorder and add members. That more users, groups and
requests add nothing to the four properties is proved. Deadlock is not checked: when every request was served
nothing happens.

Bounds of the client. Two tabs share the cookie, a third adds a copy; two calls let a refresh of one
overlap the other or a logout; `MaxExpiries` 1 lets a token expire under a call, 2 lets the refreshed one expire
again. `Clicks` has a thunk for each `via`, as the others differ in nothing the module looks at.
In `Pages`, `MaxMoves` is how often the user acts on one slice: once where some forty controls of
the dataset page bear on it, three times where it is behind a tab and a dialog, else twice, and a visit
to a page comes before; a move may be made while the calls of the first turn are under way
(`MaxPending`). `MaxTroubles` 1 is a failure or a refusal at any point. `MaxRounds` is how often
React draws in one turn; no page needs more than 6, which `EffectsSettle` checks. Deadlock is not checked:
in `Pages` the moves run out, in `Session` and `CallsEnd` a signed-out user may stay away.

Fairness of the client. `FairSpec` of ClientSession assumes weak fairness of each call's next step:
the network and the server answer or the browser gives up, and the event loop runs the callback.

Fairness of jobs. `FairSpec` assumes weak fairness of `StartListener` (the container has
`restart: unless-stopped`, `docker-compose.yml:127`), of `Receive` for each reply (the broker delivers what
waits while a consumer is there) and of `Callback` for each coroutine (the event loop
resumes a task whose store call has returned). Submissions, extractors, interruptions and failures
are not fair.

Fairness of folders. `FairSpec` of FolderTree assumes weak fairness of `Step(r)` for each request: the worker's event loop
resumes a task whose store call has returned, and nothing a handler waits for is held by
another. It does not assume that requests arrive or succeed, and a `Crash` may end any of them.

## Findings

* `DELETE /files/{id}` (`routers/files.py:185`) removes the object whoever refers to
  it; the dataset and folder deletions use another `remove_file_entry` that checks. Released versions
  lose their data, against `docs/docs/devs/dataset-versioning.md:14`.
* Two releases at the same time get the same `frozen_version_num`.
* Replies of one job are handled at the same time, and `callback` decides on a status it read
  before an await: a STARTED that was read first and written last puts a job that has
  succeeded back to STARTED, against the comment at `message_listener.py:116`. The other direction
  holds and is proved: a reply read after the final status never changes it.
* A refresh that is under way when the user logs out stores its token after the logout: the cookie is
  back and the next page is shown to a user who was told "You have logged out."
  (`components/auth/RedirectLogout.tsx:20`).
* The metadata form of a dataset lists the metadata right after it sent what was edited, without waiting for the
  answers; a list the server reads first is shown without what was saved, against the comment at
  `components/datasets/Dataset.tsx:292`.

Not shown by a run of their own: a release copies a list of files read at its start, a deletion that runs
meanwhile finds no copy yet and removes the bytes, and the copy is inserted after that (`overlapped` in
`ReleasedFileHasBytes`); a version can be deleted while its release is still copying, and ends
marked as deleted with file copies in it; `patch_folder` moves a folder below itself when asked to, and it and all it holds
are no longer below the top of the dataset, against the comment at `routers/datasets.py:918` ("allow moving folder around
within the hierarchy"), where deleting one of them deletes files and then runs into the recursion limit (`MaxDepth` in
`FolderTree`); the instance id is found or created without a unique
key by every submission and by the listener (a third place, `routers/listeners.py:125`, is not modelled), so two
can be made, and the replies to a job that was submitted with the second go to a queue
nobody consumes.

## Proofs

The liveness properties of jobs and of the session have a safety part that is proved: an action property that says how far
something is from its end, and that each step brings it nearer (`RepliesCountDown`, `CallsCountDown`). What fairness
adds is that the next step comes.

Where several fields change, a function is updated at one place with a record update nested in it, and an update of
`@` names the old value in full (`[req EXCEPT ![r] = [@ EXCEPT !.pc = ..., !.todo = req[r].todo \ {f}]]`): this version
of the prover misreads several updates of one function, and an `@` inside an update of `@`, and would prove too much.

### Dataset versions

`DatasetVersions_proofs.tla`, `DatasetNumbers_proofs.tla` and `DatasetBytes_proofs.tla`, for every set of files and
requests and every `MaxServed`, from the named assumptions of `DatasetVersions` only (`InitFiles` and `FolderOf` are
files, the two "none" values are neither files nor requests, `Ops` are operations).

* `TypeCorrect`: `Spec => []TypeOK`. `TypeOK` alone is not inductive: `InsertFile` needs
  that an upload has a file, `MarkDeleted` that a deletion has a version. The inductive invariant `TypeInv` adds
  `ArgumentsOK`, which says which arguments each operation has at each label.
* `LaterReleaseIsHigher`, `NumbersHaveNoGap`, `ImplementsVersionList`: from three invariants proved
  in turn. `IdleOK`: a request that has not arrived holds nothing and its version does not exist.
  `VersionsOK`: what a version document says is what its release decided, wherever a
  deletion has got to with it. `OrderOK`: the numbers a request saw at arrival are below
  the number it goes on to write, and every number below that one is in use; with
  deletions that mark and never erase, both survive every other step. A
  `DeleteDataset`, which does erase, is the exception both properties name.

* `OwnersAreThoseOfReleases`, from `OwnersOK`. The property alone is not inductive: whoever inserts an authorization
  must know that its version is still there, and a deletion that is to mark a version that it has left without one.
  Both hold as long as releases and deletions are not served together (`ApartOK`). The second part of the property
  holds in any case (`ReleasedAreOwned`).

The proofs about bytes first say once for every step what it does to files, copies and bytes (`Stored`), to the local
variables of its handler (`Moved`), to a release (`Copied`) and to a handler that has taken a
reference away (`Settled`). The theorems then argue from these four, not from thirty actions.

* `LiveFilesKeepBytes`, from `KnownOK` (a file that is in the dataset, in a release or in the hands of a handler
  was uploaded or there at the start) and `GoneOK`: whoever is about to remove the bytes of a file it deleted, or of a
  copy it found no other reference to, holds a file that is not in the dataset *any more*. The
  check of the code would not do without that, as time passes between it and the removal; a file that is
  gone stays gone, but for a `save()`.
* `ReleasedCopiesKeepBytes`, from `ReleasedOK`: as long as no release met a deletion, releases and deletions are not
  served together, a deletion about to remove bytes has left no copy, and what a release has still to
  copy has its bytes. So has every copy, though two deletions run against each other.
* `UnreferencedBytesAreLookedAfter`: directly from the four. A handler that took the last reference
  away is `Unsure` until it has found another one or removed the bytes; of two that took the last two, the later one
  finds none.
* `ReleasesAreComplete`, from `CompleteOK`: what is in the dataset since the release arrived is copied or among
  what is left to copy; nothing else leaves the list.

### Extractor jobs

`ExtractorJobs_proofs.tla`, for every set of jobs and forms and all bounds, from
`FormsAssumption`, `BoundsAssumption` and `IdsAssumption`. All safety properties of the runs are proved.

* `JobsTypeCorrect`. `TypeInv` adds to `TypeOK` that a sent reply has a form, that a coroutine
  handles a reply whose form was parsed (else `SetJob` could store a status that does not exist),
  and that a starting listener has a connection left.
* `RepliesFindTheirJobs`, from `KnownOK`: a job has a document exactly when its submission has
  begun, and a request only then.
* `AckedRepliesAreRecorded`, from `RecordedOK`: a coroutine at its acknowledgement has inserted the
  update. `KnownOK` is needed, since a reply of an unknown job is acknowledged without one.
* `FinalJobsAreTimed`, from `FinishedOK`: not only a job with a final status but also one a
  coroutine has *read* a final status of has a final time. Without that the coroutine could write a final
  status over a job that has lost its time.
* `LateRepliesKeepStatus`, from `FreshOK`: what a coroutine read as final is still the status,
  or `stale` names the job.
* `DeliveredRepliesAreHandled`, from `HandledOK`: coroutines of a connection that is not there yet do not exist, and
  without a connection nothing is delivered; else a new connection might start with a coroutine in the place of a
  delivery.
* `RepliesComeToAnEnd`, from `HandledOK`: the coroutine that has a delivered reply is the only one whose steps change its
  place, as settlements on earlier connections are lost. A connection more outweighs everything a reply can
  do within one, hence the factor in `Remaining`, and a listener that is down still has to connect.
* `OneIdIsHeard`, from `IdsOK`: whoever names a queue names it after an id that is stored.

### Groups and roles

`GroupAccess_proofs.tla`, `GroupRoles_proofs.tla` and `MemberRoles_proofs.tla`, for any users, groups, lists and roles,
any number of handlers and requests, from the assumptions of `GroupAccess` (readers are users, there are finitely many groups; the lists may name a user any number of times).

* `TypeCorrect` and `RolesComeFromRequests`, from `IInv`: whoever is in a list of members, of a group or in the hands of a
  handler, has joined that group at some time; whoever stands in an entry, stored or about to be written, has its role
  from a request, and so has every group in it. The property alone is not inductive, since handlers write back
  documents they read long before, and add members they read long before. What one of them found by its role
  (`FoundRole`) still has that role when the user is added a second time.
* `RolesStayWithinGroups`, from `RolesOK`: while handlers run one after the other, every entry is `Bounded`, and so is
  every document a handler is about to write. In between it takes more: between saving a new member and adding the
  user to the entries, each entry of the group has room for one more (`AddSure`); a member who is taken out of
  entry after entry has room to leave in those that are done (`LeaveSure`), while the group still has the member
  and the handler's list covers the group; a group whose role is set still has every member the handler adds
  (`ShareSure`). A handler may die at any of these points and the bound holds, since roles are taken away before
  a membership ends and given after it begins. The lemmas on `Count` say how the number of a user's
  places in the groups changes with an entry or a list; they are where the finiteness of `Groups` comes in. Which
  places a list has after a member is added, dropped or changed is in `GroupAccess_proofs` (`TimesAppended`,
  `TimesDropped`, `TimesChanged`).
* `MembersKeepRoles`, from `MembersOK`, the bound from below: while handlers run one after the other and none dies, every
  entry is `Full`, stored or about to be written: whoever is `Owed` its role stands in it once for each place
  in the lists of its groups. A handler that changes a membership is the exception: the user `Lags` by one in the entries
  it has still to add the user to, or has taken the user off already (`EntriesOK`). For that to be one and the same user it
  must know its group (`KnowsGroup`): the list it is going to save names nobody more often than the group does, but for a new
  member; a group whose role is taken away names each user at least as often as the handler takes the user off, and one
  whose role is set no user more often than the handler adds the user.
  `RolesOK` is used for what both have in common: that nobody else is at work and that the documents to be
  written are those that are stored.

### Web client

`ClientSession_proofs.tla`, for every set of tabs and calls, all clicks and any number of expiries, from
`SomeTab`, `ExpiriesAreNat`, `ClicksAreThunks` and the part of `TablesFit` that says that
the thunk a 401 leads to is a thunk; the tables themselves are not expanded.

* `SessionTypeCorrect`, `ClicksAreDoneOnce`, from `SessionInv`, which adds to `TypeOK` for each call: what was
  answered or waits for a refresh is no logout, a thunk that waits for a refresh does not repeat itself
  (`PhaseOK`), and a call that is on its way, refused or waiting for a refresh has not been done (`OnceOK`).
  The property alone is not inductive: a call that was done and then refused would be done again.
* `QuietLogoutStays`, from `QuietInv`: after a quiet logout there is no cookie *and* every refresh
  that is under way was sent without a token, so none can be granted.
* `CallsComeToAnEnd`, from `SessionInv`: `Left` is a natural number, five for each expiry to come and `StepsLeft`. A
  refresh that is granted has the newest token, and an expiry adds at most four steps to the call.

### Only model-checked

* Liveness (`EveryDeletionEnds`, `EveryReplyHandled`, `EveryCallEnds`), which is out of the prover's reach, but for
  the count-downs above.
* The safety properties of FolderTree.
* `TypeOK`, `EffectsSettle`, `NewestAsksForControls` and `OwnWriteShown` of ClientPages: effects run until nothing changes, which the
  module writes with recursive operators, and the prover takes none.

## Not modelled

* **File versions** (`routers/files.py:255`, `:106`, `:349`), the copies a release makes of the **folders**
  (`db/folder/version.py:37`), **thumbnails and visualizations** (`db/dataset/version.py:250-337`,
  `routers/thumbnails.py:66`), **heartbeats** (`heartbeat_listener.py:56`,
  `:79`), **admins** (`routers/authentication.py:50`, `:242`) and **metadata definitions** (`routers/metadata.py:119`):
  each has a hazard or two in `PROJECT.json` that the code does nothing against, so that a property would only restate it,
  and calls for a module of its own with the state around it. Feeds and the search index
  react to the others and have no state of their own that a later step depends on.
* Of the client: wording, layout, the fields of forms, error dialogs and their dismissal, the search page
  (a vendored component that talks to Elasticsearch), the viewers of visualizations, and that handlers can be used
  before the list they belong to has arrived.
* Deployment and JupyterHub (no Clowder logic), the public routers (queries), the Keycloak exchange (the identity
  provider's protocol), and formatting, paging and validation of requests in the backend, which change no state.
