-------------------------- MODULE MCClientSession --------------------------
(***************************************************************************)
(* ClientSession for TLC: one thunk for each way a thunk treats a failure, *)
(* and one the server asks no token for.                                   *)
(***************************************************************************)
EXTENDS ClientSession

Writes == {"setDatasetGroupRole", "freezeDataset", "toggleAdminMode"}
Kinds == Writes \cup {"setDatasetUserRole", "fileDownloaded", "fetchPublicDatasets"}
=============================================================================
