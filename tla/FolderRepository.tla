--------------------------- MODULE FolderRepository ---------------------------
(***************************************************************************)
(* FolderRepository of each back end                                       *)
(* (internal/infra/<back end>/folder_repository_repository.go): how a      *)
(* repository is recognised, created, and how config.json is replaced; and *)
(* how List of ManifestRepository (manifest_repository.go) finds the       *)
(* snapshots.                                                              *)
(*                                                                         *)
(*   exists    what Exists looks for: the repository's folder, or the      *)
(*             config.json in it                                           *)
(*   folders   CreateFolder creates a folder; object stores have none      *)
(*   writing   what CreateConfig makes of config.json before it returns:   *)
(*             the old document, the new one, or one GetConfig cannot parse*)
(*   publishing  what ManifestRepository.Save does about snapshots/:       *)
(*             it creates it, or needs it                                  *)
(*   missing   what List does without snapshots/                           *)
(*   paged     List gets the names page by page and reads the manifests of *)
(*             a page before it asks for the next                          *)
(***************************************************************************)
EXTENDS ObjectStore

\* os.WriteFile truncates and then writes.
DiskFolderRepository   == [exists |-> "folder", folders |-> TRUE, writing |-> {"torn"},
   publishing |-> "needs"]

\* config.json.tmp is written and renamed over config.json.
SshFolderRepository    == [exists |-> "folder", folders |-> TRUE, writing |-> {"old"},
   publishing |-> "creates"]

\* WriteAt over the old bytes, then Truncate, which only a shorter document needs.
SmbFolderRepository    == [exists |-> "folder", folders |-> TRUE,
   writing |-> {"old", "new", "torn"}, publishing |-> "needs"]

\* One request replaces the document.
S3FolderRepository     == [exists |-> "config", folders |-> FALSE, writing |-> {"old"},
   publishing |-> "needs"]
GcsFolderRepository    == [exists |-> "config", folders |-> FALSE, writing |-> {"old"},
   publishing |-> "needs"]

\* One PUT, which a server may apply piece by piece.
WebdavFolderRepository == [exists |-> "folder", folders |-> TRUE, writing |-> {"old", "torn"},
   publishing |-> "creates"]

FolderRepositoryOf(b) ==
  CASE b = "disk"   -> DiskFolderRepository
    [] b = "ssh"    -> SshFolderRepository
    [] b = "smb"    -> SmbFolderRepository
    [] b = "s3"     -> S3FolderRepository
    [] b = "gcs"    -> GcsFolderRepository
    [] b = "webdav" -> WebdavFolderRepository

\* ReadDir, then one manifest after the other.
DiskList   == [missing |-> "error", paged |-> FALSE]
SshList    == [missing |-> "error", paged |-> FALSE]
SmbList    == [missing |-> "error", paged |-> FALSE]
WebdavList == [missing |-> "error", paged |-> FALSE]

\* A paginator over the prefix snapshots/.
S3List     == [missing |-> "empty", paged |-> TRUE]
GcsList    == [missing |-> "empty", paged |-> TRUE]

ListOf(b) ==
  CASE b = "disk"   -> DiskList
    [] b = "ssh"    -> SshList
    [] b = "smb"    -> SmbList
    [] b = "s3"     -> S3List
    [] b = "gcs"    -> GcsList
    [] b = "webdav" -> WebdavList

=============================================================================
