----------------------------- MODULE ObjectStore -----------------------------
(***************************************************************************)
(* How each storage back end (internal/infra/...) writes and reads what a  *)
(* snapshot consists of: whole-file objects (Save, format 1), chunks       *)
(* (SaveChunk, format 2) and manifests (ManifestRepository.Save), and      *)
(* ReadObject and RestoreObject.  The six back ends are six copies of the  *)
(* same code that have drifted apart, so each is described on its own, by  *)
(* the few traits its callers can tell apart.  Those of a save are:        *)
(*                                                                         *)
(*   inplace    written piece by piece at its final path, so that others   *)
(*              see it incomplete; else one request makes it appear whole  *)
(*   exclusive  an object that is already there is left alone, which       *)
(*              counts as success                                          *)
(*   validates  the encoded content is hashed again and compared with the  *)
(*              hash before anything is written                            *)
(*   cleans     the object is removed, best effort, whatever call fails    *)
(*              once it is open                                            *)
(*   swallows   the error of closing the AES-GCM writer, which is the one  *)
(*              that writes the ciphertext, is ignored                     *)
(***************************************************************************)

AllBackends == {"disk", "ssh", "smb", "s3", "gcs", "webdav"}

\* O_EXCL.  The deferred clean-up removes the object's directory, which is not
\* empty: nothing is removed.
DiskSave ==
  [inplace |-> TRUE, exclusive |-> TRUE, validates |-> FALSE, cleans |-> FALSE,
   swallows |-> TRUE]

\* os.Create; the same clean-up.
DiskSaveChunk ==
  [inplace |-> TRUE, exclusive |-> FALSE, validates |-> FALSE, cleans |-> FALSE,
   swallows |-> FALSE]

SshSave ==
  [inplace |-> TRUE, exclusive |-> TRUE, validates |-> FALSE, cleans |-> TRUE,
   swallows |-> TRUE]

\* Encoded and validated in memory, then O_TRUNC.
SshSaveChunk ==
  [inplace |-> TRUE, exclusive |-> FALSE, validates |-> TRUE, cleans |-> TRUE,
   swallows |-> FALSE]

SmbSave ==
  [inplace |-> TRUE, exclusive |-> TRUE, validates |-> FALSE, cleans |-> FALSE,
   swallows |-> TRUE]

SmbSaveChunk ==
  [inplace |-> TRUE, exclusive |-> FALSE, validates |-> TRUE, cleans |-> FALSE,
   swallows |-> FALSE]

\* A local temporary file, then PutObject with If-None-Match.
S3Save ==
  [inplace |-> FALSE, exclusive |-> TRUE, validates |-> FALSE, cleans |-> FALSE,
   swallows |-> TRUE]

S3SaveChunk ==
  [inplace |-> FALSE, exclusive |-> FALSE, validates |-> TRUE, cleans |-> FALSE,
   swallows |-> FALSE]

\* A writer with the DoesNotExist condition; an error while writing the
\* ciphertext comes back from its Close.
GcsSave ==
  [inplace |-> FALSE, exclusive |-> TRUE, validates |-> FALSE, cleans |-> FALSE,
   swallows |-> FALSE]

GcsSaveChunk ==
  [inplace |-> FALSE, exclusive |-> FALSE, validates |-> TRUE, cleans |-> FALSE,
   swallows |-> FALSE]

\* One PUT, which a server may apply piece by piece.
WebdavSave ==
  [inplace |-> TRUE, exclusive |-> FALSE, validates |-> TRUE, cleans |-> FALSE,
   swallows |-> FALSE]

\* Only the error of the PUT itself removes the object; the context, Stat and size
\* checks that follow return their error and leave what they found.
WebdavSaveChunk ==
  [inplace |-> TRUE, exclusive |-> FALSE, validates |-> TRUE, cleans |-> FALSE,
   swallows |-> FALSE]

SaveOf(b) ==
  CASE b = "disk"   -> DiskSave
    [] b = "ssh"    -> SshSave
    [] b = "smb"    -> SmbSave
    [] b = "s3"     -> S3Save
    [] b = "gcs"    -> GcsSave
    [] b = "webdav" -> WebdavSave

SaveChunkOf(b) ==
  CASE b = "disk"   -> DiskSaveChunk
    [] b = "ssh"    -> SshSaveChunk
    [] b = "smb"    -> SmbSaveChunk
    [] b = "s3"     -> S3SaveChunk
    [] b = "gcs"    -> GcsSaveChunk
    [] b = "webdav" -> WebdavSaveChunk

-----------------------------------------------------------------------------
(* ManifestRepository.Save: what the manifest file may be while the call   *)
(* is under way ("open") and after it returned an error ("failed").        *)

\* os.WriteFile; nothing is removed.
DiskManifestSave == [open |-> {"torn"}, failed |-> {"none", "torn", "whole"}]

\* Removed, best effort, on any error, that of the final Chmod included, when the
\* manifest is closed and can be read as a whole one.
SshManifestSave == [open |-> {"torn", "whole"}, failed |-> {"none", "torn", "whole"}]

SmbManifestSave == [open |-> {"torn"}, failed |-> {"none", "torn", "whole"}]

\* One request; an error may hide that it took effect.
S3ManifestSave == [open |-> {"none"}, failed |-> {"none", "whole"}]
GcsManifestSave == [open |-> {"none"}, failed |-> {"none", "whole"}]

WebdavManifestSave == [open |-> {"torn"}, failed |-> {"none", "torn", "whole"}]

ManifestSaveOf(b) ==
  CASE b = "disk"   -> DiskManifestSave
    [] b = "ssh"    -> SshManifestSave
    [] b = "smb"    -> SmbManifestSave
    [] b = "s3"     -> S3ManifestSave
    [] b = "gcs"    -> GcsManifestSave
    [] b = "webdav" -> WebdavManifestSave

-----------------------------------------------------------------------------
(* ReadObject, which Verifier reads with: the namespace is that of the     *)
(* active generation when there is a key and objects/ when there is none.  *)
(*                                                                         *)
(*   absent     what the caller gets for an object that is not there: a    *)
(*              NotFoundError, or some other error                         *)
(*   decrypts   with a key, the object is authenticated and decrypted      *)
(*              before anything is returned                                *)

\* Mutant: one back end reports an absent object with an error of its own.
AbsentIsAnError  == [absent |-> "error", decrypts |-> TRUE]

DiskReadObject   == [absent |-> "not found", decrypts |-> TRUE]
SshReadObject    == [absent |-> "not found", decrypts |-> TRUE]
SmbReadObject    == [absent |-> "not found", decrypts |-> TRUE]
S3ReadObject     == [absent |-> "not found", decrypts |-> TRUE]
GcsReadObject    == [absent |-> "not found", decrypts |-> TRUE]
WebdavReadObject == [absent |-> "not found", decrypts |-> TRUE]

ReadObjectOf(b) ==
  CASE b = "disk"   -> DiskReadObject
    [] b = "ssh"    -> SshReadObject
    [] b = "smb"    -> SmbReadObject
    [] b = "s3"     -> S3ReadObject
    [] b = "gcs"    -> GcsReadObject
    [] b = "webdav" -> WebdavReadObject
-----------------------------------------------------------------------------
(* RestoreObject, once the destination is open (and so truncated):         *)
(*                                                                         *)
(*   sized      the bytes written are counted and must be the size the     *)
(*              manifest records                                           *)
(*   removes    after any error the destination is closed and removed,     *)
(*              best effort                                                *)

\* Mutant: the deferred clean-up closes the destination and forgets to remove it.
KeepsPartialFile    == [sized |-> TRUE, removes |-> FALSE]

DiskRestoreObject   == [sized |-> TRUE, removes |-> TRUE]
SshRestoreObject    == [sized |-> TRUE, removes |-> TRUE]
SmbRestoreObject    == [sized |-> TRUE, removes |-> TRUE]
S3RestoreObject     == [sized |-> TRUE, removes |-> TRUE]
GcsRestoreObject    == [sized |-> TRUE, removes |-> TRUE]
WebdavRestoreObject == [sized |-> TRUE, removes |-> TRUE]

RestoreObjectOf(b) ==
  CASE b = "disk"   -> DiskRestoreObject
    [] b = "ssh"    -> SshRestoreObject
    [] b = "smb"    -> SmbRestoreObject
    [] b = "s3"     -> S3RestoreObject
    [] b = "gcs"    -> GcsRestoreObject
    [] b = "webdav" -> WebdavRestoreObject

=============================================================================
