-------------------------------- MODULE MCFile --------------------------------
(* Model-checking instances of FileBackup: chunks of two bytes, a threshold of *)
(* four, as in the code twice the size of a chunk.                             *)
EXTENDS FileBackup

\* Changes at any time where every save compares the hash; elsewhere between backups.
FileSettings ==
  [backend : {"ssh", "smb", "s3", "gcs", "webdav"}, format : {2}, edits : {"any"}]
    \cup [backend : {"webdav"}, format : {1}, edits : {"any"}]
    \cup [backend : {"disk"}, format : {1, 2}, edits : {"between"}]
    \cup [backend : {"ssh"}, format : {1}, edits : {"between"}]

UnchangedSettings == [backend : {"disk"}, format : {2}, edits : {"between"}]
=============================================================================
