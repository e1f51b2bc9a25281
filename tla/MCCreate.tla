------------------------------- MODULE MCCreate -------------------------------
(* Model-checking instances of CreateSnapshot.  In format 2 two files share  *)
(* a chunk; in format 1 two files have the same content.                     *)
EXTENDS CreateSnapshot, TLC

CONSTANTS f1, f2, a, b

SharedPieces ==
  << f1 :> <<a>> @@ f2 :> <<a>>,
     f1 :> <<a, b>> @@ f2 :> <<b>> >>

OneProc == {{p} : p \in Procs}
OneWorker == {{i} : i \in PoolIds}

\* Two processes at once, every fault, on the back ends with one request per object.
Concurrent ==
  [backend : {"s3", "gcs"}, format : {2}, encrypted : BOOLEAN, faults : {AllFaults},
   procs : {Procs}, runs : {1}, pool : OneWorker]

\* A run that may fail, then another, where saves are in place and always clean up.
Retried ==
  [backend : {"ssh"}, format : {2}, encrypted : {FALSE},
   faults : {{"error", "cancel", "edit"}}, procs : OneProc, runs : {2}, pool : {PoolIds}]

\* One unencrypted run of two workers, every back end and format.
Single ==
  [backend : AllBackends, format : {1, 2}, encrypted : {FALSE},
   faults : {{"error", "cancel"}}, procs : OneProc, runs : {1}, pool : {PoolIds}]

SafeSettings == Concurrent \cup Retried \cup Single

LiveSettings ==
  [backend : {"disk", "ssh", "s3"}, format : {1, 2}, encrypted : {TRUE},
   faults : {{"error", "cancel", "unremoved"}}, procs : {Procs}, runs : {1}, pool : {PoolIds}]

\* A save fails and leaves a partial chunk, the next run meets it.
FailedSaveSettings ==
  [backend : {"disk", "smb", "webdav"}, format : {2}, encrypted : {FALSE},
   faults : {{"error"}}, procs : {Procs}, runs : {2}, pool : {PoolIds}]

\* Two workers encrypt the same chunk at once; no fault at all.
SameChunkSettings ==
  [backend : {"disk"}, format : {2}, encrypted : {TRUE},
   faults : {{}}, procs : {Procs}, runs : {1}, pool : {PoolIds}]

Symmetry == Permutations(Procs) \cup Permutations(PoolIds)
=============================================================================
