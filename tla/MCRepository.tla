----------------------------- MODULE MCRepository -----------------------------
(* Model-checking instances of Repository.                                    *)
EXTENDS Repository, TLC

CONSTANTS A, B

\* With a public key --force changes nothing; without one it removes the encryption, which
\* the program warns of, and is left out here.
Args(pub, comp, format) == [pub |-> pub, force |-> pub # None, comp |-> comp, format |-> format]

\* One process at a time: every command, failing or dying anywhere,
\* where config.json is rewritten in place, where no generation is ever deleted, and
\* where every write is whole.
Sequential ==
  [backend : {"disk", "smb", "webdav", "s3"}, procs : {{p} : p \in Procs},
   menu : {{"init", "create", "rewrap", "rekey"}},
   inits : {{Args(A, "gzip", 1), Args(None, "zstd", 2)}},
   faults : {{"error", "crash"}}, max : {MaxCommands}]

\* Two processes: creates, a listing, and an init that may change the compression.
Concurrent ==
  [backend : {"disk", "ssh", "smb", "webdav"}, procs : {Procs}, menu : {{"init", "create", "list"}},
   inits : {{Args(A, "gzip", 2), Args(None, "zstd", 1)}},
   faults : {{"error", "lost reply"}}, max : {MaxCommands - 1}]

\* The same where a listing is paged.
Paged ==
  [backend : {"s3", "gcs"}, procs : {Procs}, menu : {{"init", "create", "list"}},
   inits : {{Args(A, "gzip", 2)}},
   faults : {{"error"}}, max : {MaxCommands - 1}]

RepositorySettings == Sequential \cup Concurrent \cup Paged

Symmetry == Permutations(Procs)
=============================================================================
