\* A repository through five commands of one or two processes.
CONSTANTS
  A = A  B = B
  Procs = {p1, p2}
  Compressions = {"gzip", "zstd"}
  KeyPairs = {A, B}
  MaxCommands = 5
  Settings <- RepositorySettings
SPECIFICATION Spec
SYMMETRY Symmetry
INVARIANTS TypeOK SnapshotsReadable ListingComplete
PROPERTIES ConfigKeepsIdentity
CHECK_DEADLOCK FALSE
