\* Disk, SMB and WebDAV: a save fails and leaves a partial chunk, the next run reuses it.
CONSTANTS
  f1 = f1  f2 = f2  a = a  b = b
  Files = {f1, f2}
  Hashes = {a, b}
  Pieces <- SharedPieces
  Settings <- FailedSaveSettings
  Procs = {p1}
  PoolIds = {w1, w2}
  MaxRuns = 2
SPECIFICATION Spec
SYMMETRY Symmetry
INVARIANTS PublishedIntact
CHECK_DEADLOCK FALSE
