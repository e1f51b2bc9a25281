\* Disk: two workers encrypt the same chunk at once; no fault at all.
CONSTANTS
  f1 = f1  f2 = f2  a = a  b = b
  Files = {f1, f2}
  Hashes = {a, b}
  Pieces <- SharedPieces
  Settings <- SameChunkSettings
  Procs = {p1}
  PoolIds = {w1, w2}
  MaxRuns = 1
SPECIFICATION Spec
SYMMETRY Symmetry
INVARIANTS PublishedIntact
CHECK_DEADLOCK FALSE
