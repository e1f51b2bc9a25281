\* Snapshot creation: concurrent, retried and single runs.
CONSTANTS
  f1 = f1  f2 = f2  a = a  b = b
  Files = {f1, f2}
  Hashes = {a, b}
  Pieces <- SharedPieces
  Settings <- SafeSettings
  Procs = {p1, p2}
  PoolIds = {w1, w2}
  MaxRuns = 2
SPECIFICATION Spec
SYMMETRY Symmetry
INVARIANTS TypeOK PublishedIntact ManifestsComplete
CHECK_DEADLOCK FALSE
