\* Termination under fair scheduling, with errors and cancellation.
CONSTANTS
  f1 = f1  f2 = f2  a = a  b = b
  Files = {f1, f2}
  Hashes = {a, b}
  Pieces <- SharedPieces
  Settings <- LiveSettings
  Procs = {p1}
  PoolIds = {w1, w2}
  MaxRuns = 1
SPECIFICATION FairSpec
PROPERTIES EveryCreateReturns
CHECK_DEADLOCK FALSE
