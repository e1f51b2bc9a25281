\* Verification: two workers, three files, every state of the objects.
CONSTANTS
  f1 = f1  f2 = f2  f3 = f3  a = a  b = b  NoHash = NoHash
  Files = {f1, f2, f3}
  Hashes = {a, b}
  Pieces <- SharedPieces
  MaxWorkers = 2
  Settings <- VerifySettings
SPECIFICATION Spec
INVARIANTS TypeOK ExactReport NoFalseAlarm ErrorHasCause
PROPERTIES EveryVerifyReturns
CHECK_DEADLOCK FALSE
