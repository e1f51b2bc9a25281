\* Restore: whole snapshots and single files, moved and in place.
CONSTANTS
  a = a  b = b  NoHash = NoHash  Old = Old
  Hashes = {a, b}
  Settings <- RestoreSettings
SPECIFICATION Spec
INVARIANTS TypeOK RestoredIsBackedUp FailedLeavesNothing FailureHasCause
CHECK_DEADLOCK FALSE
