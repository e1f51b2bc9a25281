\* A file that does not change while it is backed up.
CONSTANTS
  Byte = {0, 1}
  ChunkSize = 2
  ChunkThreshold = 4
  MaxSize = 5
  MaxEdits = 0
  MaxRuns = 1
  Settings <- UnchangedSettings
SPECIFICATION Spec
INVARIANTS SmallerFilesStored
CHECK_DEADLOCK FALSE
