\* One file of up to five bytes, backed up twice and changed in between or meanwhile.
CONSTANTS
  Byte = {0, 1}
  ChunkSize = 2
  ChunkThreshold = 4
  MaxSize = 5
  MaxEdits = 1
  MaxRuns = 2
  Settings <- FileSettings
SPECIFICATION Spec
INVARIANTS TypeOK ChunksPartitionFile RoundTrip PublishedHashesTrue FailsOnlyIfChanged
CHECK_DEADLOCK FALSE
