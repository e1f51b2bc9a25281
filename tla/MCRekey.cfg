\* Every back end; over SMB an error of CreateConfig may hide that it took effect.
CONSTANTS
  Hashes = {h1, h2, h3}
  Workers = {w1, w2}
  Backends = {"disk", "ssh", "smb", "s3", "gcs", "webdav"}
  MaxAttempts = 2
  AmbiguousErrors = {"smb"}
SPECIFICATION Spec
SYMMETRY Symmetry
INVARIANTS TypeOK ReadableConfigComplete FailedObjectRollsBack SuccessRetiresOldGeneration
CHECK_DEADLOCK FALSE
