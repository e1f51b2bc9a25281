\* S3: the answer to the PutObject of config.json is lost.
CONSTANTS
  Hashes = {h1, h2}
  Workers = {w1, w2}
  Backends = {"s3"}
  MaxAttempts = 1
  AmbiguousErrors = {"s3"}
SPECIFICATION Spec
SYMMETRY Symmetry
INVARIANTS ReadableConfigComplete
CHECK_DEADLOCK FALSE
