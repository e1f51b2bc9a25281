\* Termination under fair scheduling, and refinement of KeyRotation, on the back ends
\* that replace config.json in one step.
CONSTANTS
  Hashes = {h1, h2}
  Workers = {w1, w2}
  Backends = {"ssh", "s3", "gcs"}
  MaxAttempts = 2
  AmbiguousErrors = {}
SPECIFICATION FairSpec
PROPERTIES EveryAttemptReturns RotatesAtomically
CHECK_DEADLOCK FALSE
