CONSTANTS
  Blobs = 2
  Chunks = 2
  Attempts = 3
  MaxLost = 2
  MaxLate = 2
SPECIFICATION FairSpec
INVARIANTS OutcomeIsTrue NeverAheadOfThePod ChunksGetThrough ManifestAsReported
PROPERTIES UploadEnds
CHECK_DEADLOCK FALSE
