\* A run's report published while a client uses the store.
CONSTANTS
  Evidence <- MCEvidence
  Required = {"shot"}
  Extra = {"log"}
  Digest <- MCDigest
  DigestOf <- MCDigestOf
  None = None
  Read = {"log"}
  Damaged = {"shot", "log"}
SPECIFICATION Spec
INVARIANTS FilesAreWhole RecordIsTrue
PROPERTIES DirectoriesAreKept
CHECK_DEADLOCK FALSE
ACTION_CONSTRAINT Bounded
