\* Two callers contend for one request while writes fail and the process crashes.
CONSTANTS
  Run = {r1, r2}
  Request = {q1}
  Intent = {i1, i2}
  Artifact = {x1}
  Client = {c1, c2}
  Recovery = Recovery
  None = None
SPECIFICATION FairSpec
INVARIANTS AnswersHold
PROPERTIES ImplementsRunLedger CallsReturn
CHECK_DEADLOCK FALSE
