\* Two callers contend for one request and for one workspace.
CONSTANTS
  Run = {r1, r2}
  Request = {q1, q2}
  Snapshot = {s1, s2}
  Caller = {c1, c2}
  None = None
  Retrier = c2
  Retried = q1
  Shared = s1
  Earlier = r1
SPECIFICATION FairSpec
INVARIANTS WorkspaceIsSafe ExecutedOnce
PROPERTIES CancelEnds
CHECK_DEADLOCK FALSE
ACTION_CONSTRAINT Bounded
