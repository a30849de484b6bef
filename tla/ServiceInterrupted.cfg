\* One run whose workspace removal is overtaken by the cancel deadline.
CONSTANTS
  Run = {r1}
  Request = {q1}
  Snapshot = {s1}
  Caller = {c1}
  None = None
  Retrier = c1
  Retried = q1
  Shared = s1
  Earlier = r1
SPECIFICATION Spec
PROPERTIES InterruptedKeepsWorkspace
CHECK_DEADLOCK FALSE
