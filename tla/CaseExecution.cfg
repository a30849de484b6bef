\* Two pieces of work, one resource.
CONSTANTS
  Grace = TRUE
  None = None
  Work = {w1, w2}
  Resource = {x1}
  Fixtures = Fixtures
SPECIFICATION FairSpec
INVARIANTS CaseIsInOrder
PROPERTIES ReadyIsFinal TaskStands ReportComes
CHECK_DEADLOCK FALSE
