\* Three exports to one path in a process that runs out of descriptors.
CONSTANTS
  Export = {e1, e2, e3}
  OpenErrors = {"noPlace", "noDescriptor"}
  None = None
SPECIFICATION Spec
INVARIANTS ReaderSeesWhole
CHECK_DEADLOCK FALSE
