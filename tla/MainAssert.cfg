\* A write error in phase 1.
SPECIFICATION Spec
CONSTANTS
  Pages = {p1, p2}
  CommandLines <- OneCommand
  MayBeKilled = FALSE
  MaxRuns = 1
INVARIANTS
  JoinedAfterPhase1
CHECK_DEADLOCK FALSE
