\* Three runs on one output directory, by a user who mistypes and kills.
SPECIFICATION Spec
CONSTANTS
  Pages = {p1, p2}
  CommandLines <- Clumsy
  MayBeKilled = TRUE
  MaxRuns = 3
INVARIANTS
  TypeOK
  ExitZeroMeansComplete
  NotifyGoneBeforeShutdown
  CheckpointsKept
PROPERTIES
  RunsEnd
CHECK_DEADLOCK FALSE
