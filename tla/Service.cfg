\* Two workers, a task delivered twice, every fault.
SPECIFICATION Spec
CONSTANTS
  Scans = {s1}
  Workers = {w1, w2}
  feature = feature
  alert = alert
  Files <- TwoFiles
  MaxDeliveries = 2
  MayCrash = TRUE
  DatabaseMayFail = TRUE
  EnqueueMayFail = TRUE
INVARIANTS
  TypeOK
  NoPartialResults
  CompletedIsImported
  RowsBoundedByDeliveries
PROPERTIES
  SettledUnlessRedelivered
  SettlesUnlessLost
CHECK_DEADLOCK FALSE
