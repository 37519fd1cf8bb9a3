\* One worker, a task delivered once, a database that refuses a row.
SPECIFICATION Spec
CONSTANTS
  Scans = {s1}
  Workers = {w1}
  feature = feature
  alert = alert
  Files <- TwoFiles
  MaxDeliveries = 1
  MayCrash = FALSE
  DatabaseMayFail = TRUE
  EnqueueMayFail = FALSE
PROPERTIES
  Settles
CHECK_DEADLOCK FALSE
