\* One worker, a task delivered twice, and a page whose requests and socket may fail.
SPECIFICATION PageSpec
CONSTANTS
  Scans = {s1}
  Workers = {w1}
  feature = feature
  alert = alert
  Files <- TwoFiles
  MaxDeliveries = 2
  MayCrash = TRUE
  DatabaseMayFail = FALSE
  EnqueueMayFail = FALSE
  Viewed = s1
  FeatureRows = {feature}
  RequestMayFail = TRUE
INVARIANTS
  PageTypeOK
  TotalsAreWhole
PROPERTIES
  PageCatchesUp
  ShownGoesForward
CHECK_DEADLOCK FALSE
