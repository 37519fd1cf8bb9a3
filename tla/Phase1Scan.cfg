\* A split image, two workers on a range of it or none on a sample of it, read and write
\* errors, a restart or not.
SPECIFICATION FairSpec
CONSTANTS
  file_list <- ThreeParts
  raw_filesize = 12
  pagesize = 2
  margin = 1
  w1 = w1
  w2 = w2
  Workers = {w1, w2}
  OptionChoices <- CommandLines
  opt_page_start = 0
  max_bad_alloc_errors = 2
  SeenChoices <- Restarts
  MediumMayFail = TRUE
  DiskMayFill = TRUE
INVARIANTS
  TypeOK
  QueueBound
  OnePlace
  DigestMatchesPages
  SbufsAccountedWithoutReadErrors
  AllPagesAccounted
PROPERTIES
  ScheduledOnce
  ImplementsPageScan
  Terminates
