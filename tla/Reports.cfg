\* bulk_extractor: three starts on an image with a short last page, a report that may lose its last
\* tags, full disks, read errors.  The tools: small reports, disks and databases; each stops when it
\* is done.
SPECIFICATION ReportsSpec
CONSTANTS
  file_list <- TwoParts
  raw_filesize = 5
  pagesize = 2
  margin = 0
  w1 = w1
  w2 = w2
  Workers = {w1, w2}
  OptionChoices <- WholeImage
  opt_page_start = 0
  max_bad_alloc_errors = 1
  SeenChoices <- NewDirectory
  MediumMayFail = TRUE
  DiskMayFill = TRUE
  MaxRuns = 3
  ReportFlushed = FALSE
  Reports <- MCReports
  image_filename <- MCImages
  entries <- MCEntries
  Features = {"x", "y", "z", "w", "old"}
  Incomplete = {"empty"}
  Cached = {"old"}
  drive_threshold = 1
  WEIGHT = 12
  mincount = 10
  minrun = 1
  SCORE = 60
INVARIANTS OnlyInterruptedPagesLost DatabaseSound CorrelationsRight ToolsRight
CHECK_DEADLOCK FALSE
