\* A read error leaks the sbuf.
SPECIFICATION Spec
CONSTANTS
  file_list <- TwoParts
  raw_filesize = 8
  pagesize = 2
  margin = 1
  w1 = w1
  w2 = w2
  Workers = {w1, w2}
  OptionChoices <- WholeImage
  opt_page_start = 0
  max_bad_alloc_errors = 2
  SeenChoices <- FirstRun
  MediumMayFail = TRUE
  DiskMayFill = FALSE
INVARIANTS
  NoSbufLeaked
