\* A card number with separators.
SPECIFICATION CardsSpec
CONSTANTS
  min_phone_digits = 7
  AcctsBuffer = 60
  opt_min_hex_buf = 8
  MARK_LEN = 1
  ARCHIVE_HEAD_MIN_LEN = 2
  FILE_HEAD_MIN_LEN = 2
  OPTIONAL_BIGFILE_LEN = 1
  threshold = 2
  RAR_MEMORY = 50
  local_opt_pagesize = 3
  CODE_BITS = 5
  MAXWINSIZE = 6
  MAX_SIZE = 8
  READ_ALIGN = 2
  READ_BORDER = 2
  TABLES_BORDER = 2
  ENTRY_BORDER = 1
  OldWriteBorder = 4
  WriteBorder = 3
  MAX_LZ_MATCH = 3
  FastMargin20 = 4
  MaxMatch15 = 3
  MaxMatch20 = 3
  MaxMatch29 = 3
  MaxMatchPPM = 4
  WORD = 12
  INT64NDF = 1000
  Distances = {0,1,5}
  N1 = 3
  N2 = 1
  N3 = 0
  N4 = 0
  FIXED_UNIT_SIZE = 1
  UNIT_SIZE = 2
  Memories = {9}
  RootUnits = 4
  GlueWait = 1
  GlueLimit = 7
  Leftovers = {{}, {3, 4, 5, 6, 7, 8, 9, 10}}
INVARIANTS
  CardsFound
CHECK_DEADLOCK FALSE
