SPECIFICATION Spec
CONSTANTS
  Texts <- TextsOfPages
  stacksize = 4
  min_commas = 1
  Carvers = {w1, w2}
  NoCarver = NoCarver
  Images <- NetImages
  net_pagesize = 6
  net_margin = 3
  min_packet_bytes = 3
  MaxWriteErrors = 1
  Scenarios <- AllDisks
  reader_pagesize = 2
  MediumMayFail = TRUE
  PartNumbers <- FiveNumbers
  UTMP_RECORD = 2
  SECTOR_SIZE = 4
  CLUSTER_SIZE = 2
  ELFCHNK_SIZE = 4
  DB_WRAP = 8
  facebook_searches <- Searches
  FB_WINDOW = 4
  FB_TAIL = 3
  FB_END = 1
  LOG_WINDOW = 2
  word_min = 2
  word_max = 3
  minlinewidth = 2
  maxlinewidth_needed_for_character_classes = 3
  PE_STUB = 1
  DLL_NAME = 1
  WORD = 16
  GIB = 12
  sht_null_counter_max = 1
  DENTRIES = 3
  SMALLEST_LNK_FILE = 1
  PREFETCH_HEAD = 1
  max_depth = 3
  MIN_ZIP_SIZE = 2
  MIN_COMPRESSED_SIZE = 1
  PDF_TAIL = 2
  zip_min_uncompr_size = 2
  zip_max_uncompr_size = 3
  MIN_JPEG_SIZE = 1
  min_jpeg_size = 9
  MAYBE_MAX_ENTRIES = 2
  OPT_MAX_IFD_ENTRIES = 3
  OPT_MAX_EXIF_BYTES = 16
  DATA_OFFSET_WRAP = 8
INVARIANTS
  TypeOK
  StackInBounds
  PcapWellFormed
  ImageFoundWhole
  ReadAsAsked
  ReportsSound
  ReportsFound
PROPERTIES
  PagesEnd
CHECK_DEADLOCK FALSE
