SPECIFICATION NetSpec
CONSTANTS
  Carvers = {w1, w2}
  NoCarver = NoCarver
  Images <- NetImages
  net_pagesize = 6
  net_margin = 3
  min_packet_bytes = 3
  MaxWriteErrors = 0
INVARIANT WrittenAsFound
CHECK_DEADLOCK FALSE
