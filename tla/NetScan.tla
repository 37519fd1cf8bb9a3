------------------------------- MODULE NetScan -------------------------------
(***************************************************************************)
(* scan_net.cpp and pcap_writer.cpp: workers carve the pages of an image   *)
(* and share one packets.pcap.  Offsets are those of the image.  A header  *)
(* of a pcap record or of an Ethernet frame has length 1; a packet is what *)
(* lies behind them:                                                       *)
(*   at, len, ip   its first byte, its length, is it TCP or UDP over IPv4  *)
(*   ether, record   is it framed, does a pcap record stand before it      *)
(*   cksum, addr, port0   valid checksum, plausible addresses, a zero port *)
(*   off0      ip_off, six bytes into the IP header, is zero               *)
(* IPv6, and the value of a time or an address, are left out; memory is    *)
(* what -S carve_net_memory finds.                                         *)
(***************************************************************************)
EXTENDS Integers, Sequences, FiniteSets

CONSTANTS
  Carvers,             \* the worker threads
  NoCarver,            \* the mutex is free
  Images,              \* [size, packets, memory, files, zeros : the contents of an image]
  net_pagesize, net_margin,
  min_packet_bytes,
  MaxWriteErrors       \* bound on the writes that fail

PCAP_RECORD_HEADER_SIZE == 1
ETHER_HEAD_LEN == 1
MEMORY_BYTES == 1     \* sizeof(sockaddr_in), sizeof(tcpt_object)
TCPDUMP_HEADER_SIZE == 1

ASSUME NetAssumption ==
  /\ NoCarver \notin Carvers
  /\ net_pagesize \in Nat \ {0} /\ net_margin \in Nat /\ MaxWriteErrors \in Nat
  \* MIN_PACKET_BYTES is 40: more than the 16 bytes of a record and the 14 of a frame
  /\ min_packet_bytes \in Nat /\ min_packet_bytes > PCAP_RECORD_HEADER_SIZE + ETHER_HEAD_LEN

\* A packet has an IP header, which is longer than what a pcap record or a frame puts
\* before it.
ASSUME ImageAssumption ==
  \A i \in Images :
    /\ i.size \in Nat /\ i.memory \subseteq Nat /\ i.files \subseteq Nat
    /\ \A p \in i.packets : /\ p.at \in Nat /\ p.len \in Nat /\ p.len > ETHER_HEAD_LEN
                            /\ {p.ip, p.ether, p.record, p.cksum, p.addr, p.port0, p.off0} \subseteq BOOLEAN

VARIABLES
  net_image,
  net_pages,      \* the pages no worker has begun
  net_pc,         \* per worker: "idle", "carve", "lock", "open", "header", "record", "data", "flush"
  net_page, net_pos,
  net_job,        \* the packet to write: [packet, from : where its bytes are copied from, time, bytes]
  Mfcap,          \* the worker that holds the mutex, or NoCarver
  fcap,           \* "null", "good" or "bad": a failed stream stays bad
  packets_pcap,   \* the pieces the stream took; a failed stream may have lost the last of them
  net_features,   \* what was written to the recorders, as <<recorder, offset>>
  net_abandoned,  \* pages left by an exception
  net_errors

net_vars == <<net_image, net_pages, net_pc, net_page, net_pos, net_job, Mfcap, fcap, packets_pcap,
              net_features, net_abandoned, net_errors>>

Smaller(a, b) == IF a < b THEN a ELSE b
NetPages == 0 .. (net_image.size + net_pagesize - 1) \div net_pagesize - 1
PageStart(n) == n * net_pagesize
PageEnd(n) == Smaller(PageStart(n) + net_pagesize, net_image.size)
BufEnd(n) == Smaller(PageStart(n) + net_pagesize + net_margin, net_image.size)

-----------------------------------------------------------------------------
(* What stands at an offset, as far as the sbuf of page n shows it *)

NoPacket == [at |-> -1]

\* sanityCheckIP46Header: the packet whose IP header is at q, if all of it is in the sbuf.
sanityCheckIP46Header(n, q) ==
  IF \E p \in net_image.packets : p.ip /\ p.at = q /\ q + p.len <= BufEnd(n)
  THEN CHOOSE p \in net_image.packets : p.ip /\ p.at = q ELSE NoPacket

RecordStart(p) == p.at - (IF p.ether THEN ETHER_HEAD_LEN ELSE 0) - PCAP_RECORD_HEADER_SIZE
CapLen(p) == p.len + (IF p.ether THEN ETHER_HEAD_LEN ELSE 0)
RecordsAt(n, q) ==
  {p \in net_image.packets : p.record /\ RecordStart(p) = q /\ q + PCAP_RECORD_HEADER_SIZE <= BufEnd(n)}
likely_valid_pcap_packet_header(n, q) == RecordsAt(n, q) # {}
RecordEnd(p) == RecordStart(p) + PCAP_RECORD_HEADER_SIZE + CapLen(p)

validateEther(q) == \E p \in net_image.packets : p.ip /\ p.ether /\ p.at = q + ETHER_HEAD_LEN

\* documentIPFields reads the ports nxthdr_offs bytes behind the offset it is
\* given, and throws port0_exception for a zero port, after the addresses were
\* written.  Given the IP header it reads the ports; given the frame before the
\* header it reads ip_off and ttl; given a copied frame it reads what stands there
\* in the copy.
Port0(base, p) == IF base = p.at THEN p.port0 ELSE p.off0
Port0Copy(n, q, p) == IF q = PageStart(n) THEN p.off0 ELSE n \in net_image.zeros

Reports(recorder, q) == {<<recorder, q>>}
IpFields(base, thrown) == Reports("ip", base) \cup IF thrown THEN {} ELSE Reports("tcp", base)

-----------------------------------------------------------------------------
(* The carvers.  Each yields what it wrote to the recorders, the bytes it  *)
(* takes (0: the next carver is tried) and the packet it writes, if any.   *)

Nothing == [features |-> {}, bytes |-> 0, packet |-> NoPacket, from |-> 0, time |-> 0]

carvePCAPFileHeader(q) ==
  IF q \in net_image.files
  THEN [Nothing EXCEPT !.features = Reports("ip", q), !.bytes = TCPDUMP_HEADER_SIZE] ELSE Nothing

Truncated(n, q) == \E p \in RecordsAt(n, q) : RecordEnd(p) > BufEnd(n)

\* The data of the record is raw IP, a frame, or neither.
carvePCAPPackets(n, q) ==
  IF ~\E p \in RecordsAt(n, q) : RecordEnd(p) = BufEnd(n) \/ likely_valid_pcap_packet_header(n, RecordEnd(p))
  THEN Nothing
  ELSE LET record == CHOOSE p \in RecordsAt(n, q) : TRUE
           data == q + PCAP_RECORD_HEADER_SIZE
           raw == sanityCheckIP46Header(n, data)
           h2 == IF raw # NoPacket THEN raw ELSE sanityCheckIP46Header(n, data + ETHER_HEAD_LEN)
           size == PCAP_RECORD_HEADER_SIZE + CapLen(record) IN
       IF h2 = NoPacket THEN [Nothing EXCEPT !.bytes = size]
       ELSE LET thrown == Port0(data, h2) IN
            [features |-> IpFields(data, thrown),
             bytes |-> IF thrown THEN 0 ELSE size,
             packet |-> IF thrown THEN NoPacket ELSE h2,
             from |-> data, time |-> q]

\* Only a packet with a valid checksum is documented and written.
carveEther(n, q) ==
  LET h == sanityCheckIP46Header(n, q + ETHER_HEAD_LEN) IN
  IF ~validateEther(q) \/ h = NoPacket THEN Nothing
  ELSE IF ~h.cksum THEN Nothing
  ELSE LET thrown == Port0(q + ETHER_HEAD_LEN, h) IN
       [features |-> Reports("ether", q) \cup IpFields(q + ETHER_HEAD_LEN, thrown),
        bytes |-> IF thrown THEN 0 ELSE ETHER_HEAD_LEN + h.len,
        packet |-> IF thrown THEN NoPacket ELSE h,
        from |-> q, time |-> 0]

\* The frame written is forged, and filled from the first byte of the sbuf.
carveIPFrame(n, q) ==
  LET h == sanityCheckIP46Header(n, q) IN
  IF h = NoPacket THEN Nothing
  ELSE IF ~h.addr \/ ~h.cksum THEN Nothing
  ELSE LET thrown == Port0Copy(n, q, h) IN
       [features |-> IpFields(q, thrown),
        bytes |-> IF thrown THEN 0 ELSE h.len,
        packet |-> IF thrown THEN NoPacket ELSE h,
        from |-> PageStart(n), time |-> 0]

\* carveSockAddrIn and carveTCPTOBJ.
carve_memory(q) ==
  IF q \in net_image.memory
  THEN [Nothing EXCEPT !.features = Reports("ip", q), !.bytes = MEMORY_BYTES] ELSE Nothing

\* The carvers in their order; those that found nothing may have written features.
Tried(n, q) == <<carvePCAPFileHeader(q), carvePCAPPackets(n, q), carveEther(n, q), carveIPFrame(n, q), carve_memory(q)>>
Hits(tried) == {k \in DOMAIN tried : tried[k].bytes > 0}
First(tried) == IF Hits(tried) = {} THEN Len(tried) ELSE CHOOSE k \in Hits(tried) : \A j \in Hits(tried) : k <= j

-----------------------------------------------------------------------------
\* No page begun and no file opened.
NetFresh ==
  /\ net_pages = NetPages
  /\ net_pc = [w \in Carvers |-> "idle"]
  /\ net_page = [w \in Carvers |-> 0] /\ net_pos = [w \in Carvers |-> 0]
  /\ net_job = [w \in Carvers |-> Nothing]
  /\ Mfcap = NoCarver /\ fcap = "null" /\ packets_pcap = <<>>
  /\ net_features = {} /\ net_abandoned = {} /\ net_errors = 0

NetInit == net_image \in Images /\ NetFresh

Goto(w, place) == net_pc' = [net_pc EXCEPT ![w] = place]

BeginPage(w) ==
  /\ net_pc[w] = "idle"
  /\ \E n \in net_pages : /\ net_pages' = net_pages \ {n}
                          /\ net_page' = [net_page EXCEPT ![w] = n]
                          /\ net_pos' = [net_pos EXCEPT ![w] = PageStart(n)]
  /\ Goto(w, "carve")
  /\ UNCHANGED <<net_image, net_job, Mfcap, fcap, packets_pcap, net_features, net_abandoned, net_errors>>

\* Mutant: the loop runs to the end of the page.
InLoop_ToTheEnd(n, q) == q < PageEnd(n)

InLoop(n, q) == q + min_packet_bytes < PageEnd(n)

\* Mutant: one byte too far behind what was carved.
Advance_Past(carved) == carved.bytes + 1

\* Mutant: where nothing is carved the loop stays.
Advance_Stuck(carved) == carved.bytes

\* How far the loop goes on.
Advance(carved) == IF carved.bytes > 0 THEN carved.bytes ELSE 1

CarveAt(w) ==
  LET n == net_page[w]
      q == net_pos[w] IN
  /\ net_pc[w] = "carve" /\ InLoop(n, q) /\ (q \in net_image.files \/ ~Truncated(n, q))
  /\ \E tried \in {Tried(n, q)} :
       LET carved == tried[First(tried)] IN
       /\ net_features' = net_features \cup UNION {tried[k].features : k \in 1 .. First(tried)}
       /\ net_pos' = [net_pos EXCEPT ![w] = q + Advance(carved)]
       /\ net_job' = [net_job EXCEPT ![w] = carved]
       /\ IF carved.packet # NoPacket THEN Goto(w, "lock") ELSE UNCHANGED net_pc
  /\ UNCHANGED <<net_image, net_pages, net_page, Mfcap, fcap, packets_pcap, net_abandoned, net_errors>>

\* The range_exception of a truncated record ends the page, without a flush.
ThrowTruncated(w) ==
  /\ net_pc[w] = "carve" /\ InLoop(net_page[w], net_pos[w])
  /\ net_pos[w] \notin net_image.files /\ Truncated(net_page[w], net_pos[w])
  /\ Goto(w, "idle") /\ net_abandoned' = net_abandoned \cup {net_page[w]}
  /\ UNCHANGED <<net_image, net_pages, net_page, net_pos, net_job, Mfcap, fcap, packets_pcap, net_features, net_errors>>

EndCarve(w) ==
  /\ net_pc[w] = "carve" /\ ~InLoop(net_page[w], net_pos[w]) /\ Goto(w, "flush")
  /\ UNCHANGED <<net_image, net_pages, net_page, net_pos, net_job, Mfcap, fcap, packets_pcap,
                 net_features, net_abandoned, net_errors>>

\* flush() locks and unlocks in one.  If it fails, nobody looks.
Flush(w) ==
  /\ net_pc[w] = "flush" /\ Mfcap = NoCarver /\ Goto(w, "idle")
  /\ \/ UNCHANGED <<fcap, net_errors>>
     \/ /\ fcap = "good" /\ net_errors < MaxWriteErrors
        /\ fcap' = "bad" /\ net_errors' = net_errors + 1
  /\ UNCHANGED <<net_image, net_pages, net_page, net_pos, net_job, Mfcap, packets_pcap,
                 net_features, net_abandoned>>

-----------------------------------------------------------------------------
(* pcap_writepkt *)

\* Mutant: no lock is taken.
Lock_None(w) ==
  /\ net_pc[w] = "lock" /\ UNCHANGED Mfcap
  /\ Goto(w, IF fcap = "null" THEN "open" ELSE "record")
  /\ UNCHANGED <<net_image, net_pages, net_page, net_pos, net_job, fcap, packets_pcap,
                 net_features, net_abandoned, net_errors>>

Lock(w) ==
  /\ net_pc[w] = "lock" /\ Mfcap = NoCarver /\ Mfcap' = w
  /\ Goto(w, IF fcap = "null" THEN "open" ELSE "record")
  /\ UNCHANGED <<net_image, net_pages, net_page, net_pos, net_job, fcap, packets_pcap,
                 net_features, net_abandoned, net_errors>>

\* A runtime_error: the lock_guard gives the mutex back, the scanner set catches it.
Throw(w) ==
  Goto(w, "idle") /\ Mfcap' = NoCarver /\ net_abandoned' = net_abandoned \cup {net_page[w]}

OpenFile(w) ==
  /\ net_pc[w] = "open"
  /\ \/ fcap' = "good" /\ Goto(w, "header") /\ UNCHANGED <<Mfcap, net_abandoned, net_errors>>
     \/ /\ net_errors < MaxWriteErrors /\ net_errors' = net_errors + 1
        /\ fcap' = "bad" /\ Throw(w)
  /\ UNCHANGED <<net_image, net_pages, net_page, net_pos, net_job, packets_pcap, net_features>>

Piece(w) == [what |-> net_pc[w], packet |-> net_job[w].packet, from |-> net_job[w].from, time |-> net_job[w].time]
Behind == [header |-> "record", record |-> "data", data |-> "carve"]
Unlocks(w) == Mfcap' = IF net_pc[w] = "data" THEN NoCarver ELSE Mfcap

WritePiece(w) ==
  /\ net_pc[w] \in DOMAIN Behind /\ fcap = "good"
  /\ packets_pcap' = Append(packets_pcap, Piece(w))
  /\ Goto(w, Behind[net_pc[w]]) /\ Unlocks(w)
  /\ UNCHANGED <<net_image, net_pages, net_page, net_pos, net_job, fcap, net_features, net_abandoned, net_errors>>

\* Part of a piece is written.  Only the data are written without a look at the
\* state of the stream.
WriteFails(w) ==
  /\ net_pc[w] \in DOMAIN Behind /\ fcap = "good" /\ net_errors < MaxWriteErrors
  /\ net_errors' = net_errors + 1 /\ fcap' = "bad"
  /\ packets_pcap' = Append(packets_pcap, [Piece(w) EXCEPT !.what = "partial"])
  /\ IF net_pc[w] = "data" THEN Goto(w, "carve") /\ Unlocks(w) /\ UNCHANGED net_abandoned ELSE Throw(w)
  /\ UNCHANGED <<net_image, net_pages, net_page, net_pos, net_job, net_features>>

WriteToBadStream(w) ==
  /\ net_pc[w] = "record" /\ fcap = "bad" /\ Throw(w)
  /\ UNCHANGED <<net_image, net_pages, net_page, net_pos, net_job, fcap, packets_pcap, net_features, net_errors>>

NetWorker(w) ==
  \/ BeginPage(w) \/ CarveAt(w) \/ ThrowTruncated(w) \/ EndCarve(w) \/ Flush(w)
  \/ Lock(w) \/ OpenFile(w) \/ WritePiece(w) \/ WriteFails(w) \/ WriteToBadStream(w)

NetNext == \E w \in Carvers : NetWorker(w)

NetSpec == NetInit /\ [][NetNext]_net_vars /\ \A w \in Carvers : WF_net_vars(NetWorker(w))

-----------------------------------------------------------------------------
NetTypeOK ==
  /\ net_pages \subseteq NetPages /\ net_abandoned \subseteq NetPages
  /\ net_pc \in [Carvers -> {"idle", "carve", "lock", "flush", "open"} \cup DOMAIN Behind]
  /\ net_page \in [Carvers -> Nat] /\ net_pos \in [Carvers -> Nat]
  /\ \A w \in Carvers : DOMAIN net_job[w] = DOMAIN Nothing
  /\ Mfcap \in Carvers \cup {NoCarver} /\ fcap \in {"null", "good", "bad"}
  /\ packets_pcap \in Seq([what : DOMAIN Behind \cup {"partial"}, packet : net_image.packets, from : Nat, time : Nat])
  /\ net_features \subseteq {"ip", "tcp", "ether"} \X Nat
  /\ net_errors \in 0 .. MaxWriteErrors

Pieces == DOMAIN packets_pcap
SamePacket(j, k) == packets_pcap[j].packet = packets_pcap[k].packet /\ packets_pcap[j].from = packets_pcap[k].from

\* packets.pcap is one file header and then whole records, each followed by its
\* own data, whatever the workers do at the same time; only its last piece can be
\* cut off, by a write that failed, or be a record whose data are yet to come.
PcapWellFormed ==
  \A k \in Pieces :
    /\ packets_pcap[k].what = "partial" => k = Len(packets_pcap)
    /\ packets_pcap[k].what = "header" <=> (k = 1 /\ packets_pcap[k].what # "partial")
    /\ packets_pcap[k].what = "data" => k > 2 /\ packets_pcap[k - 1].what = "record" /\ SamePacket(k - 1, k)
    /\ packets_pcap[k].what = "record" /\ k < Len(packets_pcap) =>
         packets_pcap[k + 1].what \in {"data", "partial"} /\ SamePacket(k, k + 1)

\* Neither a packet nor an encapsulated version of it is written twice: not by two
\* carvers of one page, nor by the two pages that see it.
NoPacketTwice ==
  \A j, k \in Pieces : packets_pcap[j].what = "record" /\ packets_pcap[k].what = "record"
                       /\ packets_pcap[j].packet = packets_pcap[k].packet => j = k

NetDone == net_pages = {} /\ \A w \in Carvers : net_pc[w] = "idle"

FrameStart(p) == p.at - ETHER_HEAD_LEN
Extent(p) == (IF p.record THEN RecordStart(p) ELSE IF p.ether THEN FrameStart(p) ELSE p.at) .. p.at + p.len - 1
Elsewhere(p) == net_image.memory \cup net_image.files \cup UNION {Extent(o) : o \in net_image.packets \ {p}}

\* When no write failed, each frame with a valid packet and checksum that begins
\* early enough in a page and ends within its margin is in the file, unless a
\* truncated record ended that page: whether it was found by its record or by
\* itself, and whatever stood before it.
FramesKept ==
  NetDone /\ net_errors = 0 =>
    \A p \in net_image.packets :
      \/ ~(p.ip /\ p.ether /\ p.cksum) \/ p.port0 \/ Extent(p) \cap Elsewhere(p) # {}
      \/ ~\E n \in NetPages \ net_abandoned :
            PageStart(n) <= FrameStart(p) /\ InLoop(n, FrameStart(p)) /\ p.at + p.len <= BufEnd(n)
      \/ \E k \in Pieces : packets_pcap[k].what = "data" /\ packets_pcap[k].packet = p

\* The data of a packet in the file are the bytes found in the image, with or
\* without their frame.
WrittenAsFound ==
  \A k \in Pieces : packets_pcap[k].what = "data" =>
    packets_pcap[k].from \in {packets_pcap[k].packet.at, FrameStart(packets_pcap[k].packet)}
==============================================================================
